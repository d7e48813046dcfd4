------------------------------- MODULE TabStrip -------------------------------
(***************************************************************************)
(* The tabs of the page and the panes they are shown in: the strip         *)
(* (TabBar), where tabs are chosen, dragged to another place or out of the *)
(* window, and closed; the split terminals (TerminalArea) with the divider *)
(* that is dragged between them; and the floating terminals.  The session  *)
(* layer renames, adds and removes tabs at any time, also in the middle of *)
(* a drag.  Which menu of the strip is open is left out.                   *)
(***************************************************************************)
EXTENDS PageCalls, Integers

CONSTANTS Terms,   \* ids of terminals
          Paper    \* the tab of a document

(* A tab has an id, a pin, and the runtime it keeps when a reconnect gives *)
(* it another id.  drag is the tab under the mouse; divider the split as   *)
(* it was when the divider was taken, and how far it has come.             *)
Tab(t, pin, run) == [id |-> t, pin |-> pin, run |-> run]

Init == LET s == SetToSeq(Terms) IN
  /\ page = [n |-> 1, at |-> None, active |-> s[1], floats |-> {}, split |-> None, drag |-> None, divider |-> None,
             tabs |-> <<Tab(s[1], FALSE, s[1]), Tab(s[2], FALSE, s[2]), Tab(s[3], FALSE, s[3]), Tab(Paper, FALSE, Paper)>>]
  /\ calls = << >>
  /\ world = [used |-> {s[1], s[2], s[3]}, closed |-> << >>, reopened |-> FALSE]
  /\ acts = 0

Ids(tabs) == {tabs[i].id : i \in DOMAIN tabs}
At(tabs, t) == CHOOSE i \in DOMAIN tabs : tabs[i].id = t
Of(p, t) == p.tabs[At(p.tabs, t)]

(* The strip and the panes show the tabs that do not float.                *)
Visible(p) == SelectSeq(p.tabs, LAMBDA r : r.id \notin p.floats)
Terminals(p) == SelectSeq(Visible(p), LAMBDA r : r.id # Paper)

-----------------------------------------------------------------------------
(* The panes                                                               *)
Paned(split) == IF split = None THEN << >> ELSE split.ids

(* The panes are shown when the active tab is one of them and all are      *)
(* there.                                                                  *)
SplitVisible(p) == p.split # None /\ p.active \in ToSet(p.split.ids) /\ ToSet(p.split.ids) \subseteq Ids(Visible(p))

(* replaceSplitIds: four panes are a grid, and a grid has four.            *)
WithIds(split, ids) == [split EXCEPT !.ids = ids,
  !.dir = IF Len(ids) = 4 THEN "grid" ELSE IF @ = "grid" THEN "horizontal" ELSE @]

(* A pane's tab, or the one that took over its runtime.                    *)
Heir(p, before, t) ==
  IF t \in Ids(Visible(p)) THEN t
  ELSE IF t \notin Ids(before) \/ t = Paper THEN None
  ELSE LET heirs == {i \in DOMAIN Terminals(p) : Terminals(p)[i].run = before[At(before, t)].run} IN
       IF heirs = {} THEN None ELSE Terminals(p)[CHOOSE i \in heirs : TRUE].id

Once(s) == SelectSeq([i \in DOMAIN s |-> IF \E j \in 1..(i - 1) : s[j] = s[i] THEN None ELSE s[i]], LAMBDA t : t # None)

Reconcile(p, before) == IF p.split = None THEN None
  ELSE LET kept == Once([i \in DOMAIN p.split.ids |-> Heir(p, before, p.split.ids[i])])
           ids == IF Len(kept) = 4 THEN kept ELSE SubSeq(kept, 1, 2) IN
       IF Len(kept) < 2 THEN None ELSE IF ids = p.split.ids THEN p.split ELSE WithIds(p.split, ids)

(* Mutant: the divider is still held when the split is another one.        *)
StillHeld(p) == p.divider

(* The divider is let go when the split is another one.                    *)
Held(p) == IF p.split = page.split THEN p.divider ELSE None

(* The effects of a render, when the tabs or the floating ones are others: *)
(* floating ids whose tab has gone are dropped, the split is brought in    *)
(* line with the tabs.  Another split alone is taken as it is.             *)
Settled(q) ==
  LET p == [q EXCEPT !.floats = @ \cap Ids(q.tabs)]
      r == IF p.tabs = page.tabs /\ p.floats = page.floats THEN p ELSE [p EXCEPT !.split = Reconcile(p, page.tabs)] IN
  [r EXCEPT !.divider = Held(r)]
To(q) == page' = Settled(q)

(* activateTab: a terminal that is in no pane takes the active one's.      *)
Shown(p, t) == IF t \notin Ids(p.tabs) THEN p
  ELSE IF p.split = None \/ t = Paper \/ t \in ToSet(Paned(p.split)) THEN [p EXCEPT !.active = t]
  ELSE LET ids == p.split.ids
           at == {i \in DOMAIN ids : ids[i] = p.active}
           i == IF at = {} THEN 1 ELSE CHOOSE i \in at : TRUE IN
       [p EXCEPT !.active = t, !.split = WithIds(@, [ids EXCEPT ![i] = t])]

Activate(t) == t # page.active /\ Act /\ To(Shown(page, t)) /\ UNCHANGED <<calls, world>>

(* A click on a tab, on a pane that is shown, or on a row of the list of   *)
(* all tabs, where Enter takes the first that was found.                   *)
ClickTab(t) == t \in Ids(Visible(page)) /\ Activate(t)
ClickPane(t) == page.split # None /\ SplitVisible(page) /\ t \in ToSet(page.split.ids) /\ Activate(t)
ChooseInList(t) == \E found \in SUBSET Ids(Visible(page)) :
  /\ t \in found /\ \A u \in found : At(page.tabs, t) <= At(page.tabs, u)
  /\ Activate(t)

(* The next or the previous tab of the strip, with the keyboard: from the  *)
(* first to the last, and from the edge when the active one is not there.  *)
Offset(p, d) == LET v == Visible(p)
                    at == {i \in DOMAIN v : v[i].id = p.active} IN
  IF at = {} THEN v[IF d > 0 THEN 1 ELSE Len(v)].id
  ELSE v[(((CHOOSE i \in at : TRUE) - 1 + d + Len(v)) % Len(v)) + 1].id
EdgeKey(i) == i \in {1, Len(Visible(page))} /\ Visible(page) # << >> /\ Activate(Visible(page)[i].id)
Step(d) == Len(Visible(page)) > 1 /\ Act /\ To(Shown(page, Offset(page, d))) /\ UNCHANGED <<calls, world>>

(* The tools of the strip: what there are terminals enough for.            *)
Offered(p, n) == p.active # Paper /\ p.active \in Ids(Visible(p)) /\ Len(Terminals(p)) >= n

(* handleSplitToggle: the same split again is none.                        *)
Split(p, dir) ==
  LET v == Terminals(p)
      a == p.active
      rest == SelectSeq(v, LAMBDA r : r.id # a)
      live == p.split # None /\ p.split.ids[1] \in Ids(v) /\ p.split.ids[2] \in Ids(v) IN
  IF live /\ p.split.dir = dir THEN [p EXCEPT !.split = None]
  ELSE [p EXCEPT !.split = [dir |-> dir, ratio |-> "even",
          ids |-> IF dir = "grid" THEN <<a, rest[1].id, rest[2].id, rest[3].id>> ELSE <<a, rest[1].id>>]]
SplitToggle(dir) == Offered(page, IF dir = "grid" THEN 4 ELSE 2) /\ Act /\ To(Split(page, dir)) /\ UNCHANGED <<calls, world>>

-----------------------------------------------------------------------------
(* The divider between the panes.                                          *)

TakeDivider == SplitVisible(page) /\ page.divider = None /\ Act
  /\ page' = [page EXCEPT !.divider = [split |-> page.split, ratio |-> page.split.ratio]]
  /\ UNCHANGED <<calls, world>>
DragDivider == page.divider # None /\ page' = [page EXCEPT !.divider.ratio = "moved"] /\ UNCHANGED <<calls, world, acts>>

(* The split as it was taken is put back with the ratio it has come to.    *)
ReleaseDivider(cancelled) == page.divider # None /\ UNCHANGED <<calls, world, acts>>
  /\ LET d == page.divider  p == [page EXCEPT !.divider = None] IN
     To(IF cancelled \/ d.ratio = d.split.ratio THEN p ELSE [p EXCEPT !.split = [d.split EXCEPT !.ratio = d.ratio]])

(* An arrow key on the divider, or a double click on it.                   *)
DividerKey(ratio) == SplitVisible(page) /\ page.split.ratio # ratio /\ Act
  /\ To([page EXCEPT !.split.ratio = ratio]) /\ UNCHANGED <<calls, world>>

-----------------------------------------------------------------------------
(* The drag of a tab.                                                      *)
Press(t) == t \in Ids(Visible(page)) /\ page.drag = None /\ Act
  /\ page' = [page EXCEPT !.drag = [tab |-> t, moved |-> FALSE]] /\ UNCHANGED <<calls, world>>
Drag == page.drag # None /\ ~page.drag.moved /\ page' = [page EXCEPT !.drag.moved = TRUE] /\ UNCHANGED <<calls, world, acts>>

(* reorderTabs: among the pinned ones, or among the others.                *)
Reordered(tabs, t, u) ==
  IF t = u \/ t \notin Ids(tabs) \/ u \notin Ids(tabs) \/ tabs[At(tabs, t)].pin # tabs[At(tabs, u)].pin THEN tabs
  ELSE LET to == At(tabs, u) IN InsertAt(RemoveAt(tabs, At(tabs, t)), to, tabs[At(tabs, t)])

(* handleTearOff: the first of the others becomes active.                  *)
TornOff(p, t) == LET rest == SelectSeq(p.tabs, LAMBDA r : r.id # t) IN
  [p EXCEPT !.floats = @ \cup {t}, !.active = IF @ = t /\ rest # << >> THEN rest[1].id ELSE @]

(* The mouse is let go on a tab, or outside of the strip; a document and a *)
(* tab that has gone are not torn off.                                     *)
Drop(u) == page.drag # None /\ u \in Ids(Visible(page)) \cup {"outside"} /\ UNCHANGED <<calls, world, acts>>
  /\ LET t == page.drag.tab  p == [page EXCEPT !.drag = None] IN
     To(IF ~page.drag.moved THEN p
        ELSE IF u = "outside" THEN IF t = Paper \/ t \notin Ids(Visible(p)) THEN p ELSE TornOff(p, t)
        ELSE [p EXCEPT !.tabs = Reordered(@, t, u)])

DockFloating(t) == t \in page.floats /\ Act /\ To([page EXCEPT !.floats = @ \ {t}, !.active = t]) /\ UNCHANGED <<calls, world>>

(* togglePinTab: the pinned ones come first, each kind in its order.       *)
PinnedFirst(tabs) == SelectSeq(tabs, LAMBDA r : r.pin) \o SelectSeq(tabs, LAMBDA r : ~r.pin)
TogglePin(t) == t \in Ids(Visible(page)) /\ Act /\ UNCHANGED <<calls, world>>
  /\ To([page EXCEPT !.tabs = PinnedFirst([i \in DOMAIN @ |-> IF @[i].id = t THEN [@[i] EXCEPT !.pin = ~@] ELSE @[i]])])

-----------------------------------------------------------------------------
(* The tabs of the session layer.  The successor of an active tab that is  *)
(* closed is the one at its place; it may float.                           *)
Closed(p, t) == LET i == At(p.tabs, t)  rest == RemoveAt(p.tabs, i) IN
  [p EXCEPT !.tabs = rest,
            !.active = IF @ # t THEN @ ELSE IF rest = << >> THEN None ELSE rest[IF i <= Len(rest) THEN i ELSE Len(rest)].id]
Close(t) == t \in Ids(page.tabs) /\ Act /\ To(Closed(page, t)) /\ UNCHANGED calls
  /\ world' = IF t = Paper THEN world ELSE [world EXCEPT !.closed = <<Of(page, t)>> \o @]

Fresh == Terms \ world.used
Used(t) == [world EXCEPT !.used = @ \cup {t}]

(* A terminal is opened; one that was closed is, with its pin, at the end. *)
Open(t) == t \in Fresh /\ Act /\ UNCHANGED calls /\ world' = Used(t)
  /\ To([page EXCEPT !.tabs = Append(@, Tab(t, FALSE, t)), !.active = t])
Reopen(t) == t \in Fresh /\ world.closed # << >> /\ Act /\ UNCHANGED calls
  /\ LET pin == Head(world.closed).pin IN
     /\ To([page EXCEPT !.tabs = Append(@, Tab(t, pin, t)), !.active = t])
     /\ world' = [Used(t) EXCEPT !.closed = Tail(@), !.reopened = @ \/ pin]

(* A reconnect gives a tab the id of its new session.                      *)
Replaced(t, u) == t \in Ids(page.tabs) \ {Paper} /\ u \in Fresh /\ Act /\ UNCHANGED calls /\ world' = Used(u)
  /\ To([page EXCEPT !.tabs = [i \in DOMAIN @ |-> IF @[i].id = t THEN [@[i] EXCEPT !.id = u] ELSE @[i]],
                     !.active = IF @ = t THEN u ELSE @])

Next ==
  \/ TakeDivider \/ DragDivider \/ Drag
  \/ \E d \in {1, -1} : Step(d)
  \/ \E i \in 1..(Cardinality(Terms) + 1) : EdgeKey(i)
  \/ \E dir \in {"horizontal", "vertical", "grid"} : SplitToggle(dir)
  \/ \E c \in BOOLEAN : ReleaseDivider(c)
  \/ \E ratio \in {"even", "moved"} : DividerKey(ratio)
  \/ \E t \in Terms \cup {Paper} : ClickTab(t) \/ ClickPane(t) \/ ChooseInList(t) \/ Press(t) \/ TogglePin(t) \/ Close(t)
  \/ \E u \in Terms \cup {Paper, "outside"} : Drop(u)
  \/ \E t \in Terms : DockFloating(t) \/ Open(t) \/ Reopen(t) \/ \E u \in Terms : Replaced(t, u)

-----------------------------------------------------------------------------
(* Each tab stands in the strip once; a tab is active as long as there is  *)
(* one; the panes are two or four terminals that are there and do not      *)
(* float, each once, whatever happened while a divider was held; and the   *)
(* pinned tabs come first, unless one was reopened.                        *)
StripSound ==
  /\ Cardinality(Ids(page.tabs)) = Len(page.tabs)
  /\ page.tabs # << >> => page.active \in Ids(page.tabs)
  /\ page.floats \subseteq Ids(page.tabs) \ {Paper}
  /\ page.split # None => /\ Len(page.split.ids) = (IF page.split.dir = "grid" THEN 4 ELSE 2)
                          /\ Cardinality(ToSet(page.split.ids)) = Len(page.split.ids)
                          /\ ToSet(page.split.ids) \subseteq Ids(Terminals(page))
  /\ ~world.reopened => page.tabs = PinnedFirst(page.tabs)
=============================================================================
