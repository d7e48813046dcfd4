---------------------------- MODULE NamedWorkspaces ----------------------------
(***************************************************************************)
(* The named workspaces: sets of terminals and documents that are saved    *)
(* under a name and opened again (WorkspacesModal, useNamedWorkspaces,     *)
(* workspaces.ts).  Opening one connects its servers one after the other,  *)
(* asks for the secrets of some, and can be stopped; meanwhile sessions    *)
(* drop and reconnect, and documents are opened from outside.              *)
(***************************************************************************)
EXTENDS PageCalls

CONSTANTS Terminals,   \* terminals of servers that have a profile
          ProfileOf,   \* the profile of each; one may have several
          Locked,      \* those whose profile asks for a secret
          Paper,       \* a document
          Ids,         \* ids of tabs
          Labels,      \* names of workspaces
          MaxSaved     \* as many workspaces are kept

(* A workspace names what it holds, in order; panes are the ones shown     *)
(* side by side.                                                           *)
Workspace(name, items, active, panes) == [name |-> name, items |-> items, active |-> active, panes |-> panes]
Tab(id, key) == [id |-> id, key |-> key, live |-> TRUE]

First == SetToSeq(Terminals)
Init ==
  /\ page = [n |-> 1, at |-> None, modal |-> FALSE, issues |-> FALSE, opening |-> None, asking |-> None, submitting |-> FALSE, pending |-> None]
  /\ calls = << >>
  /\ LET s == SetToSeq(Ids)  rest == Ids \ {s[1], s[2]} IN
     \E live \in BOOLEAN : world =
       [tabs |-> <<[Tab(s[1], First[1]) EXCEPT !.live = live], Tab(s[2], Paper)>>, active |-> s[2], panes |-> << >>, floats |-> {},
        saved |-> <<Workspace(SetToSeq(Labels)[1], Append(First, Paper), First[2], First)>>,
        used |-> {s[1], s[2]}, near |-> FALSE, moved |-> FALSE, closed |-> {}, again |-> FALSE]
  /\ acts = 0

IdsOf(tabs) == {tabs[i].id : i \in DOMAIN tabs}
Keys(tabs) == {tabs[i].key : i \in DOMAIN tabs}
With(tabs, key) == {i \in DOMAIN tabs : tabs[i].key = key}
Alive(tabs, key) == {i \in With(tabs, key) : tabs[i].live}
Least(S) == CHOOSE i \in S : \A j \in S : i <= j
Fresh == Ids \ world.used

(* setActiveTab and beginFocusRequest: what was asked for before does not  *)
(* take the focus any more.                                                *)
Navigated(w) == [w EXCEPT !.near = FALSE, !.moved = TRUE]

-----------------------------------------------------------------------------
(* The list of workspaces                                                  *)
Modal(open) == page.modal # open /\ (~open => page.opening = None) /\ Act /\ UNCHANGED calls
  /\ page' = [page EXCEPT !.modal = open, !.issues = FALSE] /\ world' = Navigated(world)

Named(name) == {i \in DOMAIN world.saved : world.saved[i].name = name}
Click == page.modal /\ page.opening = None

(* captureWorkspace: what does not float; each terminal and document once. *)
Captured(name) ==
  LET shown == SelectSeq(world.tabs, LAMBDA r : r.id \notin world.floats)
      all == [i \in DOMAIN shown |-> shown[i].key]
      items == [j \in 1..Cardinality(ToSet(all)) |->
                  CHOOSE k \in ToSet(all) : Cardinality({l \in ToSet(all) : Least({i \in DOMAIN all : all[i] = l}) <= Least({i \in DOMAIN all : all[i] = k})}) = j]
      at(id) == {i \in DOMAIN shown : shown[i].id = id} IN
  Workspace(name, items,
    IF at(world.active) = {} THEN items[1] ELSE shown[Least(at(world.active))].key,
    IF \E i \in DOMAIN world.panes : at(world.panes[i]) = {} THEN << >>
    ELSE LET keys == [i \in DOMAIN world.panes |-> shown[Least(at(world.panes[i]))].key] IN
         IF Cardinality(ToSet(keys)) = Len(keys) THEN keys ELSE << >>)
Eligible == \E i \in DOMAIN world.tabs : world.tabs[i].id \notin world.floats

(* snapshot: a new one, under a name nobody has; or an update of one.      *)
Snapshot(name) == Click /\ Eligible /\ Named(name) = {} /\ Len(world.saved) < MaxSaved /\ Act
  /\ world' = [world EXCEPT !.saved = Append(@, Captured(name))] /\ UNCHANGED <<page, calls>>
Update(i) == Click /\ Eligible /\ i \in DOMAIN world.saved /\ Act
  /\ world' = [world EXCEPT !.saved = Append(RemoveAt(@, i), Captured(world.saved[i].name))] /\ UNCHANGED <<page, calls>>
Rename(i, name) == Click /\ i \in DOMAIN world.saved /\ Named(name) \subseteq {i} /\ Act
  /\ world' = [world EXCEPT !.saved[i].name = name] /\ UNCHANGED <<page, calls>>
RemoveSaved(i) == Click /\ i \in DOMAIN world.saved /\ Act
  /\ world' = [world EXCEPT !.saved = RemoveAt(@, i)] /\ UNCHANGED <<page, calls>>

-----------------------------------------------------------------------------
(* Opening one                                                             *)

(* The dialog that asks for a secret is kept from one question to the next *)
(* when both are of one profile (its key).                                 *)
Asked(p, key) ==
  [p EXCEPT !.asking = key,
            !.submitting = @ /\ p.asking # None /\ ProfileOf[p.asking] = ProfileOf[key]]

(* The loop of open goes over the terminals that are there, and stops for  *)
(* a question or for a connection.  It is over after the last one, and     *)
(* when it was stopped.                                                    *)
There(o, w) == CHOOSE n \in 0..Len(o.todo) :
  /\ \A j \in 1..n : Alive(w.tabs, o.todo[j]) # {}
  /\ n < Len(o.todo) => Alive(w.tabs, o.todo[n + 1]) = {}

GoesOn(p, o, w, before) ==
  LET n == IF o.on THEN There(o, w) ELSE 0
      rest == SubSeq(o.todo, n + 1, Len(o.todo))
      found == [k \in {o.todo[j] : j \in 1..n} |-> w.tabs[Least(Alive(w.tabs, k))].id]
      next == [o EXCEPT !.todo = rest, !.got = @ @@ found]
      q == [p EXCEPT !.asking = None, !.submitting = FALSE] IN
  IF ~o.on \/ rest = << >>
    THEN /\ page' = [q EXCEPT !.opening = None, !.issues = o.issues, !.modal = @ /\ o.issues, !.pending = IF o.on THEN next ELSE @]
         /\ calls' = before
  ELSE IF rest[1] \in Locked
    THEN page' = Asked([p EXCEPT !.opening = next], rest[1]) /\ calls' = before
  ELSE /\ page' = [q EXCEPT !.opening = next]
       /\ calls' = Append(before, Call("connect", rest[1]))

OpenWorkspace(i) == Click /\ page.pending = None /\ i \in DOMAIN world.saved /\ Act
  /\ LET ws == world.saved[i]
         p == [page EXCEPT !.issues = FALSE]
         o == [ws |-> ws, on |-> TRUE, got |-> << >>, granted |-> FALSE, issues |-> FALSE, todo |-> SelectSeq(ws.items, LAMBDA k : k # Paper)] IN
     /\ world' = [world EXCEPT !.near = TRUE, !.moved = FALSE]
     /\ IF Paper \in ToSet(ws.items) THEN page' = [p EXCEPT !.opening = o] /\ Send(<<Call("files", None)>>)
        ELSE GoesOn(p, o, world, calls)

FilesAnswered == \E i \in DOMAIN calls :
  /\ Back(i, "files")
  /\ LET good == calls[i].st = "ok" IN
     GoesOn(page, [page.opening EXCEPT !.granted = good, !.issues = @ \/ (~good /\ Paper \notin Keys(world.tabs))], world, RemoveAt(calls, i))
  /\ UNCHANGED <<world, acts>>

(* appendSession: the tab of the new session is at the end, and active     *)
(* only if there is no other.                                              *)
Appended(w, id, key) == [w EXCEPT !.tabs = IF id \in IdsOf(@) THEN @ ELSE Append(@, Tab(id, key)),
                                  !.active = IF @ = None THEN id ELSE @]

(* A secret was good and the next question is of the same profile, kept    *)
(* for the property.                                                       *)
Again(w) == LET todo == page.opening.todo IN
  [w EXCEPT !.again = @ \/ (Len(todo) > 1 /\ ProfileOf[todo[1]] = ProfileOf[todo[2]])]

ConnectAnswered == \E i \in DOMAIN calls :
  /\ Back(i, "connect") /\ UNCHANGED acts
  /\ LET o == page.opening  next == [o EXCEPT !.todo = Tail(@)]  key == calls[i].x IN
     IF calls[i].st = "ok"
       THEN LET w == Appended(world, calls[i].got, key) IN
            world' = (IF page.asking = None THEN w ELSE Again(w)) /\ GoesOn(page, [next EXCEPT !.got = @ @@ (key :> calls[i].got)], w, RemoveAt(calls, i))
     ELSE /\ UNCHANGED world
          /\ IF page.asking # None THEN page' = [page EXCEPT !.submitting = FALSE] /\ GoOn(i, << >>)
             ELSE GoesOn(page, [next EXCEPT !.issues = TRUE], world, RemoveAt(calls, i))

(* The question for a secret; a wrong one leaves it there.  A terminal     *)
(* that has come back by itself is taken (connectWorkspaceProfile), and    *)
(* that is rendered before the loop goes on.                               *)
Answerable == page.asking # None /\ ~page.submitting
SubmitSecret == Answerable /\ Act
  /\ LET there == Alive(world.tabs, page.asking)  o == page.opening IN
     IF there = {}
       THEN page' = [page EXCEPT !.submitting = TRUE] /\ Send(<<Call("connect", page.asking)>>) /\ UNCHANGED world
     ELSE /\ UNCHANGED world
          /\ GoesOn([page EXCEPT !.asking = None], [o EXCEPT !.todo = Tail(@), !.got = @ @@ (page.asking :> world.tabs[Least(there)].id)], world, calls)
SkipSecret == Answerable /\ Act /\ UNCHANGED world
  /\ GoesOn([page EXCEPT !.asking = None], [page.opening EXCEPT !.todo = Tail(@), !.issues = TRUE], world, calls)

(* cancel, which a question lies over: the operation is no longer current. *)
Stop == page.opening # None /\ page.opening.on /\ page.asking = None /\ Act
  /\ page' = [page EXCEPT !.opening.on = FALSE] /\ UNCHANGED <<calls, world>>

(* applyWorkspace: each item finds its tab, or a new one for a document.   *)
Resolved(o, tabs, fresh) == [k \in ToSet(o.ws.items) |->
  IF k = Paper THEN IF With(tabs, k) # {} THEN tabs[Least(With(tabs, k))].id ELSE IF o.granted THEN fresh ELSE None
  ELSE IF k \notin DOMAIN o.got THEN None
  ELSE IF o.got[k] \in IdsOf(tabs) THEN o.got[k]
  ELSE IF Alive(tabs, k) # {} THEN tabs[Least(Alive(tabs, k))].id ELSE None]

(* The effect: the tabs of the workspace come first; unless the user has   *)
(* gone elsewhere since, in which case only the new ones are added.        *)
Applied(o, fresh) ==
  LET r == Resolved(o, world.tabs, fresh)
      tabs == IF fresh # None /\ fresh \in {r[k] : k \in DOMAIN r} THEN Append(world.tabs, Tab(fresh, Paper)) ELSE world.tabs
      found == SelectSeq([i \in DOMAIN o.ws.items |-> r[o.ws.items[i]]], LAMBDA id : id # None)
      mine(id) == CHOOSE i \in DOMAIN tabs : tabs[i].id = id
      panes == [i \in DOMAIN o.ws.panes |-> r[o.ws.panes[i]]]
      focus == IF r[o.ws.active] # None THEN r[o.ws.active] ELSE IF found = << >> THEN None ELSE found[1]
      w == [world EXCEPT !.used = @ \cup (IdsOf(tabs) \cap {fresh})] IN
  IF ~world.near THEN [w EXCEPT !.tabs = tabs]
  ELSE [w EXCEPT !.tabs = [i \in DOMAIN found |-> tabs[mine(found[i])]] \o SelectSeq(tabs, LAMBDA t : t.id \notin ToSet(found)),
                 !.panes = IF None \in ToSet(panes) THEN << >> ELSE panes,
                 !.floats = @ \ ToSet(found),
                 !.active = IF focus = None THEN @ ELSE focus]
ApplyPending == page.pending # None /\ page' = [page EXCEPT !.pending = None] /\ UNCHANGED <<calls, acts>>
  /\ \E fresh \in (IF Fresh = {} THEN {None} ELSE Fresh) : world' = Applied(page.pending, fresh)

-----------------------------------------------------------------------------
(* What happens meanwhile                                                  *)
ServeFiles(i) == Sent(i, "files") /\ (Served(i, None) \/ Failed(i, None)) /\ UNCHANGED <<page, world, acts>>
ServeConnect(i) == Sent(i, "connect") /\ UNCHANGED <<page, acts>>
  /\ \/ Failed(i, None) /\ UNCHANGED world
     \/ \E id \in Fresh : Served(i, id) /\ world' = [world EXCEPT !.used = @ \cup {id}]

Drop(i) == i \in DOMAIN world.tabs /\ world.tabs[i].key # Paper /\ world.tabs[i].live /\ Act /\ UNCHANGED <<page, calls>>
  /\ world' = [world EXCEPT !.tabs[i].live = FALSE]
(* A dropped terminal has reconnected, under another id; the backend lets  *)
(* no two connections of one terminal go on at once.                       *)
Replaced(i, id) == i \in DOMAIN world.tabs /\ ~world.tabs[i].live /\ id \in Fresh /\ Act /\ UNCHANGED <<page, calls>>
  /\ Alive(world.tabs, world.tabs[i].key) = {}
  /\ (\A j \in DOMAIN calls : calls[j].op = "connect" => calls[j].x # world.tabs[i].key)
  /\ world' = [world EXCEPT !.tabs[i].id = id, !.tabs[i].live = TRUE, !.used = @ \cup {id},
                            !.active = IF @ = world.tabs[i].id THEN id ELSE @]
(* The document is opened from outside of the window.                      *)
Outside == Act /\ UNCHANGED <<page, calls>>
  /\ LET there == With(world.tabs, Paper) IN
     IF there # {} THEN world' = [Navigated(world) EXCEPT !.active = world.tabs[Least(there)].id]
     ELSE \E id \in Fresh : world' = [Navigated(world) EXCEPT !.tabs = Append(@, Tab(id, Paper)), !.active = id, !.used = @ \cup {id}]
(* Without the dialog the user closes tabs and tears them off.             *)
Close(i) == ~page.modal /\ i \in DOMAIN world.tabs /\ Act /\ UNCHANGED <<page, calls>>
  /\ LET rest == RemoveAt(world.tabs, i)  id == world.tabs[i].id IN
     world' = [Navigated(world) EXCEPT !.tabs = rest, !.closed = @ \cup {id}, !.floats = @ \ {id}, !.panes = << >>,
                 !.active = IF @ # id THEN @ ELSE IF rest = << >> THEN None ELSE rest[1].id]
TearOff(i) == ~page.modal /\ i \in DOMAIN world.tabs /\ world.tabs[i].key # Paper /\ Act /\ UNCHANGED <<page, calls>>
  /\ world' = [Navigated(world) EXCEPT !.floats = @ \cup {world.tabs[i].id}]

Next ==
  \/ FilesAnswered \/ ConnectAnswered \/ SubmitSecret \/ SkipSecret \/ Stop \/ ApplyPending \/ Outside
  \/ \E open \in BOOLEAN : Modal(open)
  \/ \E name \in Labels : Snapshot(name) \/ \E i \in DOMAIN world.saved : Rename(i, name)
  \/ \E i \in DOMAIN world.saved : Update(i) \/ RemoveSaved(i) \/ OpenWorkspace(i)
  \/ \E i \in DOMAIN calls : ServeFiles(i) \/ ServeConnect(i)
  \/ \E i \in DOMAIN world.tabs : Drop(i) \/ Close(i) \/ TearOff(i) \/ \E id \in Ids : Replaced(i, id)

-----------------------------------------------------------------------------
(* No document has two tabs and no server two terminals that live; no two  *)
(* workspaces have one name; the panes are tabs that are there; and an     *)
(* opening that was stopped, or is over, asks for no secret.               *)
EachOnce ==
  /\ Cardinality(IdsOf(world.tabs)) = Len(world.tabs)
  /\ Cardinality(With(world.tabs, Paper)) <= 1
  /\ \A k \in Terminals : Cardinality(Alive(world.tabs, k)) <= 1
  /\ \A i, j \in DOMAIN world.saved : world.saved[i].name = world.saved[j].name => i = j
  /\ page.asking # None => page.opening # None /\ page.opening.on

(* An opening goes on by itself or waits for an answer that can be given:  *)
(* a secret, unless the last one was given in the same dialog.             *)
SecretCanBeGiven == Quiet => ~page.submitting
WorkspaceNotBusy == /\ Quiet => (page.opening # None => page.asking # None)
                    /\ ~world.again => SecretCanBeGiven

(* A tab goes only when it is closed or takes the id of a reconnect; and   *)
(* an opening takes the focus, the panes and the floating terminals only   *)
(* if the user has not gone elsewhere since.                               *)
WorkspaceAsAsked ==
  /\ Len(world'.tabs) < Len(world.tabs) => world'.closed # world.closed
  /\ page.pending # None /\ page'.pending = None /\ world.moved
       => world'.active = world.active /\ world'.panes = world.panes /\ world'.floats = world.floats
=============================================================================
