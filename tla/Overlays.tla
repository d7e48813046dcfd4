------------------------------- MODULE Overlays -------------------------------
(***************************************************************************)
(* Dialogs over the page, cards that float on it, and the keyboard's focus.*)
(* Dialogs register themselves; the one in front owns the focus, takes the *)
(* Escape key and keeps what lies below from being used.  It moves the     *)
(* focus in a frame after it came to own it, and gives it back in a frame  *)
(* after it ceased to.                                                     *)
(* The focus is in the terminal, in a dialog or card, or ("body") on the   *)
(* rest of the page.                                                       *)
(***************************************************************************)
EXTENDS PageCalls

CONSTANTS
    Dialogs, Urgent,   \* of the dialogs, those with priority
    Cards,
    Papers, Hosted     \* the tabs with a document, and with a session

(* page.restore: where the focus was when a dialog came to own it first.   *)
(* world.origin: where it was before the first of the dialogs on screen;   *)
(* world.lost: that is no longer known to any of them; world.clicked: the  *)
(* user clicked beside a dialog that does not close for it.                *)
Init ==
  /\ page = [n |-> 1, at |-> None, open |-> << >>, restore |-> [d \in Dialogs |-> None], owner |-> None,
             cards |-> << >>, focus |-> "terminal", frames |-> << >>]
  /\ calls = << >> /\ acts = 0
  /\ world = [origin |-> "terminal", lost |-> FALSE, clicked |-> FALSE]

Mounted(d) == d \in ToSet(page.open)
Top(open) == LET urgent == SelectSeq(open, LAMBDA d : d \in Urgent) IN
  IF open = << >> THEN None ELSE Last(IF urgent = << >> THEN open ELSE urgent)
Connected(p, e) == e \in {"terminal", "body"} \cup ToSet(p.open) \cup ToSet(p.cards)

(* What has gone from the page does not keep the focus.                    *)
Removed(p) == IF Connected(p, p.focus) THEN p ELSE [p EXCEPT !.focus = "body"]

(* The effects of a rendering after which another dialog is in front.      *)
Leaves(p) == IF p.owner = None THEN p ELSE [p EXCEPT !.frames = Append(@, [to |-> p.restore[p.owner], enter |-> FALSE])]
Enters(p, d) == IF d = None THEN [p EXCEPT !.owner = d]
  ELSE [p EXCEPT !.owner = d, !.restore[d] = IF @ = None THEN p.focus ELSE @, !.frames = Append(@, [to |-> d, enter |-> TRUE])]
Rendered(p) == IF Top(p.open) = p.owner THEN Removed(p) ELSE Enters(Leaves(Removed(p)), Top(p.open))

-----------------------------------------------------------------------------
Open(d) == ~Mounted(d) /\ Act /\ UNCHANGED calls
  /\ page' = Rendered([page EXCEPT !.open = Append(@, d), !.restore[d] = None])
  /\ world' = [world EXCEPT !.clicked = @ /\ page'.owner = page.owner,
                            !.lost = @ \/ (page.open = << >> /\ page.frames # << >>) \/ Top(Append(page.open, d)) # d]
Close(d) == UNCHANGED calls
  /\ page' = Rendered([page EXCEPT !.open = SelectSeq(@, LAMBDA e : e # d)])
  /\ world' = [world EXCEPT !.clicked = @ /\ page'.owner = page.owner, !.lost = @ \/ LET left == ToSet(page.open) \ {d} IN left # {} /\ \A e \in left : page.restore[e] # world.origin]
(* What the dialog was for is done, or somebody else has ended it.         *)
Done(d) == Mounted(d) /\ Act /\ Close(d)

Frame == page.frames # << >> /\ UNCHANGED <<calls, world, acts>>
  /\ LET f == Head(page.frames)
         can == IF f.enter THEN page.owner = f.to ELSE page.open = << >> /\ Connected(page, f.to) IN
     page' = [page EXCEPT !.frames = Tail(@), !.focus = IF can THEN f.to ELSE @]

(* Beside the dialog in front: it closes, or (busy) it does not.           *)
Backdrop == page.open # << >> /\ page.frames = << >> /\ Act
  /\ \/ Close(page.owner)
     \/ page' = [page EXCEPT !.focus = "body"] /\ world' = [world EXCEPT !.clicked = TRUE] /\ UNCHANGED calls

(* The cards hear the key first; the last one closes unless a dialog is    *)
(* open or the key is meant for a terminal.                                *)
CloseCard(c) == page' = Removed([page EXCEPT !.cards = SelectSeq(@, LAMBDA e : e # c)]) /\ UNCHANGED calls
  /\ world' = [world EXCEPT !.origin = IF @ = c THEN "body" ELSE @]
CardHearsEscape == page.cards # << >> /\ page.open = << >> /\ page.focus # "terminal"
Escape == Act
  /\ \/ CardHearsEscape /\ CloseCard(Last(page.cards))
     \/ ~CardHearsEscape /\ page.owner # None /\ page.focus = page.owner /\ Close(page.owner)

Free == page.open = << >> /\ page.frames = << >>
OpenCard(c) == c \notin ToSet(page.cards) /\ Free /\ Act /\ UNCHANGED calls
  /\ page' = [page EXCEPT !.cards = Append(@, c), !.focus = "body"] /\ world' = [world EXCEPT !.origin = "body", !.lost = FALSE]
CardClosed(c) == c \in ToSet(page.cards) /\ Free /\ Act /\ CloseCard(c)
FocusOn(e) == Free /\ Connected(page, e) /\ e # page.focus /\ Act /\ UNCHANGED calls
  /\ page' = [page EXCEPT !.focus = e] /\ world' = [world EXCEPT !.origin = e, !.lost = FALSE]

Next ==
  \/ Frame \/ Backdrop \/ Escape
  \/ \E d \in Dialogs : Open(d) \/ Done(d)
  \/ \E c \in Cards : OpenCard(c) \/ CardClosed(c) \/ FocusOn(c)
  \/ FocusOn("terminal")

-----------------------------------------------------------------------------
(* Between frames the keys go to the dialog in front, which is the last    *)
(* one opened unless one with priority is; once there is none they go      *)
(* where they went before (unless a dialog opened while the last one was   *)
(* just closing, or below one with priority, or the only one that knew     *)
(* closed below another one).                                              *)
KeysGoInFront == page.frames = << >> =>
  /\ page.open # << >> /\ ~world.clicked => page.focus = page.owner
  /\ page.open # << >> => page.owner \in Urgent \/ (ToSet(page.open) \cap Urgent = {} /\ page.owner = Last(page.open))
  /\ page.open = << >> /\ ~world.lost => page.focus = world.origin

(* A card stays as long as a dialog is over it.                            *)
CardStaysBehind == page.open # << >> => Len(page'.cards) >= Len(page.cards)

-----------------------------------------------------------------------------
(***************************************************************************)
(* What is asked before something is closed: a tab with a document that    *)
(* has unsaved text, a tab with a connected session, the whole program.    *)
(* A close waits for the answer; there is one place for each question, so  *)
(* a second one takes the place of the first, whose close then waits for   *)
(* ever.  That can happen: a dialog has the focus only in the frame after  *)
(* it appeared, and a click beside one that saves takes the focus away.    *)
(***************************************************************************)

(* page.draft: an editor of a profile, of a command or of the settings has *)
(* changes; page.ask, page.end, page.quit: the questions on the screen.    *)
(* world.unsaved: texts that are nowhere but in their tab; world.taken:    *)
(* tabs the user wants closed all the same; world.left: the user wants to  *)
(* leave the program all the same.                                         *)
GateInit ==
  /\ \E confirm \in BOOLEAN : page = [n |-> 1, at |-> None, tabs |-> Papers \cup Hosted, dirty |-> {}, draft |-> FALSE,
                                      confirm |-> confirm, ask |-> None, end |-> None, quit |-> FALSE, over |-> FALSE]
  /\ calls = << >> /\ acts = 0
  /\ world = [unsaved |-> {}, backup |-> FALSE, taken |-> {}, left |-> FALSE]

(* A close that is answered goes on at once, one of a session only when    *)
(* that is disconnected.                                                   *)
Running == ~page.over /\ ~\E i \in DOMAIN calls : calls[i].op = "close" /\ calls[i].st # "sent" /\ calls[i].x.t \in Papers
Modal == page.ask # None \/ page.end # None \/ page.quit

-----------------------------------------------------------------------------
Type(d) == Running /\ ~Modal /\ d \in page.tabs /\ d \notin page.dirty /\ Act /\ UNCHANGED calls
  /\ page' = [page EXCEPT !.dirty = @ \cup {d}] /\ world' = [world EXCEPT !.unsaved = @ \cup {d}]
(* A save that the document itself had begun has ended.                    *)
Saved(d) == Running /\ d \in page.dirty /\ Act /\ UNCHANGED calls
  /\ page' = [page EXCEPT !.dirty = @ \ {d}] /\ world' = [world EXCEPT !.unsaved = @ \ {d}]
Edit == Running /\ ~Modal /\ Act /\ page' = [page EXCEPT !.draft = ~@] /\ UNCHANGED <<calls, world>>
Backup == Running /\ ~Modal /\ Act /\ world' = [world EXCEPT !.backup = ~@] /\ UNCHANGED <<page, calls>>

(* closeTab, up to its wait for the answer; k tells the closes apart.      *)
BeforeCloseTab(t, k) ==
  IF t \in page.dirty THEN page' = [page EXCEPT !.ask = [t |-> t, k |-> k, saving |-> IF @ = None THEN FALSE ELSE @.saving]] /\ Send(<<Call("close", [t |-> t, k |-> k])>>)
  ELSE IF t \in Hosted /\ page.confirm THEN page' = [page EXCEPT !.end = [t |-> t, k |-> k]] /\ Send(<<Call("close", [t |-> t, k |-> k])>>)
  ELSE UNCHANGED page /\ Send(<<[Call("close", [t |-> t, k |-> k]) EXCEPT !.st = "ok"]>>)
CloseTab(t) == Running /\ ~page.quit /\ t \in page.tabs /\ Act /\ BeforeCloseTab(t, acts + 1)
  /\ world' = [world EXCEPT !.taken = IF t \in Hosted /\ ~page.confirm THEN @ \cup {t} ELSE @]

(* The answers to the waiting closes cs: those of one question.            *)
Resolve(k, st, cs) == [i \in DOMAIN cs |-> IF cs[i].op = "close" /\ cs[i].x.k = k /\ cs[i].st = "sent" THEN [cs[i] EXCEPT !.st = st] ELSE cs[i]]

Asked == Running /\ page.ask # None /\ ~page.ask.saving
Cancel == Asked /\ page' = [page EXCEPT !.ask = None] /\ calls' = Resolve(page.ask.k, "failed", calls) /\ UNCHANGED <<world, acts>>
Discard == Asked /\ page' = [page EXCEPT !.ask = None, !.dirty = @ \ {page.ask.t}] /\ UNCHANGED acts
  /\ calls' = Resolve(page.ask.k, "ok", calls) /\ world' = [world EXCEPT !.unsaved = @ \ {page.ask.t}]
(* Without the document's own save (it has been saved since) it fails.     *)
SaveFirst == Asked /\ page.ask.t \in page.dirty /\ page' = [page EXCEPT !.ask.saving = TRUE]
  /\ Send(<<Call("save", [t |-> page.ask.t, k |-> page.ask.k])>>) /\ UNCHANGED <<world, acts>>
ServeSave(i) == Sent(i, "save") /\ UNCHANGED <<page, acts>>
  /\ \/ Served(i, None) /\ world' = [world EXCEPT !.unsaved = @ \ {calls[i].x.t}]
     \/ Failed(i, None) /\ UNCHANGED world
SaveOver == \E i \in DOMAIN calls : Back(i, "save") /\ UNCHANGED <<world, acts>>
  /\ LET c == calls[i] left == RemoveAt(calls, i) IN
     IF c.st = "ok" THEN page' = [page EXCEPT !.dirty = @ \ {c.x.t}, !.ask = None] /\ calls' = Resolve(c.x.k, "ok", left)
     ELSE page' = [page EXCEPT !.ask.saving = FALSE] /\ calls' = left

Ending == Running /\ page.end # None
KeepSession == Ending /\ page' = [page EXCEPT !.end = None] /\ calls' = Resolve(page.end.k, "failed", calls) /\ UNCHANGED <<world, acts>>
EndSession == Ending /\ page' = [page EXCEPT !.end = None] /\ calls' = Resolve(page.end.k, "ok", calls) /\ UNCHANGED acts
  /\ world' = [world EXCEPT !.taken = @ \cup {page.end.t}]

(* The close goes on: the tab is gone, or it stays.                        *)
CloseGoesOn == \E i \in DOMAIN calls : Back(i, "close") /\ GoOn(i, << >>) /\ UNCHANGED <<world, acts>>
  /\ page' = IF calls[i].st = "ok" THEN [page EXCEPT !.tabs = @ \ {calls[i].x.t}] ELSE page

-----------------------------------------------------------------------------
(* The window is told to close, by whatever means.                         *)
CloseRequested == Running /\ Act /\ UNCHANGED <<calls, world>>
  /\ IF world.backup THEN UNCHANGED page
     ELSE IF page.dirty = {} /\ ~page.draft THEN page' = [page EXCEPT !.over = TRUE]
     ELSE page' = [page EXCEPT !.quit = TRUE]
CancelQuit == Running /\ page.quit /\ page' = [page EXCEPT !.quit = FALSE] /\ UNCHANGED <<calls, world, acts>>
ConfirmQuit == Running /\ page.quit /\ page' = [page EXCEPT !.over = TRUE] /\ world' = [world EXCEPT !.left = TRUE] /\ UNCHANGED <<calls, acts>>

GateNext ==
  \/ Edit \/ Backup \/ Cancel \/ Discard \/ SaveFirst \/ SaveOver \/ KeepSession \/ EndSession \/ CloseGoesOn
  \/ CloseRequested \/ CancelQuit \/ ConfirmQuit
  \/ \E d \in Papers : Type(d) \/ Saved(d)
  \/ \E t \in Papers \cup Hosted : CloseTab(t)
  \/ \E i \in DOMAIN calls : ServeSave(i)

-----------------------------------------------------------------------------
(* A text that is nowhere else, and a session that the user wants to be    *)
(* asked about, go only when the user has agreed to it, whatever questions *)
(* took the place of others; no backup is cut off by leaving the program.  *)
NothingGoesUnasked ==
  /\ world.unsaved \subseteq page.tabs
  /\ Hosted \subseteq page.tabs \cup world.taken
  /\ page.over => (world.unsaved = {} /\ ~page.draft /\ ~world.backup) \/ world.left

(* A question that is answered leaves nothing saving, and while one is on  *)
(* the screen its close waits for it.                                      *)
QuestionsWaitedFor ==
  /\ page.ask # None => \E i \in DOMAIN calls : calls[i].op = "close" /\ calls[i].x.k = page.ask.k /\ calls[i].st = "sent"
  /\ page.end # None => \E i \in DOMAIN calls : calls[i].op = "close" /\ calls[i].x.k = page.end.k /\ calls[i].st = "sent"
  /\ page.ask # None /\ page.ask.saving => \E i \in DOMAIN calls : calls[i].op = "save"
=============================================================================
