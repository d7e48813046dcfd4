---------------------------- MODULE ApprovalPanel ----------------------------
(***************************************************************************)
(* How the page shows a request of the CLI or of the assistant, and what   *)
(* it takes for the user's answer (CliApproval has the other side).  The   *)
(* panel lists the items of a request by the tier of their risk, all of    *)
(* them ticked; only what cannot change anything is folded away.  What the *)
(* page changes is on the screen with the next rendering, so keys and      *)
(* clicks may come in between.  Until the page has registered, a request   *)
(* is answered by a native dialog and a card tells of it.                  *)
(*                                                                         *)
(* Its second part (Ki...) is the questions of a server during a handshake *)
(* (keyboard-interactive): they queue, and the first one has a dialog.     *)
(***************************************************************************)
EXTENDS PageCalls

CONSTANTS Reqs, Cards,
          Kept,      \* cards on the screen (8)
          Runtimes   \* terminals that connect

(* One item of each kind is enough: one that only reads, one that changes. *)
Items == {"reads", "changes"}
Tier == [reads |-> "T0", changes |-> "T2"]
GroupOf(i) == Tier[i]
Groups(items) == {GroupOf(i) : i \in items}

DefaultCollapsed == {"T0"}

(* slot: the request the page is to show; panel: the one that is on the    *)
(* screen.  world.pending: the request that waits for its answer (panels   *)
(* are shown one at a time); world.cards: the dialogs that are open;       *)
(* world.seen: the items that were unfolded on the screen; world.lost: the *)
(* slot of one request was emptied by the answer to another.               *)
Init ==
  /\ page = [n |-> 1, at |-> None, slot |-> None, panel |-> None, cards |-> << >>]
  /\ calls = << >> /\ acts = 0
  /\ world = [registered |-> FALSE, fresh |-> Reqs, pending |-> None, items |-> [r \in Reqs |-> {}],
              allowed |-> [r \in Reqs |-> None], cards |-> {}, seen |-> {}, lost |-> FALSE]

Frame == UNCHANGED <<calls, acts>>

-----------------------------------------------------------------------------
(* The backend, and the events of it that the page hears.                  *)
Register == ~world.registered /\ world' = [world EXCEPT !.registered = TRUE] /\ UNCHANGED <<page, calls, acts>>

Present(r, items) == r \in world.fresh /\ world.pending = None /\ world.registered /\ items # {} /\ Frame
  /\ world' = [world EXCEPT !.fresh = @ \ {r}, !.pending = r, !.items[r] = items]
  /\ page' = [page EXCEPT !.slot = r]

(* Its callers are gone, or it has waited too long.                        *)
Withdraw == world.pending # None /\ world' = [world EXCEPT !.pending = None] /\ Frame
  /\ page' = [page EXCEPT !.slot = IF @ = world.pending THEN None ELSE @]

(* An answer to a request that no longer waits is ignored.                 *)
ServeResolve(i) == Sent(i, "Resolve") /\ GoOn(i, << >>) /\ UNCHANGED <<page, acts>>
  /\ LET r == calls[i].x.id IN
     world' = IF world.pending = r THEN [world EXCEPT !.pending = None, !.allowed[r] = calls[i].x.ids] ELSE world

(* withCliApprovalEvent, without a panel: a card while the dialog is open. *)
CardPending(c) == ~world.registered /\ c \notin world.cards /\ Act /\ UNCHANGED calls
  /\ world' = [world EXCEPT !.cards = @ \cup {c}]
  /\ page' = [page EXCEPT !.cards = LET all == Append(SelectSeq(@, LAMBDA x : x # c), c) IN
                                    IF Len(all) > Kept THEN Tail(all) ELSE all]
CardOver(c) == c \in world.cards /\ Frame /\ world' = [world EXCEPT !.cards = @ \ {c}]
  /\ page' = [page EXCEPT !.cards = SelectSeq(@, LAMBDA x : x # c)]

CardsShown == {page.cards[i] : i \in DOMAIN page.cards}

-----------------------------------------------------------------------------
(* The panel                                                               *)
Mounted(r) == [req |-> r, selected |-> world.items[r], collapsed |-> DefaultCollapsed, resolved |-> FALSE, onButton |-> FALSE]
Unfolded(p) == {i \in world.items[p.req] : GroupOf(i) \notin p.collapsed}
SeenWith(p) == [world EXCEPT !.seen = @ \cup {<<p.req, i>> : i \in Unfolded(p)}]

(* The key of the panel is the request's id: another request is another    *)
(* mount, with its own ticks.                                              *)
Render == Frame /\ (IF page.panel = None THEN page.slot # None ELSE page.slot # page.panel.req)
  /\ page' = [page EXCEPT !.panel = IF page.slot = None THEN None ELSE Mounted(page.slot)]
  /\ world' = IF page.slot = None THEN world ELSE SeenWith(Mounted(page.slot))

Open == page.panel # None
Panel(p) == page' = [page EXCEPT !.panel = p] /\ world' = SeenWith(p) /\ UNCHANGED calls

ToggleItem(i) == Open /\ i \in Unfolded(page.panel) /\ Act
  /\ Panel([page.panel EXCEPT !.selected = IF i \in @ THEN @ \ {i} ELSE @ \cup {i}, !.onButton = FALSE])
ToggleAll == Open /\ Act
  /\ LET all == world.items[page.panel.req] IN
     Panel([page.panel EXCEPT !.selected = IF Cardinality(@) = Cardinality(all) THEN {} ELSE all, !.onButton = FALSE])
ToggleGroup(g) == Open /\ g \in Groups(world.items[page.panel.req]) /\ Act
  /\ Panel([page.panel EXCEPT !.collapsed = IF g \in @ THEN @ \ {g} ELSE @ \cup {g}, !.onButton = TRUE])

(* An answer goes to the request on the screen and empties the slot,       *)
(* whatever is in it by now; only the first one counts.                    *)
Answered(ids) ==
  /\ Send(<<Call("Resolve", [id |-> page.panel.req, ids |-> ids])>>)
  /\ page' = [page EXCEPT !.slot = None, !.panel.resolved = TRUE]
  /\ world' = [world EXCEPT !.lost = @ \/ page.slot \notin {None, page.panel.req}]
Resolve(ids) == IF page.panel.resolved THEN UNCHANGED <<page, calls, world>> ELSE Answered(ids)

(* Enter allows what is ticked, unless a button has the focus and is       *)
(* pressed by it; Escape denies.                                           *)
Enter == Open /\ ~page.panel.onButton /\ Act /\ Resolve(page.panel.selected)
Escape == Open /\ Act /\ Resolve({})
AllowSelected == Open /\ page.panel.selected # {} /\ Act /\ Resolve(page.panel.selected)
AllowAll == Open /\ world.items[page.panel.req] # {} /\ Act /\ Resolve(world.items[page.panel.req])

Next ==
  \/ Register \/ Withdraw \/ Render
  \/ \E r \in Reqs, items \in SUBSET Items : Present(r, items)
  \/ \E i \in DOMAIN calls : ServeResolve(i)
  \/ \E c \in Cards : CardPending(c) \/ CardOver(c)
  \/ \E i \in Items : ToggleItem(i)
  \/ \E g \in Groups(Items) : ToggleGroup(g)
  \/ ToggleAll \/ Enter \/ Escape \/ AllowSelected \/ AllowAll

-----------------------------------------------------------------------------
(* splitRiskText: the parts of a command of n bytes and which of them are  *)
(* marked.  A span that is not in the command, or that begins before the   *)
(* end of the one before it, is left out.                                  *)
Span(n, s) == s.from >= 0 /\ s.to > s.from /\ s.to <= n
Ordered(n, spans) == SetToSortSeq({s \in spans : Span(n, s)}, LAMBDA a, b : a.from < b.from \/ (a.from = b.from /\ a.to < b.to))
Part(from, to, marked) == IF from < to THEN <<[from |-> from, to |-> to, marked |-> marked]>> ELSE << >>
SplitRiskText(n, spans) ==
  LET add(got, s) == IF s.from < got.cursor THEN got
                     ELSE [cursor |-> s.to, parts |-> got.parts \o Part(got.cursor, s.from, FALSE) \o Part(s.from, s.to, TRUE)]
      got == FoldLeft(add, [cursor |-> 0, parts |-> << >>], Ordered(n, spans)) IN
  got.parts \o Part(got.cursor, n, FALSE)

-----------------------------------------------------------------------------
(* What is allowed are items of the request it was allowed for, each of    *)
(* which the user had before his eyes if it changes anything; and a        *)
(* request that waits is on the screen, or is about to be, or its answer   *)
(* is on its way (unless the answer to another has emptied its slot).      *)
AllowedWasSeen ==
  /\ \A r \in Reqs : world.allowed[r] # None =>
       /\ world.allowed[r] \subseteq world.items[r]
       /\ \A i \in world.allowed[r] : Tier[i] # "T0" => <<r, i>> \in world.seen
  /\ world.pending # None => \/ page.slot = world.pending \/ world.lost
                             \/ \E i \in DOMAIN calls : calls[i].x.id = world.pending
  /\ CardsShown \subseteq world.cards

(* The marks of a command's risks leave its text as it is: the parts are   *)
(* the whole of it, in order, and what is marked was given to be marked.   *)
RiskTextWhole == acts = 0 /\ page.slot = None /\ world.cards = {} => \A s1, s2 \in [from : 0..3, to : 0..3] :
  LET spans == {s1, s2}  parts == SplitRiskText(3, spans) IN
    /\ parts # << >> /\ parts[1].from = 0 /\ parts[Len(parts)].to = 3
    /\ \A i \in 1..(Len(parts) - 1) : parts[i].to = parts[i + 1].from
    /\ \A i \in DOMAIN parts : parts[i].marked => \E s \in spans : s.from = parts[i].from /\ s.to = parts[i].to

-----------------------------------------------------------------------------
(* The questions of a server.                                              *)
(* page.queue: the questions, with the generation of the connection that   *)
(* asked; page.dialog: the one on the screen, and for which question what  *)
(* is in its fields was typed; page.seen: the newest generation of each    *)
(* terminal the page knows of.                                             *)
(* world.waits: the questions with somebody to take the answer (pending);  *)
(* world.asked, got: by which connection each was asked and how it ended;  *)
(* world.reg: the session of a terminal is registered; world.gone:         *)
(* questions that were up when the page was loaded anew.                   *)
NoConn == [r |-> None, g |-> 0]
End(how, typed) == [how |-> how, typed |-> typed]
KiInit ==
  /\ page = [n |-> 1, at |-> None, queue |-> << >>, dialog |-> None, seen |-> [r \in Runtimes |-> 0]]
  /\ calls = << >> /\ acts = 0
  /\ world = [gen |-> [r \in Runtimes |-> 0], reg |-> [r \in Runtimes |-> FALSE], waits |-> {}, events |-> << >>,
              asked |-> [q \in Reqs |-> NoConn], got |-> [q \in Reqs |-> None], gone |-> {}]

Emitted(w, op, q, conn) == [w EXCEPT !.events = Append(@, [op |-> op, q |-> q, conn |-> conn])]

(* terminalEventEnvelope: a session that is gone has no generation.        *)
Envelope(conn) == IF conn.r # None /\ world.reg[conn.r] /\ world.gen[conn.r] = conn.g THEN conn ELSE NoConn

Connect(r) == ~world.reg[r] /\ Act /\ UNCHANGED <<page, calls>>
  /\ LET g == world.gen[r] + 1 IN
     world' = Emitted([world EXCEPT !.gen[r] = g, !.reg[r] = TRUE], "session", None, [r |-> r, g |-> g])

(* The terminal is closed, or its handshake fails, in the middle of it;    *)
(* what waits for an answer goes on waiting.                               *)
Disconnect(r) == world.reg[r] /\ Act /\ UNCHANGED <<page, calls>>
  /\ world' = Emitted([world EXCEPT !.reg[r] = FALSE], "session", None, [r |-> r, g |-> world.gen[r]])

(* A handshake asks one question at a time; its session may be gone.       *)
Raise(q, r) == world.asked[q] = NoConn /\ world.gen[r] > 0 /\ UNCHANGED <<page, calls, acts>>
  /\ LET conn == [r |-> r, g |-> world.gen[r]] IN
     /\ \A other \in world.waits : world.asked[other] # conn
     /\ world' = Emitted([world EXCEPT !.waits = @ \cup {q}, !.asked[q] = conn], "asked", q, Envelope(conn))

(* After three minutes the handshake gives up, and tells the page before   *)
(* it takes the question from the pending ones.                            *)
Timeout(q) == q \in world.waits /\ world.got[q] = None /\ UNCHANGED <<page, calls, acts>>
  /\ world' = Emitted([world EXCEPT !.got[q] = End("timeout", None)], "closed", q, Envelope(world.asked[q]))
Removed(q) == q \in world.waits /\ world.got[q] = End("timeout", None) /\ UNCHANGED <<page, calls, acts>>
  /\ world' = [world EXCEPT !.waits = @ \ {q}]

ServeAnswer(i) == Sent(i, "Answer") /\ GoOn(i, << >>) /\ UNCHANGED <<page, acts>>
  /\ LET q == calls[i].x.q IN
     world' = IF q \notin world.waits THEN world
              ELSE [world EXCEPT !.waits = @ \ {q}, !.got[q] = IF @ = None THEN calls[i].x.answer ELSE @]

-----------------------------------------------------------------------------
(* acceptRuntimeEvent: what is of an older generation is not current.      *)
Current(p, conn) == conn.g = 0 \/ conn.g >= p.seen[conn.r]
Noted(p, conn) == IF conn.g = 0 THEN p ELSE [p EXCEPT !.seen[conn.r] = conn.g]
Queue(p) == {p.queue[i] : i \in DOMAIN p.queue}
Queued(p) == {item.q : item \in Queue(p)}
Without(p, gone) == [p EXCEPT !.queue = SelectSeq(@, LAMBDA item : item \notin gone)]

(* The queue is looked through again when the tabs have changed.           *)
StaleGone(p) == Without(p, {item \in Queue(p) : ~Current(p, item.conn)})

HearAsked(e) == page' = LET p == Noted(page, e.conn) IN
  IF ~Current(page, e.conn) THEN page ELSE IF e.q \in Queued(p) THEN p ELSE [p EXCEPT !.queue = Append(@, [q |-> e.q, conn |-> e.conn])]
HearClosed(e) == page' = Without(page, {item \in Queue(page) : item.q = e.q /\ e.conn \in {NoConn, item.conn}})
HearSession(e) == \E tabs \in BOOLEAN : page' = LET p == Noted(page, e.conn) IN
  IF ~Current(page, e.conn) THEN page ELSE IF tabs THEN StaleGone(p) ELSE p
KiHear == world.events # << >> /\ UNCHANGED <<calls, acts>>
  /\ world' = [world EXCEPT !.events = Tail(@)]
  /\ LET e == Head(world.events) IN
     CASE e.op = "asked" -> HearAsked(e) [] e.op = "closed" -> HearClosed(e) [] e.op = "session" -> HearSession(e)

(* The dialog is keyed by its question: another one has empty fields.      *)
KiMounted(q) == [q |-> q, typed |-> None]
First(p) == IF p.queue = << >> THEN None ELSE p.queue[1].q
KiRender == First(page) # (IF page.dialog = None THEN None ELSE page.dialog.q) /\ UNCHANGED <<calls, world, acts>>
  /\ page' = [page EXCEPT !.dialog = IF page.queue = << >> THEN None ELSE KiMounted(First(page))]

TypeAnswer == page.dialog # None /\ page.dialog.typed # page.dialog.q /\ UNCHANGED <<calls, world, acts>>
  /\ page' = [page EXCEPT !.dialog.typed = page.dialog.q]
AnswerKi(answer) == page.dialog # None /\ Act /\ UNCHANGED world
  /\ page' = Without(page, {item \in Queue(page) : item.q = page.dialog.q})
  /\ Send(<<Call("Answer", [q |-> page.dialog.q, answer |-> answer])>>)
SubmitAnswer == AnswerKi(End("answered", page.dialog.typed))
CancelAnswer == AnswerKi(End("cancelled", None))

Reload == Act /\ calls' = << >>
  /\ page' = [page EXCEPT !.queue = << >>, !.dialog = None, !.seen = [r \in Runtimes |-> 0]]
  /\ world' = [world EXCEPT !.events = << >>, !.gone = world.waits]

KiNext ==
  \/ KiHear \/ KiRender \/ TypeAnswer \/ SubmitAnswer \/ CancelAnswer \/ Reload
  \/ \E r \in Runtimes : Connect(r) \/ Disconnect(r) \/ \E q \in Reqs : Raise(q, r)
  \/ \E q \in Reqs : Timeout(q) \/ Removed(q)
  \/ \E i \in DOMAIN calls : ServeAnswer(i)

-----------------------------------------------------------------------------
(* A server gets only what was typed for its question.                     *)
AnsweredAsAsked == \A q \in Reqs : world.got[q] # None => world.got[q].typed \in {None, q}

(* When nothing is under way, a question on the screen is one that         *)
(* somebody waits for, and one that a live connection waits for is on the  *)
(* screen (unless the page was loaded anew since it came).                 *)
QuestionsUp == Quiet /\ world.events = << >> =>
  /\ \A q \in Queued(page) : q \in world.waits /\ world.got[q] = None
  /\ \A q \in world.waits \ world.gone : world.got[q] = None /\ Envelope(world.asked[q]) # NoConn => q \in Queued(page)
=============================================================================
