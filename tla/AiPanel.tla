------------------------------ MODULE AiPanel ------------------------------
(***************************************************************************)
(* The assistant (AiPanel): chats, each bound to a terminal.  An answer    *)
(* comes as events, which are gathered and shown every 75 ms; it may ask   *)
(* for tools, which run on the terminal once the user has approved them,   *)
(* and when all of a message have run the chat goes on by itself.  The     *)
(* panel stays mounted; the chats outlive the program in its storage.      *)
(***************************************************************************)
EXTENDS PageCalls, Functions

CONSTANTS Terminals,
          Chats,     \* the chats there may be
          MaxTools   \* bound on the requests that are answered with tools

Tools(r) == {<<r, 1>>, <<r, 2>>}
User == [role |-> "user"]
Assistant == [role |-> "assistant", text |-> {}, tools |-> {}, continued |-> FALSE]
New(t) == [bound |-> t, msgs |-> << >>]

(* wire: events not yet received; auth: the tools the backend would run;   *)
(* asked: the terminal a request was made for; ran: the tools that ran;    *)
(* loose: a request left a tool without its result, and the user had not   *)
(* asked for a diagnosis; cut: the program ended while a tool ran.         *)
Init ==
  LET t == CHOOSE u \in Terminals : TRUE  c == CHOOSE d \in Chats : TRUE IN
    /\ page = [n |-> 1, at |-> None, chats |-> (c :> New(t)), active |-> c, requests |-> << >>, buffer |-> << >>]
    /\ world = [tab |-> t, up |-> Terminals, wire |-> << >>, auth |-> {}, asked |-> << >>, ran |-> << >>,
                approved |-> {}, stored |-> << >>, loose |-> FALSE, cut |-> FALSE]
    /\ calls = << >> /\ acts = 0

-----------------------------------------------------------------------------
Chat == page.chats[page.active]
Streaming(c) == c \in DOMAIN page.requests
IsTools(m) == m.role = "assistant" /\ m.tools # {}
Pending(m) == {u.id : u \in {v \in m.tools : v.st = "pending"}}
Executing(msgs) == \E i \in DOMAIN msgs : IsTools(msgs[i]) /\ \E u \in msgs[i].tools : u.st = "executing"
Uncontinued(msgs) == \E i \in DOMAIN msgs : IsTools(msgs[i]) /\ ~msgs[i].continued
AllExecuted(m) == \A u \in m.tools : u.st = "executed"

(* toApiMessages: a message whose tools have not all run goes without      *)
(* their results.                                                          *)
Loose(msgs) == \E i \in DOMAIN msgs : IsTools(msgs[i]) /\ ~AllExecuted(msgs[i])

Launch(c, msgs, p, diagnosis) ==
  LET r == Len(world.asked) + 1
      target == IF p.chats[c].bound \in world.up THEN p.chats[c].bound ELSE None IN
  /\ page' = [p EXCEPT !.requests = [k \in DOMAIN @ \cup {c} |-> IF k = c THEN r ELSE @[k]]]
  /\ Send(<<Call("chat", [chat |-> c, r |-> r, target |-> target, cancelled |-> FALSE])>>)
  /\ world' = [world EXCEPT !.asked = Append(@, target), !.loose = @ \/ (~diagnosis /\ Loose(msgs))]

SendChat(diagnosis) == ~Streaming(page.active) /\ Act
  /\ (diagnosis \/ ~Uncontinued(Chat.msgs))
  /\ Launch(page.active, Chat.msgs, [page EXCEPT !.chats[page.active].msgs = @ \o <<User, Assistant>>], diagnosis)

(* After the last of the tools the chat goes on, before anything else.     *)
DueOf(c) == ~Streaming(c) /\ \E i \in DOMAIN page.chats[c].msgs :
              LET m == page.chats[c].msgs[i] IN IsTools(m) /\ ~m.continued /\ AllExecuted(m)
Due == {c \in DOMAIN page.chats : DueOf(c)}
Continue == \E c \in Due : UNCHANGED acts
  /\ LET msgs == page.chats[c].msgs
         ready == {i \in DOMAIN msgs : IsTools(msgs[i]) /\ ~msgs[i].continued /\ AllExecuted(msgs[i])}
         last == CHOOSE i \in ready : \A k \in ready : k <= i IN
     Launch(c, msgs, [page EXCEPT !.chats[c].msgs = Append([@ EXCEPT ![last].continued = TRUE], Assistant)], FALSE)

-----------------------------------------------------------------------------
(* Events: of a request that is not the chat's they are dropped; of one    *)
(* they are put together until the next tick.                              *)
Event(c, r, kind) == [chat |-> c, r |-> r, text |-> kind \in {"text", "done"}, tools |-> kind = "tools", finish |-> kind # "text",
                      failed |-> kind \in {"error", "cancelled"}]
Merged(e, f) == [e EXCEPT !.text = @ \/ f.text, !.tools = @ \/ f.tools, !.finish = @ \/ f.finish, !.failed = @ \/ f.failed]
Enqueue(p, e) ==
  IF ~(e.chat \in DOMAIN p.requests /\ p.requests[e.chat] = e.r) THEN p
  ELSE IF \E i \in DOMAIN p.buffer : p.buffer[i].r = e.r
       THEN [p EXCEPT !.buffer = [i \in DOMAIN @ |-> IF @[i].r = e.r THEN Merged(@[i], e) ELSE @[i]]]
       ELSE [p EXCEPT !.buffer = Append(@, e)]

Deliver == world.wire # << >> /\ page' = Enqueue(page, Head(world.wire)) /\ world' = [world EXCEPT !.wire = Tail(@)] /\ UNCHANGED <<calls, acts>>

(* An event goes into the last message, if that is the assistant's.        *)
Shown(msgs, e) ==
  LET m == Last(msgs)
      tools == IF e.tools /\ e.finish THEN {[id |-> u, st |-> "pending"] : u \in Tools(e.r)} ELSE m.tools
      now == [m EXCEPT !.text = IF e.text THEN @ \cup {e.r} ELSE @, !.tools = tools] IN
  IF msgs = << >> \/ m.role # "assistant" THEN msgs
  ELSE IF e.failed /\ now.text = {} /\ now.tools = {} THEN Front(msgs)
  ELSE Append(Front(msgs), now)
Flush == page.buffer # << >> /\ UNCHANGED <<calls, world, acts>>
  /\ LET Of(c) == SelectSeq(page.buffer, LAMBDA e : e.chat = c)
         done == {c \in DOMAIN page.requests : \E i \in DOMAIN page.buffer :
                    LET e == page.buffer[i] IN e.chat = c /\ e.finish /\ page.requests[c] = e.r} IN
     page' = [page EXCEPT !.buffer = << >>,
                          !.chats = [c \in DOMAIN page.chats |-> [page.chats[c] EXCEPT !.msgs = FoldLeft(Shown, @, Of(c))]],
                          !.requests = Restrict(@, DOMAIN @ \ done)]

(* The backend emits what it is given, registers the tools it is asked     *)
(* for, and says when the request was cancelled.                           *)
Emit(e) == Append(world.wire, e)
Answer == \E i \in DOMAIN calls : calls[i].op = "chat" /\ UNCHANGED <<page, acts>>
  /\ LET x == calls[i].x IN
     \/ /\ calls[i].got = None
        /\ calls' = [calls EXCEPT ![i].got = "text"] /\ world' = [world EXCEPT !.wire = Emit(Event(x.chat, x.r, "text"))]
     \/ \E kind \in (IF x.cancelled THEN {"cancelled", "tools", "done"} ELSE {"error", "tools", "done"}) :
          /\ kind = "tools" => x.r <= MaxTools
          /\ GoOn(i, << >>)
          /\ world' = [world EXCEPT !.wire = Emit(Event(x.chat, x.r, kind)),
                                    !.auth = IF kind = "tools" /\ x.target # None THEN @ \cup ({x.target} \X Tools(x.r)) ELSE @]

CancelStreaming == Streaming(page.active) /\ Act /\ UNCHANGED <<page, world>>
  /\ Send(<<Call("cancel", [chat |-> page.active, r |-> page.requests[page.active]])>>)
Cancelled == \E i \in DOMAIN calls : calls[i].op = "cancel" /\ UNCHANGED <<world, acts>>
  /\ LET x == calls[i].x
         at == {k \in DOMAIN calls : calls[k].op = "chat" /\ calls[k].x.r = x.r /\ ~calls[k].x.cancelled} IN
     IF at = {} THEN GoOn(i, << >>) /\ page' = Enqueue(page, Event(x.chat, x.r, "cancelled"))
     ELSE LET marked == [k \in DOMAIN calls |-> IF k \in at THEN [calls[k] EXCEPT !.x.cancelled = TRUE] ELSE calls[k]] IN
          calls' = RemoveAt(marked, i) /\ UNCHANGED page

-----------------------------------------------------------------------------
SetTools(msgs, ids, st) == [i \in DOMAIN msgs |-> IF msgs[i].role # "assistant" THEN msgs[i]
  ELSE [msgs[i] EXCEPT !.tools = {IF u.id \in ids THEN [u EXCEPT !.st = st] ELSE u : u \in @}]]

(* One tool is approved, or all of a message.                              *)
Approve(ids) == Chat.bound \in world.up /\ ids # {} /\ Act
  /\ \E i \in DOMAIN Chat.msgs : IsTools(Chat.msgs[i]) /\ ids \subseteq Pending(Chat.msgs[i])
  /\ page' = [page EXCEPT !.chats[page.active].msgs = SetTools(@, ids, "executing")]
  /\ Send(<<Call("tools", [chat |-> page.active, target |-> Chat.bound, ids |-> ids])>>)
  /\ world' = [world EXCEPT !.approved = @ \cup ({Chat.bound} \X ids)]

(* A tool is run by its authorization, which is used up; the user may      *)
(* decline, and then it has run for the chat as well.                      *)
Run == \E i \in DOMAIN calls : calls[i].op = "tools" /\ calls[i].st = "sent" /\ UNCHANGED <<page, acts>>
  /\ LET x == calls[i].x  mine == {u \in x.ids : <<x.target, u>> \in world.auth} IN
     \E may \in SUBSET mine :
       /\ Served(i, None)
       /\ world' = [world EXCEPT !.auth = @ \ ({x.target} \X mine), !.ran = @ \o SetToSeq({x.target} \X may)]
Executed == \E i \in DOMAIN calls : calls[i].op = "tools" /\ calls[i].st = "ok" /\ GoOn(i, << >>) /\ UNCHANGED <<world, acts>>
  /\ LET x == calls[i].x IN
     page' = IF x.chat \in DOMAIN page.chats THEN [page EXCEPT !.chats[x.chat].msgs = SetTools(@, x.ids, "executed")] ELSE page

(* The chat is bound to the terminal of the active tab; tools that have    *)
(* not run are not run there.                                              *)
RebindTarget == world.tab \in world.up /\ world.tab # Chat.bound /\ Act /\ UNCHANGED <<calls, world>>
  /\ ~Streaming(page.active) /\ ~Executing(Chat.msgs)
  /\ page' = [page EXCEPT !.chats[page.active] =
                [bound |-> world.tab, msgs |-> [i \in DOMAIN @.msgs |-> IF IsTools(@.msgs[i]) THEN [@.msgs[i] EXCEPT !.tools = {[u EXCEPT !.st = "executed"] : u \in @}]
                                                                        ELSE @.msgs[i]]]]

-----------------------------------------------------------------------------
Added(p) == \E c \in Chats \ DOMAIN p.chats :
  page' = [p EXCEPT !.chats = (c :> New(IF world.tab \in world.up THEN world.tab ELSE None)) @@ @, !.active = c]
NewSession == Act /\ Added(page) /\ UNCHANGED <<calls, world>>
SwitchSession(c) == c \in DOMAIN page.chats \ {page.active} /\ page' = [page EXCEPT !.active = c] /\ UNCHANGED <<calls, world, acts>>
(* A new chat has a name no chat had; here, names are used again, so what  *)
(* was gathered for a chat that is deleted goes with it.                   *)
DeleteSession(c) == c \in DOMAIN page.chats /\ Act /\ UNCHANGED world
  /\ Send(IF Streaming(c) THEN <<Call("cancel", [chat |-> c, r |-> page.requests[c]])>> ELSE << >>)
  /\ LET left == DOMAIN page.chats \ {c}
         p == [page EXCEPT !.requests = Restrict(@, DOMAIN @ \ {c}), !.chats = Restrict(@, left),
                          !.buffer = SelectSeq(@, LAMBDA e : e.chat # c)] IN
     IF left = {} THEN Added(p)
     ELSE page' = [p EXCEPT !.active = IF @ = c THEN CHOOSE d \in left : TRUE ELSE @]

(* Some time after a change the chats are stored; the program ends, and    *)
(* begins again with them.                                                 *)
Store == world.stored # page.chats /\ world' = [world EXCEPT !.stored = page.chats] /\ UNCHANGED <<page, calls, acts>>
Loaded(s) == [s EXCEPT !.msgs = IF @ # << >> /\ Last(@) = Assistant THEN Front(@) ELSE @]
Restart == world.stored # << >> /\ Act /\ calls' = << >>
  /\ page' = [n |-> 1, at |-> None, chats |-> [c \in DOMAIN world.stored |-> Loaded(world.stored[c])],
              active |-> CHOOSE c \in DOMAIN world.stored : TRUE, requests |-> << >>, buffer |-> << >>]
  /\ world' = [world EXCEPT !.wire = << >>, !.auth = {}, !.cut = @ \/ \E c \in DOMAIN world.stored : Executing(world.stored[c].msgs)]

Show(t) == t # world.tab /\ Act /\ world' = [world EXCEPT !.tab = t] /\ UNCHANGED <<page, calls>>
Ends(t) == t \in world.up /\ Act /\ world' = [world EXCEPT !.up = @ \ {t}, !.auth = {a \in @ : a[1] # t}] /\ UNCHANGED <<page, calls>>

Next ==
  IF Due # {} THEN Continue
  ELSE \/ \E d \in BOOLEAN : SendChat(d)
       \/ Deliver \/ Flush \/ Answer \/ CancelStreaming \/ Cancelled
       \/ \E i \in DOMAIN Chat.msgs : IsTools(Chat.msgs[i])
            /\ \E ids \in {Pending(Chat.msgs[i])} \cup {{u} : u \in Pending(Chat.msgs[i])} : Approve(ids)
       \/ Run \/ Executed \/ RebindTarget \/ NewSession \/ Store \/ Restart
       \/ \E c \in Chats : SwitchSession(c) \/ DeleteSession(c)
       \/ \E t \in Terminals : Show(t) \/ Ends(t)

-----------------------------------------------------------------------------
(* A tool runs once, after an approval, and on the terminal the chat was   *)
(* bound to when it was asked for; and the assistant is told the results   *)
(* of all tools it asked for before it goes on.  (A diagnosis may be asked *)
(* for in between.)                                                        *)
ToolsAsApproved ==
  /\ \A i, k \in DOMAIN world.ran : world.ran[i] = world.ran[k] => i = k
  /\ \A i \in DOMAIN world.ran : world.ran[i] \in world.approved /\ world.ran[i][1] = world.asked[world.ran[i][2][1]]
  /\ ~world.loose
(* What is in a message of the assistant is the answer to one request.     *)
AnswersInPlace == \A c \in DOMAIN page.chats : \A i \in DOMAIN page.chats[c].msgs :
  LET m == page.chats[c].msgs[i] IN
  m.role = "assistant" => Cardinality(m.text \cup {u.id[1] : u \in m.tools}) <= 1
ChatsNotBusy == Quiet /\ world.wire = << >> /\ page.buffer = << >> =>
  /\ page.requests = << >>
  /\ world.cut \/ \A c \in DOMAIN page.chats : ~Executing(page.chats[c].msgs)
=============================================================================
