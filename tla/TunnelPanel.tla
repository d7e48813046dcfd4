----------------------------- MODULE TunnelPanel -----------------------------
(***************************************************************************)
(* The panel of the port forwards of a session: its list, adding a rule    *)
(* (typed in or one of the presets), removing one, and restarting all; and *)
(* the backend it calls: the App's methods, the tunnel manager, the ways   *)
(* in which a session starts its forwards and ends, and the editor of the  *)
(* profile, which writes the rules too.  Hosts are the sessions of one     *)
(* profile: world.stored are its rules, world.had those it has ever had.   *)
(* world.session[h] is "there", "ended", or "closed" once onClosed has     *)
(* run; world.opening[h] is how far ConnectTerminal is, and world.read the *)
(* rules it had read; world.active[h] are the rules whose forwards the     *)
(* manager keeps.  Whether one has died is left out.  The rest of world    *)
(* remembers what happened.                                                *)
(***************************************************************************)
EXTENDS PageCalls

CONSTANTS Hosts, Rules   \* sessions of one profile; names for forwarding rules

(* The page has a session once ConnectTerminal has returned it.            *)
Opened(h) == world.opening[h] = "done"

Fresh(n, h) == [n |-> n, at |-> h, list |-> {}, loading |-> TRUE, seq |-> 1, armed |-> None]

Ask(p) == [p EXCEPT !.seq = @ + 1, !.loading = TRUE]
List == Call("list", page.seq + 1)
RefreshClicked == Act /\ page' = Ask(page) /\ Send(<<List>>) /\ UNCHANGED world
ListAnswered == \E i \in DOMAIN calls :
  /\ Back(i, "list") /\ GoOn(i, << >>) /\ UNCHANGED <<world, acts>>
  /\ page' = IF calls[i].x # page.seq THEN page
             ELSE [page EXCEPT !.loading = FALSE, !.list = IF calls[i].st = "ok" THEN calls[i].got ELSE @]

Restart == Act /\ Send(<<Call("restart", None)>>) /\ UNCHANGED <<page, world>>
RestartAnswered == \E i \in DOMAIN calls :
  /\ Back(i, "restart") /\ GoOn(i, << >>) /\ UNCHANGED <<world, acts>>
  /\ page' = IF calls[i].st = "ok" THEN [page EXCEPT !.list = calls[i].got] ELSE page

(* Every click makes a rule of its own, with a random id.  The form it is  *)
(* typed in is left out: it can be opened at any time.                     *)
AddTunnel(r) == r \notin world.used /\ Act /\ UNCHANGED page
  /\ world' = [world EXCEPT !.used = @ \cup {r}] /\ Send(<<Call("add", r)>>)
AddAnswered == \E i \in DOMAIN calls :
  /\ Back(i, "add") /\ UNCHANGED <<world, acts>>
  /\ IF calls[i].st = "ok" THEN page' = Ask(page) /\ GoOn(i, <<List>>)
     ELSE UNCHANGED page /\ GoOn(i, << >>)

RemoveTunnel(r) == r \in page.list /\ Act /\ UNCHANGED world
  /\ IF page.armed # r THEN page' = [page EXCEPT !.armed = r] /\ UNCHANGED calls
     ELSE page' = [page EXCEPT !.armed = None] /\ Send(<<Call("remove", r)>>)
ArmExpires == page.armed # None /\ page' = [page EXCEPT !.armed = None] /\ UNCHANGED <<calls, world, acts>>
RemoveAnswered == \E i \in DOMAIN calls :
  /\ Back(i, "remove") /\ UNCHANGED <<world, acts>>
  /\ IF calls[i].st = "ok" THEN page' = Ask(page) /\ GoOn(i, <<List>>) ELSE UNCHANGED page /\ GoOn(i, << >>)

Remount(h) == Opened(h) /\ Act /\ UNCHANGED world
  /\ page' = Fresh(page.n + 1, h)
  /\ Send(<<[Call("list", 1) EXCEPT !.of = page.n + 1, !.at = h]>>)

-----------------------------------------------------------------------------
(* The backend.  The manager's methods run under its lock, the App's do    *)
(* not: a call under way keeps in got how far it is, "client" when it has  *)
(* looked up the SSH client of the session.                                *)
There(h) == world.session[h] = "there"
Step(i, step, rules) == calls' = [calls EXCEPT ![i].got = [step |-> step, rules |-> rules]]
Begin(i, op) == Sent(i, op) /\ calls[i].got = None
At(i, op, step) == Sent(i, op) /\ calls[i].got # None /\ calls[i].got.step = step
(* What the calls under way have still to write.                           *)
Coming(op) == {calls[i].x : i \in {k \in DOMAIN calls : At(k, op, "started")}}
Backend == UNCHANGED <<page, acts>>

ListStatus == \E i \in DOMAIN calls :
  Begin(i, "list") /\ (Served(i, world.active[calls[i].at]) \/ Failed(i, None)) /\ Backend /\ UNCHANGED world

(* There is no such session, or no profile of it can be read.              *)
Refuse == \E i \in DOMAIN calls :
  /\ \/ Begin(i, "restart")
     \/ ~There(calls[i].at) /\ (Begin(i, "add") \/ Begin(i, "remove") \/ At(i, "restart", "profile"))
  /\ Failed(i, None) /\ Backend /\ UNCHANGED world

RestartReads == \E i \in DOMAIN calls :
  Begin(i, "restart") /\ There(calls[i].at) /\ Step(i, "profile", world.stored) /\ Backend /\ UNCHANGED world
RestartLooks == \E i \in DOMAIN calls :
  /\ At(i, "restart", "profile") /\ There(calls[i].at) /\ Backend
  /\ Step(i, "client", calls[i].got.rules) /\ UNCHANGED world
RestartStops == \E i \in DOMAIN calls :
  /\ At(i, "restart", "client") /\ Backend /\ Step(i, "stopped", calls[i].got.rules)
  /\ world' = [world EXCEPT !.active[calls[i].at] = {}]
(* What was started since is stopped once more; startOne: some of the      *)
(* rules start, and the others are not kept.                               *)
RestartStarts == \E i \in DOMAIN calls : LET rules == calls[i].got.rules IN
  /\ At(i, "restart", "stopped") /\ Backend /\ Served(i, rules)
  /\ \E ok \in SUBSET rules : world' = [world EXCEPT !.active[calls[i].at] = ok]

AddLooks == \E i \in DOMAIN calls :
  Begin(i, "add") /\ There(calls[i].at) /\ Step(i, "client", {}) /\ Backend /\ UNCHANGED world
AddStarts == \E i \in DOMAIN calls : LET h == calls[i].at  r == calls[i].x IN
  /\ At(i, "add", "client") /\ Backend
  /\ \/ Served(i, None) /\ UNCHANGED world
     \/ /\ Step(i, "started", {})
        /\ world' = [world EXCEPT !.active[h] = @ \cup {r}, !.told = @ \cup {r},
                                   !.unsure = @ \cup ({r} \cap Coming("remove"))]
RemoveStops == \E i \in DOMAIN calls : LET h == calls[i].at  r == calls[i].x IN
  /\ Begin(i, "remove") /\ There(h) /\ Step(i, "started", {}) /\ Backend
  /\ world' = [world EXCEPT !.active[h] = @ \ {r}, !.told = @ \ {r},
                             !.unsure = @ \cup ({r} \cap Coming("add"))]
Written(c, rules) == IF c.op = "add" THEN rules \cup {c.x} ELSE rules \ {c.x}
(* Mutant: the lock is released between the reading and the writing.       *)
StoreUnlocked == \E i \in DOMAIN calls : LET c == calls[i] IN
  \/ /\ (At(i, "add", "started") \/ At(i, "remove", "started")) /\ Backend
     /\ Step(i, "read", world.stored) /\ UNCHANGED world
  \/ /\ (At(i, "add", "read") \/ At(i, "remove", "read")) /\ Backend
     /\ Served(i, None) /\ world' = [world EXCEPT !.stored = Written(c, c.got.rules)]
(* The profile, read and written under its lock; that it cannot be read or *)
(* written is told to nobody.                                              *)
Store == \E i \in DOMAIN calls : LET c == calls[i] IN
  /\ (At(i, "add", "started") \/ At(i, "remove", "started")) /\ Served(i, None) /\ Backend
  /\ \/ world' = [world EXCEPT !.stored = Written(c, @), !.had = @ \cup Written(c, world.stored)]
     \/ world' = [world EXCEPT !.unsure = @ \cup {c.x}]

(* UpdateProfile writes the page's copy of the profile as a whole, with    *)
(* what the user changed in it.  The copy may be any older one: whatever   *)
(* was done to the rules since is gone, and what is under way comes after. *)
SaveProfile(rules) == Act /\ UNCHANGED <<page, calls>>
  /\ world' = [world EXCEPT !.stored = rules, !.had = @ \cup rules, !.used = @ \cup rules,
                             !.told = (rules \cup Coming("add")) \ Coming("remove")]

(* ConnectTerminal, when the session is up, starts the forwards of the     *)
(* profile as it was before; only in the first session of a profile.       *)
ConnectLooks(h) == /\ world.opening[h] = "waits" /\ UNCHANGED <<page, calls, acts>>
                   /\ world' = [world EXCEPT !.opening[h] = IF There(h) THEN "looked" ELSE "done"]
ConnectStarts(h) == /\ world.opening[h] = "looked" /\ UNCHANGED <<page, calls, acts>>
                    /\ \E ok \in SUBSET world.read :
                         world' = [world EXCEPT !.active[h] = ok, !.opening[h] = "done"]

(* The session ends, which counts as an act to bound it, and then what     *)
(* belongs to it is cleaned up.  Who has looked up the SSH client before   *)
(* may still start forwards with it.                                       *)
Means(c) == IF c.op = "add" THEN {c.x} ELSE c.got.rules
Looked(h) == (IF world.opening[h] = "looked" THEN world.read ELSE {}) \cup
  UNION {Means(calls[i]) : i \in {k \in DOMAIN calls : calls[k].at = h /\
    (At(k, "add", "client") \/ At(k, "restart", "client") \/ At(k, "restart", "stopped"))}}
Ends(h) == There(h) /\ Act /\ UNCHANGED <<page, calls>>
           /\ world' = [world EXCEPT !.session[h] = "ended", !.late[h] = Looked(h)]
OnClosed(h) == world.session[h] = "ended" /\ UNCHANGED <<page, calls, acts>>
               /\ world' = [world EXCEPT !.session[h] = "closed", !.active[h] = {}]

Init == \E h, first \in Hosts, rules \in SUBSET Rules :
  /\ page = Fresh(1, h)
  /\ calls = <<[of |-> 1, at |-> h, op |-> "list", x |-> 1, st |-> "sent", got |-> None]>>
  /\ \E ok \in SUBSET rules :
       world = [session |-> [k \in Hosts |-> "there"],
                opening |-> [k \in Hosts |-> IF k = first /\ k # h /\ rules # {} THEN "waits" ELSE "done"],
                stored |-> rules, read |-> rules, had |-> rules, told |-> rules, used |-> rules, unsure |-> {},
                active |-> [k \in Hosts |-> IF k = first /\ k = h THEN ok ELSE {}],
                late |-> [k \in Hosts |-> {}]]
  /\ acts = 0

Next ==
  \/ RefreshClicked \/ ListAnswered \/ Restart \/ RestartAnswered \/ AddAnswered \/ ArmExpires
  \/ RemoveAnswered
  \/ ListStatus \/ Refuse \/ RestartReads \/ RestartLooks \/ RestartStops \/ RestartStarts
  \/ AddLooks \/ AddStarts \/ RemoveStops \/ Store
  \/ \E rules \in SUBSET (world.had \cup (Rules \ world.used)) : SaveProfile(rules)
  \/ \E r \in Rules : AddTunnel(r) \/ RemoveTunnel(r)
  \/ \E h \in Hosts : Remount(h) \/ ConnectLooks(h) \/ ConnectStarts(h) \/ Ends(h) \/ OnClosed(h)
  \/ Unheard({})

-----------------------------------------------------------------------------
(* Nothing is left spinning when every call is answered.                   *)
NotBusy == Quiet => ~page.loading

(* A session that was cleaned up forwards nothing, but for the rules of a  *)
(* call that had looked up its SSH client before it ended.                 *)
EndWithTheirSession == \A h \in Hosts : world.session[h] = "closed" => world.active[h] \subseteq world.late[h]
(* What was added or removed since a copy of the profile was last saved is *)
(* in the profile, or is not, whatever else was done to its rules, from    *)
(* whichever session; but for a rule that could not be written, or was     *)
(* added and removed at once.                                              *)
RulesKept == Quiet => world.stored \ world.unsure = world.told \ world.unsure
=============================================================================
