---------------------------- MODULE WebsitePanel ----------------------------
(***************************************************************************)
(* The panel of the web sites of a host.  It is built like the panel of    *)
(* cron jobs, but the configuration of a site is read when its editor is   *)
(* opened, and that is a round trip.                                       *)
(***************************************************************************)
EXTENDS ProfileDraft

CONSTANT Sites

Fresh(n, s) == [n |-> n, at |-> s, sites |-> {}, loading |-> TRUE, seq |-> 1, busy |-> None, armed |-> None,
                ask |-> None, saving |-> FALSE]

Ask(p) == [p EXCEPT !.seq = @ + 1, !.loading = TRUE]
Status == Call("status", page.seq + 1)
Shown(p, c) == IF c.x # p.seq THEN p
               ELSE [p EXCEPT !.loading = FALSE, !.sites = IF c.st = "ok" THEN c.got ELSE {}]

RefreshClicked == ~page.loading /\ page.ask = None /\ Act /\ page' = Ask(page) /\ Send(<<Status>>) /\ UNCHANGED world
StatusAnswered == \E i \in DOMAIN calls :
  Back(i, "status") /\ GoOn(i, << >>) /\ page' = Shown(page, calls[i]) /\ UNCHANGED <<world, acts>>

(* openNew, openEdit and closeEditor behind the question.  openEdit asks   *)
(* for the configuration and becomes the draft when that has come; when it *)
(* was asked for is remembered.                                            *)
Load(s) == Call("load", [site |-> s, asked |-> acts])
Run(go, p) ==
  CASE go.act = "new" -> SetDraft(NewDraft("new", 0)) /\ page' = p /\ UNCHANGED calls
    [] go.act = "close" -> SetDraft(None) /\ page' = p /\ UNCHANGED calls
    [] go.act = "edit" -> page' = [p EXCEPT !.busy = go.site] /\ Send(<<Load(go.site)>>) /\ UNCHANGED world
Editor == Draft # None /\ page.ask = None
Free(s) == page.busy # s.id /\ page.ask = None
Question == page.ask # None /\ ~page.saving
Guard(go) == page.ask = None /\ Act
  /\ IF Dirty(Draft) THEN page' = [page EXCEPT !.ask = go] /\ UNCHANGED <<calls, world>> ELSE Run(go, page)
OpenNew == Guard([act |-> "new"])
OpenEdit == \E s \in page.sites : Free(s) /\ Guard([act |-> "edit", site |-> s.id])
CloseEditor == Editor /\ Guard([act |-> "close"])
Loaded == \E i \in DOMAIN calls : LET c == calls[i] IN
  /\ Back(i, "load") /\ GoOn(i, << >>) /\ UNCHANGED acts
  /\ page' = [page EXCEPT !.busy = None]
  /\ IF c.st = "ok" THEN SetDraft([item |-> c.x.site, text |-> c.got, base |-> c.got, v |-> acts]) ELSE UNCHANGED world

Type == Editor /\ Act /\ SetDraft(Typed) /\ UNCHANGED <<page, calls>>
(* changeNewBackend: another server or mode, whose default configuration   *)
(* is the same or another one.                                             *)
Defaults == {0, MaxActs + 1}
ChangeNewBackend == Editor /\ Draft.item = "new" /\ Act /\ UNCHANGED <<page, calls>>
  /\ \E text \in Defaults : SetDraft([Draft EXCEPT !.text = text, !.base = text, !.v = acts])

Cancel == Question /\ page' = [page EXCEPT !.ask = None] /\ UNCHANGED <<calls, world, acts>>
Discard == Question /\ Act /\ Run(page.ask, [page EXCEPT !.ask = None])
Persist(op) == Call(op, [draft |-> Draft])
SaveFromPrompt == Question /\ Draft # None /\ Act /\ UNCHANGED world
  /\ page' = [page EXCEPT !.saving = TRUE, !.busy = "editor"] /\ Send(<<Persist("promptSave")>>)
Save == Editor /\ page.busy # "editor" /\ Act /\ UNCHANGED world
  /\ page' = [page EXCEPT !.busy = "editor"] /\ Send(<<Persist("save")>>)
SaveAnswered == \E i \in DOMAIN calls : LET c == calls[i] IN
  /\ c.op \in {"save", "promptSave"} /\ c.st # "sent" /\ UNCHANGED acts
  /\ world' = IF c.st = "ok" THEN Retired(c) ELSE world
  /\ IF MayGoOn(c)
     THEN /\ page' = Ask([page EXCEPT !.busy = None])
          /\ GoOn(i, <<[Status EXCEPT !.op = IF c.op = "save" THEN "status" ELSE "statusThenRun"]>>)
     ELSE /\ page' = IF c.of # page.n THEN page
                     ELSE [page EXCEPT !.busy = None, !.saving = IF c.op = "promptSave" THEN FALSE ELSE @]
          /\ GoOn(i, << >>)
StatusThenRun == \E i \in DOMAIN calls : LET q == [Shown(page, calls[i]) EXCEPT !.ask = None, !.saving = FALSE] IN
  /\ Back(i, "statusThenRun") /\ UNCHANGED acts
  /\ IF page.ask.act = "edit"
     THEN page' = [q EXCEPT !.busy = page.ask.site] /\ GoOn(i, <<Load(page.ask.site)>>) /\ UNCHANGED world
     ELSE page' = q /\ GoOn(i, << >>) /\ SetDraft(IF page.ask.act = "new" THEN NewDraft("new", 0) ELSE None)

(* toggle, remove (two clicks), and the test of the configuration.         *)
Press(s, op) == Free(s) /\ Act /\ UNCHANGED world
  /\ IF op = "remove" /\ page.armed # s.id THEN page' = [page EXCEPT !.armed = s.id] /\ UNCHANGED calls
     ELSE /\ page' = [page EXCEPT !.busy = s.id, !.armed = IF op = "remove" THEN None ELSE @]
          /\ Send(<<Call("act", [act |-> op, site |-> s])>>)
TestConfig == page.busy # "test" /\ page.ask = None /\ Act /\ UNCHANGED world
  /\ page' = [page EXCEPT !.busy = "test"] /\ Send(<<Call("act", [act |-> "test", site |-> None])>>)
ArmExpires == page.armed # None /\ page' = [page EXCEPT !.armed = None] /\ UNCHANGED <<calls, world, acts>>
ActAnswered == \E i \in DOMAIN calls : LET c == calls[i] IN
  /\ Back(i, "act") /\ UNCHANGED <<world, acts>>
  /\ IF c.st = "ok" /\ c.x.act # "test"
     THEN page' = Ask(page) /\ GoOn(i, <<[Status EXCEPT !.op = "statusAfter"]>>)
     ELSE page' = [page EXCEPT !.busy = None] /\ GoOn(i, << >>)
ShownAfter == \E i \in DOMAIN calls :
  /\ Back(i, "statusAfter") /\ GoOn(i, << >>) /\ UNCHANGED <<world, acts>>
  /\ page' = [Shown(page, calls[i]) EXCEPT !.busy = None]

Remount(s) == Act /\ UNCHANGED world
  /\ page' = Fresh(page.n + 1, s)
  /\ Send(<<[Call("status", 1) EXCEPT !.of = page.n + 1, !.at = s]>>)

-----------------------------------------------------------------------------
Sites0 == {[id |-> s, text |-> 0, on |-> TRUE] : s \in Sites}
ServeRead == \E i \in DOMAIN calls : LET c == calls[i] p == Profile(c.at) IN
  /\ c.st = "sent" /\ UNCHANGED <<page, world, acts>>
  /\ \/ c.op \in {"status", "statusAfter", "statusThenRun"} /\ Served(i, world.sites[p])
     \/ c.op = "load" /\ \E s \in world.sites[p] : s.id = c.x.site /\ Served(i, s.text)
     \/ c.op \in {"status", "statusAfter", "statusThenRun", "load"} /\ Failed(i, None)
(* One script on the host makes a change, tests the configuration, takes   *)
(* the change back if the test fails, and reloads the server.  A reload    *)
(* that fails, or a script that outlasts its forty-five seconds, is an     *)
(* error of a change that was made.  A file is enabled or not as before.   *)
ServeSave == \E i \in DOMAIN calls : LET c == calls[i] p == Profile(c.at) d == c.x.draft IN
  /\ c.st = "sent" /\ c.op \in {"save", "promptSave"} /\ UNCHANGED <<page, acts>>
  /\ \/ /\ world' = [world EXCEPT !.saved = @ \cup {<<p, d.item, d.text>>},
             !.sites[p] = IF \E s \in @ : s.id = d.item
                          THEN {[s EXCEPT !.text = IF s.id = d.item THEN d.text ELSE @] : s \in @}
                          ELSE @ \cup {[id |-> d.item, text |-> d.text, on |-> TRUE]}]
        /\ Served(i, None) \/ Failed(i, None)
     \/ Failed(i, None) /\ UNCHANGED world
ServeAct == \E i \in DOMAIN calls : LET c == calls[i] p == Profile(c.at) IN
  /\ Sent(i, "act") /\ UNCHANGED <<page, acts>>
  /\ \/ /\ c.x.act = "toggle" => \E s \in world.sites[p] : s.id = c.x.site.id
        /\ world' = [world EXCEPT !.sites[p] =
             CASE c.x.act = "remove" -> {s \in @ : s.id # c.x.site.id}
               [] c.x.act = "toggle" -> {[s EXCEPT !.on = IF s.id = c.x.site.id THEN ~c.x.site.on ELSE @] : s \in @}
               [] OTHER -> @]
        /\ Served(i, None) \/ Failed(i, None)
     \/ Failed(i, None) /\ UNCHANGED world

Init == \E s \in HostSessions :
  /\ page = Fresh(1, s)
  /\ calls = <<[of |-> 1, at |-> s, op |-> "status", x |-> 1, st |-> "sent", got |-> None]>>
  /\ world = [sites |-> [p \in Profiles |-> Sites0], drafts |-> [p \in Profiles |-> None], saved |-> {}]
  /\ acts = 1

Next ==
  \/ RefreshClicked \/ StatusAnswered \/ OpenNew \/ OpenEdit \/ CloseEditor \/ Loaded \/ Type \/ ChangeNewBackend
  \/ Cancel \/ Discard \/ SaveFromPrompt \/ Save \/ SaveAnswered \/ StatusThenRun \/ TestConfig \/ ArmExpires
  \/ ActAnswered \/ ShownAfter \/ ServeRead \/ ServeSave \/ ServeAct
  \/ \E s \in page.sites, op \in {"toggle", "remove"} : Press(s, op)
  \/ \E s \in HostSessions : Remount(s)
  \/ Unheard({"save", "promptSave"})

-----------------------------------------------------------------------------
(* The draft of one profile does not change while another one's is edited: *)
(* what is read or saved for a host never reaches the draft of another.    *)
OfItsHost == \A p \in Profiles :
  LET d == world.drafts[p] e == world'.drafts[p] IN
  e # d => \/ Profile(page.at) = p
           \/ e = None /\ <<p, d.item, d.text>> \in world.saved

(* What goes on one host without a question: a text that was typed after a *)
(* site had been asked for, which comes now; and the text of a new site    *)
(* whose server is changed.                                                *)
Overtaken(d) == \E i \in DOMAIN calls : Back(i, "load") /\ calls[i].st = "ok" /\ calls[i].x.asked <= d.v
OtherServer(d, e) == d.item = "new" /\ e # None /\ e.item = "new" /\ e.text = e.base
(* Any other draft with changes goes only when it has been saved, when the *)
(* user typed on in it, or when the question about it was on the screen.   *)
SiteKept == \A p \in Profiles :
  LET d == world.drafts[p] e == world'.drafts[p] IN
  Dirty(d) /\ e # d =>
    KeptDraft(p, world.saved) \/ (Profile(page.at) = p /\ (Overtaken(d) \/ OtherServer(d, e)))

(* Nothing is left spinning when every call is answered.                   *)
NotBusy == Quiet => page.busy = None /\ ~page.loading /\ ~page.saving
=============================================================================
