----------------------------- MODULE Preferences -----------------------------
(***************************************************************************)
(* The settings of the program, their draft in the preferences panel, the  *)
(* drawers of the sidebar with the question asked before the panel is left *)
(* with changes, and the width of the sidebar, which is a setting too.     *)
(* Saving always writes the whole settings, and whatever is loaded or      *)
(* saved replaces the draft.                                               *)
(***************************************************************************)
EXTENDS PageCalls

CONSTANTS
    Widths,    \* of the sidebar
    Entries,   \* host keys that may be trusted
    Newest     \* versions newer than this program are 1 .. Newest

(* Fields whose value may be out of its range: the page puts the sizes of  *)
(* a terminal right and refuses a rule for highlighting, the backend       *)
(* refuses times to keep logs for, and puts intervals and limits right.    *)
Fields == {"size", "rule", "days", "interval"}

First == [theme |-> 0, width |-> CHOOSE w \in Widths : TRUE, odd |-> {}]

Init ==
  /\ page = [n |-> 1, at |-> None, settings |-> First, drawer |-> "monitor", draft |-> None, prompt |-> None,
             width |-> First.width, drag |-> None]
  /\ calls = << >> /\ world = [stored |-> First, saved |-> {}, failed |-> FALSE, stale |-> FALSE] /\ acts = 0

-----------------------------------------------------------------------------
Dirty(p) == p.draft # None /\ p.draft # p.settings

(* setSettings and its effects: the draft begins anew; a stored width that *)
(* changed is the width of the sidebar.                                    *)
SetSettings(p, s) == [p EXCEPT !.settings = s, !.draft = IF @ = None THEN None ELSE s,
                               !.width = IF s.width # p.settings.width THEN s.width ELSE @]
SetDrawer(p, d) == [p EXCEPT !.drawer = d, !.draft = IF d # "settings" THEN None ELSE IF p.drawer = d THEN @ ELSE p.settings]

Save(by, next, s) == Send(<<Call("update", [s |-> s, by |-> by, next |-> next])>>)

-----------------------------------------------------------------------------
(* Also for a document that is opened and for a tab that is shown, while   *)
(* the question is on the screen.                                          *)
RequestDrawer(d) == d # page.drawer /\ Act /\ UNCHANGED <<calls, world>>
  /\ page' = IF d # "settings" /\ Dirty(page)
             THEN [page EXCEPT !.prompt = [next |-> d, saving |-> IF @ = None THEN FALSE ELSE @.saving]]
             ELSE SetDrawer(page, d)

(* A value out of its range comes into a field, or one in it comes back.   *)
Edit(f) == page' = [page EXCEPT !.draft.odd = IF f \in @ THEN @ \ {f} ELSE @ \cup {f}]
EditLook == page' = [page EXCEPT !.draft.theme = acts + 1]
EditTerminal == Edit("size")
EditRules == Edit("rule")
EditLogs == Edit("days") \/ Edit("interval")
EditConnections == Edit("interval")
Update == page.draft # None /\ page.prompt = None /\ Act /\ UNCHANGED <<calls, world>>
  /\ (EditLook \/ EditTerminal \/ EditRules \/ EditLogs \/ EditConnections)
PutRight(s) == [s EXCEPT !.odd = @ \ {"size"}]
(* The field is left.                                                      *)
Blur == page.draft # None /\ "size" \in page.draft.odd
  /\ page' = [page EXCEPT !.draft = PutRight(@)] /\ UNCHANGED <<calls, world, acts>>
Refused(s) == "rule" \in s.odd   \* the panel says why, and keeps the draft
Commit == Dirty(page) /\ ~Refused(page.draft) /\ page.prompt = None /\ Act
  /\ Save("panel", None, PutRight(page.draft)) /\ UNCHANGED <<page, world>>

Asked == page.prompt # None /\ ~page.prompt.saving
Cancel == Asked /\ page' = [page EXCEPT !.prompt = None] /\ UNCHANGED <<calls, world, acts>>
Leave(p, next) == SetDrawer([p EXCEPT !.prompt = None], next)
Discard == Asked /\ Act /\ page' = Leave(page, page.prompt.next) /\ UNCHANGED <<calls, world>>
SaveFromPrompt == Asked /\ Act /\ UNCHANGED world
  /\ IF ~Dirty(page) THEN page' = Leave(page, page.prompt.next) /\ UNCHANGED calls
     ELSE IF Refused(page.draft) THEN UNCHANGED <<page, calls>>
     ELSE page' = [page EXCEPT !.prompt.saving = TRUE] /\ Save("prompt", page.prompt.next, PutRight(page.draft))

-----------------------------------------------------------------------------
(* finishSidebarResize, with the settings its caller has seen: a drag has  *)
(* seen those of its beginning, and compares with them.                    *)
Finish(p, settings, width) == page' = p
  /\ world' = [world EXCEPT !.failed = @ \/ (settings.width = width /\ page.settings.width # width)]
  /\ IF settings.width = width THEN UNCHANGED calls ELSE Save("sidebar", None, [settings EXCEPT !.width = width])

BeginResize == page.drag = None /\ page.prompt = None /\ Act
  /\ page' = [page EXCEPT !.drag = page.settings] /\ UNCHANGED <<calls, world>>
Move(w) == page.drag # None /\ w # page.width /\ Act /\ page' = [page EXCEPT !.width = w] /\ UNCHANGED <<calls, world>>
EndResize == page.drag # None /\ Act /\ Finish([page EXCEPT !.drag = None], page.drag, page.width)
(* A key, or the double click that resets the width.                       *)
Adjust(w) == page.drag = None /\ page.prompt = None /\ Act /\ Finish([page EXCEPT !.width = w], page.settings, w)

(* A backup is restored, which the panel offers while its draft is as it   *)
(* was; the page loads the settings then.                                  *)
Restore == ~Dirty(page) /\ page.drawer = "settings" /\ page.prompt = None /\ Act
  /\ Send(<<Call("reload", None)>>) /\ UNCHANGED page
  /\ world' = [world EXCEPT !.stored = [First EXCEPT !.theme = acts + 1], !.stale = @ \/ ~Quiet]
(* Profiles were saved, deleted or imported.                               *)
Reload == Act /\ Send(<<Call("reload", None)>>) /\ UNCHANGED <<page, world>>

-----------------------------------------------------------------------------
Over(i, op) == i \in DOMAIN calls /\ calls[i].st # "sent" /\ calls[i].op = op /\ GoOn(i, << >>) /\ UNCHANGED acts

UpdateAnswered == \E i \in DOMAIN calls : Over(i, "update")
  /\ LET c == calls[i] ok == c.st = "ok" p == IF ok THEN SetSettings(page, c.got) ELSE page IN
     /\ page' = IF c.x.by # "prompt" THEN p ELSE IF ok THEN Leave(p, c.x.next) ELSE [p EXCEPT !.prompt.saving = FALSE]
     /\ world' = [world EXCEPT !.failed = @ \/ (c.x.by = "sidebar" /\ ~ok)]
Reloaded == \E i \in DOMAIN calls : Over(i, "reload") /\ world' = [world EXCEPT !.stale = @ \/ calls[i].st = "failed"]
  /\ page' = IF calls[i].st = "ok" THEN SetSettings(page, calls[i].got) ELSE page

(* UpdateSettings refuses what cannot be, and gives back what it stored.   *)
UpdateSettings(i) == Sent(i, "update") /\ UNCHANGED <<page, acts>>
  /\ LET s == [calls[i].x.s EXCEPT !.odd = @ \ {"size", "interval"}] IN
     \/ s.odd = {} /\ Served(i, s) /\ world' = [world EXCEPT !.stored = s, !.saved = @ \cup {s, calls[i].x.s}, !.stale = @ \/ Len(calls) > 1]
     \/ Failed(i, None) /\ UNCHANGED world
GetSettings(i) == Sent(i, "reload") /\ (Served(i, world.stored) \/ Failed(i, None)) /\ UNCHANGED <<page, world, acts>>

Next ==
  \/ Update \/ Blur \/ Commit \/ Cancel \/ Discard \/ SaveFromPrompt \/ BeginResize \/ EndResize \/ Restore \/ Reload
  \/ UpdateAnswered \/ Reloaded
  \/ \E i \in DOMAIN calls : UpdateSettings(i) \/ GetSettings(i)
  \/ \E d \in {"monitor", "documents", "settings"} : RequestDrawer(d)
  \/ \E w \in Widths : Move(w) \/ Adjust(w)

-----------------------------------------------------------------------------
(* A draft with changes goes only when the user types on, when it has been *)
(* saved, when the question was on the screen, or when the settings it     *)
(* began with are replaced by what was saved or loaded elsewhere; and the  *)
(* drawer leaves the preferences in no other way.                          *)
DraftKept == Dirty(page) /\ page'.draft # page.draft =>
  \/ page'.settings = page.settings /\ page'.draft # None
  \/ page.draft \in world.saved
  \/ page.prompt # None
  \/ page'.drawer = "settings" /\ page'.settings # page.settings

(* When nothing is under way the page goes by the settings that are        *)
(* stored, as they were put right (unless settings were stored while       *)
(* another call for them was under way, or could not be read again); and   *)
(* every value in them is in its range.                                    *)
SettingsSound == page.settings.odd = {} /\ (Quiet /\ ~world.stale => page.settings = world.stored)

(* When nothing is under way the sidebar is as wide as the settings say,   *)
(* as long as no width failed to be saved, or was not saved since it was   *)
(* that of older settings; and no question is left saving.                 *)
WidthIsTheSetting == Quiet =>
  /\ page.drag = None /\ ~world.failed => page.width = page.settings.width
  /\ page.prompt # None => ~page.prompt.saving

-----------------------------------------------------------------------------
(***************************************************************************)
(* What the preferences show that is not in the settings' draft: whether   *)
(* the program is in the menu of the desktop, which host keys are trusted, *)
(* what a search for a newer version found; and the question raised when   *)
(* the program starts and a newer version is there.  The version the user  *)
(* skipped is kept with the settings, which are read and written in two    *)
(* steps by whoever changes them.                                          *)
(***************************************************************************)

Closed == [open |-> FALSE, menu |-> FALSE, checking |-> FALSE, result |-> None, hosts |-> {}, loading |-> FALSE, busy |-> None]

(* world.starting: the check at the start is yet to come; world.skipped:   *)
(* the newest version the user has skipped; world.mixed: settings were     *)
(* written that were read before another writing; world.crossed and        *)
(* world.stale: calls for the menu, or for the keys, overlapped.           *)
SystemInit ==
  /\ page = [n |-> 1, at |-> None, panel |-> Closed, prompt |-> None, settings |-> [skip |-> 0, on |-> TRUE]]
  /\ calls = << >> /\ acts = 0
  /\ world = [registered |-> FALSE, known |-> Entries, settings |-> page.settings, latest |-> 1, starting |-> page.settings.on,
              skipped |-> 0, mixed |-> FALSE, crossed |-> FALSE, stale |-> FALSE]

Waiting(ops) == \E i \in DOMAIN calls : calls[i].op \in ops
MenuOps == {"Registered", "Toggle"}
HostOps == {"List", "Remove"}
Panel == page.panel.open

-----------------------------------------------------------------------------
(* The panel is mounted and unmounted with its drawer.                     *)
OpenPanel == ~Panel /\ Act
  /\ page' = [page EXCEPT !.n = @ + 1, !.panel = [Closed EXCEPT !.open = TRUE, !.loading = TRUE]]
  /\ Len(calls) + 2 <= MaxCalls
  /\ calls' = calls \o <<[Call("Registered", None) EXCEPT !.of = page.n + 1], [Call("List", None) EXCEPT !.of = page.n + 1]>>
  /\ world' = [world EXCEPT !.crossed = Waiting(MenuOps), !.stale = Waiting(HostOps)]
ClosePanel == Panel /\ Act /\ page' = [page EXCEPT !.n = @ + 1, !.panel = Closed] /\ UNCHANGED <<calls, world>>

(* The entries in the menu of the desktop; the switch follows the clicks   *)
(* that worked, and the registry after one that did not.                   *)
ToggleMenu == Panel /\ Act /\ Send(<<Call("Toggle", ~page.panel.menu)>>) /\ UNCHANGED page
  /\ world' = [world EXCEPT !.crossed = @ \/ Waiting(MenuOps)]
ServeMenu(i) == UNCHANGED <<page, acts>>
  /\ \/ Sent(i, "Registered") /\ Served(i, world.registered) /\ UNCHANGED world
     \/ Sent(i, "Toggle") /\ Served(i, None) /\ world' = [world EXCEPT !.registered = calls[i].x]
     \/ /\ Sent(i, "Toggle") /\ Failed(i, None)   \* some of the entries may be gone
        /\ \E r \in {world.registered, FALSE} : world' = [world EXCEPT !.registered = r]
MenuAnswered == \E i \in DOMAIN calls : UNCHANGED acts /\
  \/ Back(i, "Registered") /\ page' = [page EXCEPT !.panel.menu = calls[i].got] /\ GoOn(i, << >>) /\ UNCHANGED world
  \/ /\ Back(i, "Toggle")
     /\ IF calls[i].st = "ok" THEN page' = [page EXCEPT !.panel.menu = calls[i].x] /\ GoOn(i, << >>) ELSE UNCHANGED page /\ GoOn(i, <<Call("Registered", None)>>)
     /\ world' = [world EXCEPT !.crossed = @ \/ (calls[i].st = "failed" /\ \E j \in DOMAIN calls \ {i} : calls[j].op \in MenuOps)]

-----------------------------------------------------------------------------
(* The host keys that are trusted.                                         *)
Load == Panel /\ Act /\ page' = [page EXCEPT !.panel.loading = TRUE] /\ Send(<<Call("List", None)>>)
  /\ world' = [world EXCEPT !.stale = Waiting(HostOps)]
Forget(e) == Panel /\ e \in page.panel.hosts /\ page.panel.busy # e /\ Act
  /\ page' = [page EXCEPT !.panel.busy = e] /\ Send(<<Call("Remove", e)>>)
  /\ world' = [world EXCEPT !.stale = @ \/ Waiting(HostOps)]
ServeHosts(i) == UNCHANGED <<page, acts>>
  /\ \/ Sent(i, "List") /\ Served(i, world.known) /\ UNCHANGED world
     \/ Sent(i, "List") /\ Failed(i, {}) /\ world' = [world EXCEPT !.stale = TRUE]
     \/ Sent(i, "Remove") /\ calls[i].x \in world.known /\ Served(i, None) /\ world' = [world EXCEPT !.known = @ \ {calls[i].x}]
     \/ Sent(i, "Remove") /\ Failed(i, None) /\ UNCHANGED world
HostsAnswered == \E i \in DOMAIN calls : GoOn(i, << >>) /\ UNCHANGED <<world, acts>> /\
  \/ Back(i, "List") /\ page' = [page EXCEPT !.panel.hosts = calls[i].got, !.panel.loading = FALSE]
  \/ Back(i, "Remove") /\ page' = [page EXCEPT !.panel.busy = None, !.panel.hosts = IF calls[i].st = "ok" THEN @ \ {calls[i].x} ELSE @]
(* A host is connected to for the first time, and its key trusted.         *)
Trust(e) == e \notin world.known /\ Act /\ world' = [world EXCEPT !.known = @ \cup {e}, !.stale = TRUE] /\ UNCHANGED <<page, calls>>

-----------------------------------------------------------------------------
(* The versions                                                            *)
RunUpdateCheck == Panel /\ ~page.panel.checking /\ Act /\ page' = [page EXCEPT !.panel.checking = TRUE] /\ Send(<<Call("Check", None)>>) /\ UNCHANGED world
(* Without an answer from the release feed the result says so.             *)
ServeCheck(i) == Sent(i, "Check") /\ (Served(i, world.latest) \/ Served(i, 0)) /\ UNCHANGED <<page, world, acts>>
Checked == \E i \in DOMAIN calls : Back(i, "Check") /\ GoOn(i, << >>) /\ UNCHANGED <<world, acts>>
  /\ page' = [page EXCEPT !.panel.checking = FALSE, !.panel.result = calls[i].got]

Release == world.latest < Newest /\ Act /\ world' = [world EXCEPT !.latest = @ + 1] /\ UNCHANGED <<page, calls>>
(* The check at the start, if the settings asked for one, is done; the     *)
(* settings are read again then.                                           *)
ShouldAnnounce == world.settings.on /\ world.latest > world.settings.skip
Announce == world.starting /\ world' = [world EXCEPT !.starting = FALSE] /\ UNCHANGED <<calls, acts>>
  /\ page' = IF ShouldAnnounce THEN [page EXCEPT !.prompt = world.latest] ELSE page
(* Later, or to the page of the version.                                   *)
Dismiss == page.prompt # None /\ page' = [page EXCEPT !.prompt = None] /\ UNCHANGED <<calls, world, acts>>
Skip == page.prompt # None /\ page' = [page EXCEPT !.prompt = None] /\ Send(<<Call("Skip", page.prompt)>>) /\ UNCHANGED <<world, acts>>
(* The settings are saved, with the copy of them that the page has; what   *)
(* else the user changed in them is left out.                              *)
SaveSkip == Panel /\ page.prompt = None /\ Act /\ UNCHANGED <<page, world>>
  /\ \E on \in BOOLEAN : Send(<<Call("Update", [page.settings EXCEPT !.on = on])>>)

(* Both writers read the settings, and write them with their own part      *)
(* changed; what the other one is for is taken from what was read.         *)
ReadSettings(i) == i \in DOMAIN calls /\ calls[i].op \in {"Skip", "Update"} /\ calls[i].st = "sent"
  /\ calls' = [calls EXCEPT ![i].st = "read", ![i].got = world.settings] /\ UNCHANGED <<page, world, acts>>
Written(c) == IF c.op = "Skip" THEN [c.got EXCEPT !.skip = c.x] ELSE [c.x EXCEPT !.skip = c.got.skip]
WriteSettings(i) == i \in DOMAIN calls /\ calls[i].st = "read" /\ UNCHANGED <<page, acts>>
  /\ \/ /\ Served(i, Written(calls[i]))
        /\ world' = [world EXCEPT !.settings = Written(calls[i]), !.skipped = IF calls[i].op = "Skip" THEN calls[i].x ELSE @,
                                  !.mixed = @ \/ \E j \in DOMAIN calls \ {i} : calls[j].st = "read"]
     \/ Failed(i, None) /\ UNCHANGED world
Wrote == \E i \in DOMAIN calls : calls[i].op \in {"Skip", "Update"} /\ calls[i].st \in {"ok", "failed"} /\ GoOn(i, << >>) /\ UNCHANGED <<world, acts>>
  /\ page' = IF calls[i].op = "Update" /\ calls[i].st = "ok" THEN [page EXCEPT !.settings = calls[i].got] ELSE page

(* The program is ended and started anew.                                  *)
Restart == Act /\ calls' = << >>
  /\ page' = [page EXCEPT !.n = @ + 1, !.panel = Closed, !.prompt = None, !.settings = world.settings]
  /\ world' = [world EXCEPT !.starting = world.settings.on, !.crossed = FALSE, !.stale = FALSE]

SystemNext ==
  \/ OpenPanel \/ ClosePanel \/ ToggleMenu \/ MenuAnswered \/ Load \/ HostsAnswered
  \/ RunUpdateCheck \/ Checked \/ Release \/ Announce \/ Dismiss \/ Skip \/ SaveSkip \/ Wrote \/ Restart
  \/ \E e \in Entries : Forget(e) \/ Trust(e)
  \/ \E i \in DOMAIN calls : ServeMenu(i) \/ ServeHosts(i) \/ ServeCheck(i) \/ ReadSettings(i) \/ WriteSettings(i)
  \/ Unheard({"Skip", "Update"})

-----------------------------------------------------------------------------
(* When all is answered nothing is disabled, the switch shows whether the  *)
(* program is in the menu, and the list the keys that are trusted (unless  *)
(* calls for the same thing overlapped, a key came in between, or the list *)
(* could not be read).                                                     *)
SystemShown == Quiet /\ Panel =>
  /\ ~page.panel.checking /\ ~page.panel.loading /\ page.panel.busy = None
  /\ world.crossed \/ page.panel.menu = world.registered
  /\ world.stale \/ page.panel.hosts = world.known

(* A version the user has skipped is not brought up again, whoever saves   *)
(* the settings since, with however old a copy: UpdateSettings takes this  *)
(* field from the store.  But it reads it there first and writes it then,  *)
(* without a lock, so two that do so at once are excepted.                 *)
SkippedStaysAway == page.prompt # None => page.prompt > world.skipped \/ world.mixed
=============================================================================
