----------------------------- MODULE RemoteFiles -----------------------------
(***************************************************************************)
(* The files of the active session: useSftp, which keeps what directory of *)
(* each session is shown and a cache of their lists, and the panel with    *)
(* its dialogs.  The panel is mounted while its drawer is open and the     *)
(* active session is connected, and is not mounted anew when another       *)
(* connected session becomes active; what it awaits goes on even when it   *)
(* has been unmounted.  A list is shown whose request is the last one.     *)
(***************************************************************************)
EXTENDS PageCalls, Functions

CONSTANTS Servers,   \* the connected sessions
          Dirs, Home,\* their directories; where a session begins, "."
          Names      \* the files in them

Places == Servers \X Dirs
Empty == [of |-> None, names |-> {}]

(* host: the active session; cache, pend: by place, the list kept and the  *)
(* request under way; wait: the request whose list will be shown; paths:   *)
(* the directory of each session.  Of the panel: mounted, how often it was *)
(* mounted, what it last showed in each of these times (ctx), its dialog,  *)
(* and the suggestions below its path.                                     *)
Init == \E h \in Servers, f \in Names :
  /\ page = [n |-> 1, at |-> None, host |-> h, drawer |-> TRUE, wait |-> 1,
             view |-> [host |-> h, path |-> Home, files |-> Empty, busy |-> TRUE],
             cache |-> [p \in Places |-> None], pend |-> [p \in Places |-> IF p = <<h, Home>> THEN 1 ELSE 0],
             paths |-> [s \in Servers |-> IF s = h THEN Home ELSE None],
             ctx |-> <<<<h, Home>>>>, mounted |-> TRUE, dialog |-> None,
             sug |-> [wait |-> 0, focus |-> FALSE, base |-> Home, of |-> None, list |-> Empty, busy |-> FALSE]]
  /\ calls = <<[of |-> 1, at |-> None, op |-> "list", x |-> [id |-> 1, place |-> <<h, Home>>], st |-> "sent", got |-> None]>>
  /\ world = [fs |-> [p \in Places |-> {f}], crossed |-> FALSE, strayed |-> FALSE]
  /\ acts = 0

-----------------------------------------------------------------------------
(* useSftp                                                                 *)
(* A request is told from the others under way.                            *)
NewId(op) == CHOOSE n \in 1..(MaxCalls + 1) : /\ \A i \in DOMAIN calls : calls[i].op = op => calls[i].x.id # n
                                              /\ \A m \in 1..(n - 1) : \E i \in DOMAIN calls : calls[i].op = op /\ calls[i].x.id = m
ViewPath(p) == IF p.view.host = p.host THEN p.view.path ELSE Home
Shown(p) == IF p.view.host = p.host THEN p.view.files ELSE Empty

(* refreshSftp: a refresh of what is shown drops all that is kept and      *)
(* asked of its session; another directory may come from the cache, when   *)
(* it is not too old.                                                      *)
Refreshed(p, s, d, prefer, fresh) ==
  LET pl == <<s, d>>
      useCache == prefer \/ d # ViewPath(p)
      Dropped(f, none) == IF useCache THEN f ELSE [q \in Places |-> IF q[1] = s THEN none ELSE f[q]]
      cache == Dropped(p.cache, None)  pend == Dropped(p.pend, 0)
      kept == p.cache[pl]
      done == useCache /\ kept # None /\ fresh
      q == [p EXCEPT !.cache = cache, !.pend = pend, !.paths[s] = d,
                     !.view = IF s = p.host THEN [host |-> s, path |-> d, files |-> IF kept = None THEN Empty ELSE kept, busy |-> ~done] ELSE @] IN
  IF done THEN [q EXCEPT !.wait = None]
  ELSE IF useCache /\ pend[pl] # 0 THEN [q EXCEPT !.wait = pend[pl]]
  ELSE [q EXCEPT !.pend[pl] = NewId("list"), !.wait = NewId("list")]

(* The list asked for in the step that leads to q.                         *)
Asked(q, s, d) == IF q.pend[<<s, d>>] # NewId("list") THEN << >> ELSE <<Call("list", [id |-> NewId("list"), place |-> <<s, d>>])>>

(* Another session is active: its last directory, then the effect of the   *)
(* drawer asks for it.                                                     *)
Entered(p, s, path) ==
  LET d == IF path # None THEN path ELSE IF p.paths[s] # None THEN p.paths[s] ELSE Home
      kept == p.cache[<<s, d>>] IN
  [p EXCEPT !.host = s, !.wait = None,
            !.view = [host |-> s, path |-> d, files |-> IF kept = None THEN Empty ELSE kept, busy |-> FALSE]]

-----------------------------------------------------------------------------
(* The panel                                                               *)
Panel(p) == [p EXCEPT !.ctx[Len(p.ctx)] = <<p.host, ViewPath(p)>>]

(* The suggestions are those of the directory typed so far, asked for anew *)
(* when it, the session or what is shown changes.                          *)
Suggest(p, q) ==
  IF <<p.sug.focus, p.sug.base, p.host, ViewPath(p), Shown(p)>> = <<q.sug.focus, q.sug.base, q.host, ViewPath(q), Shown(q)>> THEN q
  ELSE IF ~q.sug.focus THEN [q EXCEPT !.sug.wait = 0]
  ELSE IF q.sug.base = ViewPath(q) THEN [q EXCEPT !.sug.wait = 0, !.sug.of = q.host, !.sug.list = Shown(q), !.sug.busy = FALSE]
  ELSE [q EXCEPT !.sug.wait = NewId("suggest"), !.sug.busy = TRUE]
Suggesting(q) == IF q.sug.wait # NewId("suggest") THEN << >>
  ELSE <<Call("suggest", [id |-> q.sug.wait, place |-> <<q.host, q.sug.base>>])>>

(* The suggestions shown: only those asked for this session.               *)
Suggestions == IF page.sug.of = page.host THEN page.sug.list ELSE Empty

(* What the page shows after a step: the draft of the path follows what is *)
(* shown, and the effects of the mounted panel run.                        *)
After(p) == LET moved == p.host # page.host \/ ViewPath(p) # ViewPath(page)
                q == IF moved THEN [p EXCEPT !.sug.base = ViewPath(p)] ELSE p IN
  IF p.mounted THEN Suggest(page, Panel(q)) ELSE p

Mounted(p) == IF p.mounted THEN p
  ELSE [p EXCEPT !.mounted = TRUE, !.ctx = Append(@, <<p.host, ViewPath(p)>>), !.dialog = None,
                 !.sug = [wait |-> 0, focus |-> FALSE, base |-> ViewPath(p), of |-> None, list |-> Empty, busy |-> FALSE]]

(* refreshSftp for the active session, as the panel calls it, beside the   *)
(* rest of the calls.                                                      *)
GoTo(p, d, rest) == \E fresh \in BOOLEAN :
  LET q == Refreshed(p, p.host, d, FALSE, fresh)  r == After(q) IN
  page' = r /\ calls' = rest \o Asked(q, p.host, d) \o Suggesting(r)

-----------------------------------------------------------------------------
(* The user                                                                *)
Idle == page.mounted /\ page.dialog = None

(* Listing: the names below the path, however sorted and filtered; Rows:   *)
(* those that can be pointed at, each with its buttons and its menu.       *)
Listing == Shown(page).names
Rows == IF Idle THEN Listing ELSE {}
Row(f) == f \in Rows
Menu(f) == f \in Rows
Toolbar == Idle
PathField == Idle

Navigate(d) == PathField /\ Act /\ GoTo([page EXCEPT !.sug.focus = FALSE, !.sug.base = d], d, calls) /\ Len(calls') <= MaxCalls /\ UNCHANGED world
TypePath(d) == PathField /\ Act
  /\ page' = After([page EXCEPT !.sug.focus = TRUE, !.sug.base = d]) /\ Send(Suggesting(page')) /\ UNCHANGED world
LeavePath == page.mounted /\ page.sug.focus /\ page' = After([page EXCEPT !.sug.focus = FALSE]) /\ UNCHANGED <<calls, world, acts>>

OpenDrawer == ~page.mounted /\ Act /\ \E fresh \in BOOLEAN :
  LET d == ViewPath(page)  q == Refreshed(page, page.host, d, TRUE, fresh) IN
  page' = Mounted([q EXCEPT !.drawer = TRUE]) /\ Send(Asked(q, page.host, d)) /\ UNCHANGED world
CloseDrawer == page.drawer /\ Act /\ page' = [page EXCEPT !.drawer = FALSE, !.mounted = FALSE] /\ UNCHANGED <<calls, world>>

(* Another session becomes active: a tab is chosen, or a connection that   *)
(* was asked for earlier succeeds, also below an open dialog.              *)
Activate(s) == s # page.host /\ Act /\ \E fresh \in BOOLEAN :
  LET e == Entered(page, s, None)
      q == IF page.drawer THEN Refreshed(e, s, ViewPath(e), TRUE, fresh) ELSE e
      r == After(q) IN
  /\ page' = r /\ Send(Asked(q, s, ViewPath(e)) \o Suggesting(r))
  /\ world' = [world EXCEPT !.crossed = @ \/ page.dialog # None]

(* A path in a terminal is clicked, which may be that of another session:  *)
(* its tab is activated, the drawer opened and the directory asked for, in *)
(* one go; the effects of the other session come upon that.                *)
OpenPath(s, d) == page.dialog = None /\ Act /\ \E fresh \in BOOLEAN :
  LET q == Refreshed(page, s, d, FALSE, fresh)
      e == IF s = page.host THEN [q EXCEPT !.drawer = TRUE] ELSE [Entered(q, s, d) EXCEPT !.drawer = TRUE]
      again == s # page.host \/ ~page.drawer
      v == IF again THEN Refreshed(e, s, d, TRUE, fresh) ELSE e
      r == IF page.mounted THEN After(v) ELSE Mounted(v) IN
  /\ page' = r /\ UNCHANGED world
  /\ Send(Asked(v, s, d) \o Suggesting(r))

AskDelete(f) == Menu(f)
  /\ page' = [page EXCEPT !.dialog = [kind |-> "delete", of |-> <<page.host, ViewPath(page)>>, f |-> f, busy |-> FALSE]] /\ UNCHANGED <<calls, world, acts>>
AskRename(f) == Menu(f)
  /\ page' = [page EXCEPT !.dialog = [kind |-> "rename", of |-> <<page.host, ViewPath(page)>>, f |-> f, busy |-> FALSE]] /\ UNCHANGED <<calls, world, acts>>
AskMkdir == Toolbar
  /\ page' = [page EXCEPT !.dialog = [kind |-> "mkdir", of |-> <<page.host, ViewPath(page)>>, f |-> None, busy |-> FALSE]] /\ UNCHANGED <<calls, world, acts>>
(* One of the panel's dialogs is open, and not busy.                       *)
Asking(kinds) == page.mounted /\ page.dialog # None /\ page.dialog.kind \in kinds /\ ~page.dialog.busy

CloseDialog == Asking({"delete", "rename", "mkdir", "overwrite"})
  /\ page' = [page EXCEPT !.dialog = None] /\ UNCHANGED <<calls, world, acts>>

(* The change is made in the active session, at the path the dialog was    *)
(* opened for, or for a new name in the directory shown now.               *)
Change(k, f, to) == LET d == page.dialog IN
  Send(<<Call("change", [kind |-> k, panel |-> Len(page.ctx), host |-> page.host, dir |-> d.of[2], f |-> f, to |-> to,
                         path |-> ViewPath(page), asked |-> d.of])>>)
Confirm == Asking({"delete"}) /\ Act
  /\ Change("delete", page.dialog.f, None) /\ page' = [page EXCEPT !.dialog.busy = TRUE] /\ UNCHANGED world
Submit(name) == Asking({"rename", "mkdir"}) /\ name # page.dialog.f /\ Act
  /\ Change(page.dialog.kind, page.dialog.f, name) /\ UNCHANGED <<page, world>>

(* The change has been made: the dialog, whichever it is by now, is closed *)
(* and the directory shown then is listed again, in the session that is    *)
(* active now.                                                             *)
Changed == \E i \in DOMAIN calls : Back(i, "change") /\ UNCHANGED acts
  /\ LET c == calls[i]  mine == c.x.panel = Len(page.ctx) /\ page.mounted
         p == IF ~mine THEN page
              ELSE IF c.st = "ok" THEN [page EXCEPT !.dialog = None]
              ELSE IF c.x.kind = "delete" /\ page.dialog # None THEN [page EXCEPT !.dialog.busy = FALSE] ELSE page IN
     IF c.st = "ok"
     THEN /\ GoTo(p, c.x.path, RemoveAt(calls, i))
          /\ world' = [world EXCEPT !.strayed = @ \/ c.x.host # page.host \/ c.x.path # ViewPath(page)]
     ELSE page' = p /\ GoOn(i, << >>) /\ UNCHANGED world

-----------------------------------------------------------------------------
(* After the dialog for a local file nothing is done when the panel shows  *)
(* something else by then.                                                 *)
Choose(op) == Send(<<Call(op, [panel |-> Len(page.ctx), place |-> <<page.host, ViewPath(page)>>])>>)
Upload == Toolbar /\ Act /\ Choose("upload") /\ UNCHANGED <<page, world>>
Download == (\E f \in Names : Row(f)) /\ Act /\ Choose("download") /\ UNCHANGED <<page, world>>

Move(x, f, over) == Call("move", [panel |-> x.panel, place |-> x.place, f |-> f, over |-> over])
Still(x) == page.ctx[x.panel] = x.place
Alive(x) == x.panel = Len(page.ctx) /\ page.mounted

(* A file of that name is not replaced without a question.                 *)
PickedUpload == \E i \in DOMAIN calls : Back(i, "upload") /\ UNCHANGED <<world, acts>>
  /\ LET x == calls[i].x  f == calls[i].got IN
     IF f = None \/ ~Still(x) THEN GoOn(i, << >>) /\ UNCHANGED page
     ELSE IF f \notin Shown(page).names THEN GoOn(i, <<Move(x, f, FALSE)>>) /\ UNCHANGED page
     ELSE /\ GoOn(i, << >>)
          /\ page' = IF Alive(x) THEN [page EXCEPT !.dialog = [kind |-> "overwrite", of |-> x.place, f |-> f, busy |-> FALSE]] ELSE page

PickedDownload == \E i \in DOMAIN calls : Back(i, "download") /\ UNCHANGED <<page, world, acts>>
  /\ GoOn(i, IF calls[i].got = None \/ ~Still(calls[i].x) THEN << >> ELSE <<Call("fetch", calls[i].x)>>)
Downloaded == \E i \in DOMAIN calls : Back(i, "fetch") /\ GoOn(i, << >>) /\ UNCHANGED <<page, world, acts>>

ConfirmOverwrite == Asking({"overwrite"}) /\ Act /\ UNCHANGED world
  /\ LET x == [panel |-> Len(page.ctx), place |-> page.dialog.of] IN
     IF ~Still(x) THEN page' = [page EXCEPT !.dialog = None] /\ UNCHANGED calls
     ELSE page' = [page EXCEPT !.dialog.busy = TRUE] /\ Send(<<Move(x, page.dialog.f, TRUE)>>)

Uploaded == \E i \in DOMAIN calls : Back(i, "move") /\ UNCHANGED acts
  /\ LET c == calls[i]  ok == c.st = "ok"
         p == IF ~Alive(c.x) \/ ~c.x.over \/ page.dialog = None THEN page
              ELSE IF ok THEN [page EXCEPT !.dialog = None] ELSE [page EXCEPT !.dialog.busy = FALSE] IN
     IF ok /\ Still(c.x)
     THEN /\ GoTo(p, c.x.place[2], RemoveAt(calls, i))
          /\ world' = [world EXCEPT !.strayed = @ \/ c.x.place # <<page.host, ViewPath(page)>>]
     ELSE page' = p /\ GoOn(i, << >>) /\ world' = [world EXCEPT !.strayed = @ \/ ok]

-----------------------------------------------------------------------------
Listed == \E i \in DOMAIN calls : Back(i, "list") /\ UNCHANGED <<world, acts>>
  /\ LET c == calls[i]  pl == c.x.place  first == page.pend[pl] = c.x.id
         got == [of |-> pl, names |-> c.got]
         p == [page EXCEPT !.cache = IF first /\ c.st = "ok" THEN [@ EXCEPT ![pl] = got] ELSE @,
                           !.pend = IF first THEN [@ EXCEPT ![pl] = 0] ELSE @]
         q == IF page.wait # c.x.id THEN p
              ELSE IF c.st = "ok" THEN [p EXCEPT !.wait = None, !.view = [host |-> pl[1], path |-> pl[2], files |-> got, busy |-> FALSE]]
              ELSE [p EXCEPT !.wait = None, !.view.busy = FALSE] IN
     page' = After(q) /\ GoOn(i, Suggesting(page'))

Suggested == \E i \in DOMAIN calls : Back(i, "suggest") /\ GoOn(i, << >>) /\ UNCHANGED <<world, acts>>
  /\ LET c == calls[i] IN
     page' = IF ~page.mounted \/ c.x.id # page.sug.wait THEN page
             ELSE [page EXCEPT !.sug.wait = 0, !.sug.of = c.x.place[1], !.sug.busy = FALSE,
                               !.sug.list = IF c.st = "ok" THEN [of |-> c.x.place, names |-> c.got] ELSE Empty]

(* A file is not renamed to the name of another one; a directory that is   *)
(* there is as good as made; an upload does not replace a file unless told *)
(* to.  All may fail, also after they were done, when the connection ends. *)
Does(i, fs) == LET w == [world EXCEPT !.fs = fs] IN
  \/ Served(i, None) /\ world' = w
  \/ Failed(i, None) /\ world' = [w EXCEPT !.strayed = TRUE]
Serve == \E i \in DOMAIN calls : calls[i].st = "sent" /\ UNCHANGED <<page, acts>>
  /\ LET c == calls[i] IN
     CASE c.op \in {"list", "suggest"} -> UNCHANGED world /\ (Served(i, world.fs[c.x.place]) \/ Failed(i, {}))
       [] c.op \in {"upload", "download"} -> UNCHANGED world /\ \E f \in Names \cup {None} : Served(i, f)
       [] c.op = "fetch" -> UNCHANGED world /\ (Served(i, None) \/ Failed(i, None))
       [] c.op = "change" ->
          LET from == <<c.x.host, c.x.dir>>  to == <<c.x.host, c.x.path>>
              there == c.x.to # None /\ c.x.to \in world.fs[to]
              gone == IF c.x.f = None THEN world.fs ELSE [world.fs EXCEPT ![from] = @ \ {c.x.f}] IN
          \/ /\ ~there /\ (c.x.f # None => c.x.f \in world.fs[from])
             /\ Does(i, IF c.x.to = None THEN gone ELSE [gone EXCEPT ![to] = @ \cup {c.x.to}])
          \/ UNCHANGED world /\ (Failed(i, None) \/ (there /\ c.x.kind = "mkdir" /\ Served(i, None)))
       [] c.op = "move" ->
          \/ /\ c.x.over \/ c.x.f \notin world.fs[c.x.place]
             /\ Does(i, [world.fs EXCEPT ![c.x.place] = @ \cup {c.x.f}])
          \/ UNCHANGED world /\ Failed(i, None)

Next ==
  \/ OpenDrawer \/ CloseDrawer \/ LeavePath \/ AskMkdir \/ CloseDialog \/ Confirm \/ Changed
  \/ Upload \/ Download \/ PickedUpload \/ PickedDownload \/ Downloaded \/ ConfirmOverwrite \/ Uploaded \/ Listed \/ Suggested \/ Serve
  \/ \E s \in Servers : Activate(s) \/ \E d \in Dirs : OpenPath(s, d)
  \/ \E d \in Dirs : Navigate(d) \/ TypePath(d)
  \/ \E f \in Names : AskDelete(f) \/ AskRename(f) \/ Submit(f)

-----------------------------------------------------------------------------
(* The files shown are those of the session and directory above them, and  *)
(* so are the suggestions.                                                 *)
FilesOfTheirPlace ==
  /\ Shown(page).of \in {None, <<page.host, ViewPath(page)>>}
  /\ page.mounted /\ page.sug.focus /\ ~page.sug.busy => Suggestions.of \in {None, <<page.host, page.sug.base>>}

FilesNotBusy == Quiet => /\ ~(page.view.host = page.host /\ page.view.busy)
                         /\ ~(page.mounted /\ page.sug.focus /\ page.sug.busy)

(* What was deleted, renamed, created or uploaded here is so in every list *)
(* kept, once the change has been heard of: a list asked for before does   *)
(* not bring a deleted file back.  (Unless the panel showed something else *)
(* by then, as the list that is dropped is that of what is shown, or the   *)
(* change was made and reported as failed.)                                *)
Changing(s) == \E i \in DOMAIN calls : /\ calls[i].op \in {"change", "move"}
                                       /\ s = IF calls[i].op = "change" THEN calls[i].x.host ELSE calls[i].x.place[1]
NothingComesBack == ~world.strayed => \A pl \in Places :
  page.cache[pl] # None /\ ~Changing(pl[1]) => page.cache[pl].names = world.fs[pl]

(* A file is deleted or renamed only on the host it was shown on, unless   *)
(* another session became active below the open dialog.                    *)
ChangedWhereAsked == ~world.crossed => \A i \in DOMAIN calls :
  calls[i].op = "change" => <<calls[i].x.host, calls[i].x.path>> = calls[i].x.asked
=============================================================================
