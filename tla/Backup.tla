-------------------------------- MODULE Backup --------------------------------
(***************************************************************************)
(* Backups: the dialog that exports and imports them (BackupModal), the    *)
(* named workspaces it keeps in the browser's storage                      *)
(* (backupWorkspaces, useNamedWorkspaces), and the backend, which keeps    *)
(* the plan of one import and applies it to the credentials and the        *)
(* configuration files, or to none of them.  A profile, a setting, a       *)
(* credential and a workspace are entries of their files: the own one, the *)
(* ones of an import, which are named by its token, and late ones.         *)
(***************************************************************************)
EXTENDS PageCalls

CONSTANT MaxImports   \* bound on the previews of an import

Own == 0
Late(k) == MaxImports + k

(* The files an import writes, in that order.                              *)
Written == <<"secrets", "profiles", "settings">>

(* busy is the dialog's running and the flag the window asks before it     *)
(* closes; shown is the preview.  stored is localStorage, saved the list   *)
(* the page shows.                                                         *)
Fresh == [n |-> 1, at |-> None, mode |-> None, busy |-> FALSE, shown |-> None, exported |-> FALSE, importing |-> FALSE]
Init ==
  /\ page = Fresh
  /\ calls = << >>
  /\ world = [stored |-> {Own}, saved |-> {Own}, files |-> [f \in ToSet(Written) |-> {Own}], plan |-> None,
              previews |-> 0, agreed |-> {}, edits |-> 0, stuck |-> FALSE, gone |-> FALSE, file |-> None]
  /\ acts = 0

-----------------------------------------------------------------------------
(* The page                                                                *)

(* openBackup; there is no settings draft, and no workspace being opened.   *)
Open(mode) == page.mode = None /\ Act
  /\ page' = [page EXCEPT !.mode = mode] /\ UNCHANGED <<calls, world>>

(* The dialog shows a form, the preview of an import, or what an export    *)
(* has skipped; its buttons are disabled while it is busy.                 *)
Form == page.mode # None /\ page.shown = None /\ ~page.exported /\ ~page.busy
Previewed == page.shown # None /\ ~page.busy

Discard(token) == Call("discard", token)
Unmounted(p) == [Fresh EXCEPT !.n = p.n + 1]

(* close: the effect discards the preview that is still there.             *)
Close == page.mode # None /\ ~page.busy /\ Act
  /\ page' = Unmounted(page)
  /\ Send(IF page.shown = None THEN << >> ELSE <<Discard(page.shown.token)>>)
  /\ UNCHANGED world

ChooseAgain == Previewed /\ Act
  /\ page' = [page EXCEPT !.shown = None] /\ Send(<<Discard(page.shown.token)>>) /\ UNCHANGED world

(* prepare                                                                 *)
Prepare == Form /\ Act
  /\ page' = [page EXCEPT !.busy = TRUE]
  /\ Send(<<Call(page.mode, [previous |-> world.stored])>>)
  /\ UNCHANGED world

Ended(p) == [p EXCEPT !.busy = FALSE]
PreviewAnswered == \E i \in DOMAIN calls :
  /\ Back(i, "import")
  /\ page' = IF calls[i].st = "failed" \/ calls[i].got = None THEN Ended(page)
             ELSE [Ended(page) EXCEPT !.shown = [token |-> calls[i].got.token, previous |-> calls[i].x.previous, next |-> calls[i].got.next]]
  /\ GoOn(i, << >>) /\ UNCHANGED <<world, acts>>

(* An export that was cancelled leaves the dialog; one with warnings shows *)
(* them.                                                                   *)
ExportAnswered == \E i \in DOMAIN calls :
  /\ Back(i, "export")
  /\ page' = IF calls[i].st = "failed" \/ calls[i].got = None THEN Ended(page)
             ELSE IF calls[i].got = "warned" THEN [Ended(page) EXCEPT !.exported = TRUE]
             ELSE Unmounted(page)
  /\ GoOn(i, << >>) /\ UNCHANGED <<world, acts>>

(* apply: restoreBackup and applyBackupWorkspaces reserve the storage      *)
(* before the backend is called.                                           *)
Apply == Previewed /\ Act
  /\ LET s == page.shown IN
     IF world.stored # s.previous
       THEN /\ page' = [page EXCEPT !.shown = None] /\ Send(<<Discard(s.token)>>)
            /\ UNCHANGED world
       ELSE /\ page' = [page EXCEPT !.busy = TRUE, !.importing = TRUE]
            /\ world' = [world EXCEPT !.stored = s.next, !.agreed = @ \cup {s.token}]
            /\ Send(<<Call("apply", [token |-> s.token, previous |-> s.previous])>>)

(* What is stored when the backend has refused: what was there before, if  *)
(* nobody has changed it since.                                            *)
PutBack(s) == IF world.stored = s.next THEN s.previous ELSE world.stored

ApplyAnswered == \E i \in DOMAIN calls :
  /\ Back(i, "apply")
  /\ LET s == page.shown IN
     IF calls[i].st = "ok"
       THEN /\ page' = Unmounted(page) /\ GoOn(i, << >>)
            /\ world' = [world EXCEPT !.saved = s.next]
       ELSE /\ page' = [Ended(page) EXCEPT !.shown = None, !.importing = FALSE]
            /\ world' = [world EXCEPT !.stored = PutBack(s)]
            /\ GoOn(i, <<Discard(s.token)>>)
  /\ UNCHANGED acts

Discarded == \E i \in DOMAIN calls :
  calls[i].op = "discard" /\ calls[i].st # "sent" /\ GoOn(i, << >>) /\ UNCHANGED <<page, world, acts>>

(* A workspace is saved or removed (persist): the dialog is not there.     *)
Persist(next) == page.mode = None /\ ~page.importing /\ next # world.saved /\ Act
  /\ world' = [world EXCEPT !.stored = next, !.saved = next] /\ UNCHANGED <<page, calls>>

(* The window is to be closed: it waits for a backup that is under way.    *)
CloseRequested == ~page.busy /\ ~world.gone /\ page.mode # None
  /\ world' = [world EXCEPT !.gone = TRUE] /\ UNCHANGED <<page, calls, acts>>

-----------------------------------------------------------------------------
(* The backend.  backupMu holds off one call while another is served.      *)

(* PreviewBackup: the file may be refused, or none be chosen.              *)
ServePreview(i) == Sent(i, "import") /\ UNCHANGED <<page, acts>>
  /\ \/ /\ world' = [world EXCEPT !.plan = None] /\ (Served(i, None) \/ Failed(i, None))
     \/ /\ world.previews < MaxImports
        /\ LET token == world.previews + 1  next == calls[i].x.previous \cup {token} IN
           /\ world' = [world EXCEPT !.previews = token, !.plan = [token |-> token, before |-> world.files,
                                     previous |-> calls[i].x.previous, expired |-> FALSE]]
           /\ Served(i, [token |-> token, next |-> next])

(* ExportBackup: the files are read under one lock.                        *)
ServeExport(i) == Sent(i, "export") /\ UNCHANGED <<page, acts>>
  /\ \/ (Served(i, None) \/ Failed(i, None)) /\ UNCHANGED world
     \/ /\ Served(i, "saved") \/ Served(i, "warned")
        /\ world' = [world EXCEPT !.file = [ws |-> calls[i].x.previous, files |-> world.files]]

(* DiscardBackupPreview                                                    *)
ServeDiscard(i) == Sent(i, "discard") /\ Served(i, None) /\ UNCHANGED <<page, acts>>
  /\ world' = [world EXCEPT !.plan = IF @ # None /\ @.token = calls[i].x THEN None ELSE @]

(* A preview is good for a quarter of an hour.                             *)
Expire == world.plan # None /\ ~world.plan.expired /\ Act
  /\ world' = [world EXCEPT !.plan.expired = TRUE] /\ UNCHANGED <<page, calls>>

(* Somebody else changes a file: a session's last use, a key of a host.    *)
Elsewhere(f) == Act /\ UNCHANGED <<page, calls>>
  /\ world' = [world EXCEPT !.files[f] = @ \cup {Late(world.edits + 1)}, !.edits = @ + 1]

(* ApplyMigration of the credentials around that of the files: the write   *)
(* number k fails (0: none), and what was written before it is put back,   *)
(* unless that fails too.                                                  *)
Migrated(files, token, k, stuck) == [f \in DOMAIN files |->
  IF k = 0 \/ (stuck /\ \E j \in 1..(k - 1) : Written[j] = f) THEN files[f] \cup {token} ELSE files[f]]

(* The plan is for this token, in time, for these workspaces; and no file  *)
(* has changed since, other than by credentials it does not write.         *)
Good(x) == /\ world.plan # None /\ world.plan.token = x.token /\ ~world.plan.expired /\ world.plan.previous = x.previous
           /\ \A f \in {"profiles", "settings"} : world.files[f] = world.plan.before[f]

ServeApply(i) == Sent(i, "apply") /\ UNCHANGED <<page, acts>>
  /\ LET x == calls[i].x  gone == [world EXCEPT !.plan = None] IN
     IF ~Good(x)
       THEN Failed(i, None) /\ world' = gone
       ELSE \E k \in 0..Len(Written), stuck \in BOOLEAN :
         /\ k < 2 => ~stuck
         /\ world' = [gone EXCEPT !.files = Migrated(@, x.token, k, stuck), !.stuck = @ \/ stuck]
         /\ IF k = 0 THEN Served(i, None) ELSE Failed(i, None)

Next == ~world.gone /\
  (\/ Close \/ ChooseAgain \/ Prepare \/ PreviewAnswered \/ ExportAnswered \/ Apply \/ ApplyAnswered \/ Discarded
   \/ CloseRequested \/ Expire
   \/ \E mode \in {"import", "export"} : Open(mode)
   \/ \E next \in {world.saved \cup {Own}, world.saved \ {Own}} : Persist(next)
   \/ \E f \in ToSet(Written) : Elsewhere(f)
   \/ \E i \in DOMAIN calls : ServePreview(i) \/ ServeExport(i) \/ ServeDiscard(i) \/ ServeApply(i))

-----------------------------------------------------------------------------
(* An import is in the workspaces, the credentials and every file, or in   *)
(* none of them, when it is over and when the window closes, unless        *)
(* putting back what was written has failed; only what was looked at is    *)
(* imported; nothing that came in between is lost by it; and the list of   *)
(* workspaces is what is stored.                                           *)
Applying == \E i \in DOMAIN calls : calls[i].op = "apply"
ImportWhole ==
  /\ (~Applying /\ ~world.stuck) => \A token \in 1..world.previews, f \in ToSet(Written) :
       token \in world.stored <=> token \in world.files[f]
  /\ \A f \in ToSet(Written) : world.files[f] \cap (1..world.previews) \subseteq world.agreed
  /\ ~Applying => world.stored = world.saved
  /\ world.gone => ~Applying
  /\ \A j \in 1..world.edits : \E f \in ToSet(Written) : Late(j) \in world.files[f]
=============================================================================
