------------------------------ MODULE ServerList ------------------------------
(***************************************************************************)
(* The saved servers: the list in the side, in its sections, the editor of *)
(* one server, the editor of several and the question before a deletion.   *)
(* Everything that changes a server writes a whole copy of it, the one the *)
(* page had, and reads the list anew when that is done.  What processes on *)
(* this computer may do to a server unasked is a trust with an end, which  *)
(* only the user's Yes gives; and a server that is reached through another *)
(* one names it.                                                           *)
(***************************************************************************)
EXTENDS PageCalls

CONSTANT Ids   \* of servers

Fresh == [fav |-> FALSE, trust |-> 0, last |-> FALSE, jump |-> None]   \* trust: the time it ends
Saved(ps) == {id \in Ids : ps[id] # None}
Of(ps, id) == IF id \in Saved(ps) THEN ps[id] ELSE Fresh

(* page.n counts the editors opened.  world.now: the time; world.agreed:   *)
(* up to when the user trusts each server; world.crossed: two readings of  *)
(* the list were under way at once; world.unread: the last one failed;     *)
(* world.under: an editor was saved below the question whether to delete.  *)
Init ==
  /\ \E two \in {SetToSeq(Ids)} : page = [n |-> 0, at |-> None, profiles |-> [id \in Ids |-> IF id = two[1] THEN [Fresh EXCEPT !.trust = 1]
                                    ELSE IF id = two[2] THEN [Fresh EXCEPT !.last = TRUE, !.jump = two[1]] ELSE None],
                     revoking |-> None, del |-> None, edit |-> None, bulk |-> None, folded |-> {"recent"}]
  /\ calls = << >> /\ acts = 0
  /\ world = [stored |-> page.profiles, now |-> 0, agreed |-> [id \in Ids |-> Of(page.profiles, id).trust],
              crossed |-> FALSE, unread |-> FALSE, under |-> FALSE]

-----------------------------------------------------------------------------
(* The list                                                                *)
Sections(ps) == [favorites |-> {id \in Saved(ps) : ps[id].fav}, recent |-> {id \in Saved(ps) : ps[id].last}, group |-> Saved(ps)]
Covered == page.edit # None \/ page.del # None \/ page.bulk # None
Row(id) == ~Covered /\ \E k \in DOMAIN Sections(page.profiles) \ page.folded : id \in Sections(page.profiles)[k]
ToggleGroup(k) == ~Covered /\ Sections(page.profiles)[k] # {} /\ Act /\ UNCHANGED <<calls, world>>
  /\ page' = [page EXCEPT !.folded = IF k \in @ THEN @ \ {k} ELSE @ \cup {k}]

(* One more reading of the list, after what has been done.                 *)
Reading == \E i \in DOMAIN calls : calls[i].op = "List"
Write(op, x) == Send(<<Call(op, x)>>)

ToggleFavorite(id) == Row(id) /\ Act /\ UNCHANGED <<page, world>>
  /\ Write("Update", [why |-> "favorite", id |-> id, to |-> [page.profiles[id] EXCEPT !.fav = ~@]])

Active(trust) == trust > world.now
RevokeTrust(id) == Row(id) /\ Active(page.profiles[id].trust) /\ page.revoking # id /\ Act /\ UNCHANGED world
  /\ page' = [page EXCEPT !.revoking = id] /\ Write("Revoke", [why |-> "revoke", id |-> id])

AskDelete(id) == Row(id) /\ Act /\ page' = [page EXCEPT !.del = [id |-> id, close |-> FALSE, busy |-> FALSE]] /\ UNCHANGED <<calls, world>>
ConfirmDelete == page.del # None /\ ~page.del.busy /\ page' = [page EXCEPT !.del.busy = TRUE] /\ UNCHANGED <<world, acts>>
  /\ Write("Delete", [why |-> "delete", id |-> page.del.id, close |-> page.del.close])
CancelDelete == page.del # None /\ ~page.del.busy /\ page' = [page EXCEPT !.del = None] /\ UNCHANGED <<calls, world, acts>>

-----------------------------------------------------------------------------
(* The editor of one server, or of a new one (no id).                      *)
Edit(id) == (IF id = None THEN ~Covered ELSE Row(id)) /\ Act /\ UNCHANGED <<calls, world>>
  /\ page' = [page EXCEPT !.n = @ + 1,
                          !.edit = [id |-> id, base |-> Of(page.profiles, id), draft |-> Of(page.profiles, id), bad |-> FALSE, saving |-> FALSE, discard |-> FALSE]]
Editing == page.edit # None /\ page.del = None /\ ~page.edit.discard
UsedAsJump(ps, id) == \E other \in Saved(ps) : other # id /\ ps[other].jump = id
JumpChoices == {None} \cup IF UsedAsJump(page.profiles, page.edit.id) THEN {}
                 ELSE {id \in Saved(page.profiles) : id # page.edit.id /\ page.profiles[id].jump = None}
(* bad: the host, the user, the alias or the port as typed will not do.    *)
Type == Editing /\ Act /\ UNCHANGED <<calls, world>>
  /\ \/ page' = [page EXCEPT !.edit.draft.fav = ~@]
     \/ \E until \in {0, world.now + 1, world.now + 2} : page' = [page EXCEPT !.edit.draft.trust = until]
     \/ \E id \in JumpChoices : page' = [page EXCEPT !.edit.draft.jump = id]
     \/ page' = [page EXCEPT !.edit.bad = ~@]

Dirty(e) == e.bad \/ e.draft # e.base
RequestClose == Editing /\ ~page.edit.saving /\ UNCHANGED <<calls, world, acts>>
  /\ page' = IF Dirty(page.edit) THEN [page EXCEPT !.edit.discard = TRUE] ELSE [page EXCEPT !.edit = None]
AnswerDiscard == page.edit # None /\ page.edit.discard /\ UNCHANGED <<calls, world, acts>>
  /\ (page' = [page EXCEPT !.edit = None] \/ page' = [page EXCEPT !.edit.discard = FALSE])

(* By its button or its key; only the question whether to discard stops    *)
(* the key.                                                                *)
Save == page.edit # None /\ ~page.edit.discard /\ ~page.edit.saving /\ ~page.edit.bad
  /\ page' = [page EXCEPT !.edit.saving = TRUE] /\ Act
  /\ world' = [world EXCEPT !.under = @ \/ page.del # None]
  /\ Write("Update", [why |-> "edit", id |-> page.edit.id, to |-> page.edit.draft])
DeleteEdited == Editing /\ page.edit.id # None /\ ~page.edit.saving /\ Act /\ UNCHANGED <<calls, world>>
  /\ page' = [page EXCEPT !.del = [id |-> page.edit.id, close |-> TRUE, busy |-> FALSE]]
Duplicate == Editing /\ page.edit.id # None /\ ~page.edit.saving /\ Act /\ UNCHANGED <<page, world>>
  /\ Write("Duplicate", [why |-> "duplicate", id |-> page.edit.id])

-----------------------------------------------------------------------------
(* The editor of several servers: what is chosen, and what for.            *)
OpenBulk == ~Covered /\ Act /\ page' = [page EXCEPT !.bulk = [ids |-> {}, fav |-> None, busy |-> FALSE, discard |-> FALSE]] /\ UNCHANGED <<calls, world>>
InBulk == page.bulk # None /\ ~page.bulk.busy /\ ~page.bulk.discard
Choose(ids) == InBulk /\ ids # page.bulk.ids /\ Act /\ page' = [page EXCEPT !.bulk.ids = ids] /\ UNCHANGED <<calls, world>>
Patch(fav) == InBulk /\ fav # page.bulk.fav /\ Act /\ page' = [page EXCEPT !.bulk.fav = fav] /\ UNCHANGED <<calls, world>>
SaveBulk == InBulk /\ page.bulk.ids # {} /\ page.bulk.fav # None /\ page' = [page EXCEPT !.bulk.busy = TRUE] /\ UNCHANGED <<world, acts>>
  /\ Write("Batch", [why |-> "bulk", ids |-> page.bulk.ids, fav |-> page.bulk.fav])
CloseBulk == InBulk /\ UNCHANGED <<calls, world, acts>>
  /\ page' = IF page.bulk.fav # None THEN [page EXCEPT !.bulk.discard = TRUE] ELSE [page EXCEPT !.bulk = None]
AnswerBulk == page.bulk # None /\ page.bulk.discard /\ UNCHANGED <<calls, world, acts>>
  /\ (page' = [page EXCEPT !.bulk = None] \/ page' = [page EXCEPT !.bulk.discard = FALSE])

-----------------------------------------------------------------------------
(* The store                                                               *)
NeedsConfirmation(previous, next) == Active(next) /\ (~Active(previous) \/ next > previous)
ValidJump(id, jump) == jump # None =>
  jump # id /\ jump \in Saved(world.stored) /\ world.stored[jump].jump = None /\ (id = None \/ ~UsedAsJump(world.stored, id))

(* The user's Yes or No, where one is needed.                              *)
Stores(i, id, to) == \E yes \in BOOLEAN : LET asked == NeedsConfirmation(Of(world.stored, id).trust, to.trust) IN
  /\ asked \/ yes
  /\ IF yes THEN Served(i, None) ELSE Failed(i, None)
  /\ world' = IF ~yes THEN world
              ELSE [world EXCEPT !.stored[id] = to, !.agreed[id] = IF asked \/ to.trust < @ THEN to.trust ELSE @]
Refused(i) == Failed(i, None) /\ UNCHANGED world
Unused == Ids \ Saved(world.stored)
Creates(i, to) == IF Unused = {} \/ ~ValidJump(None, to.jump) THEN Refused(i) ELSE Stores(i, CHOOSE id \in Unused : TRUE, to)

ServeUpdate(i) == Sent(i, "Update") /\ UNCHANGED <<page, acts>> /\ LET x == calls[i].x IN
  IF x.id = None THEN Creates(i, x.to)
  ELSE IF x.id \in Saved(world.stored) /\ ValidJump(x.id, x.to.jump) THEN Stores(i, x.id, x.to) ELSE Refused(i)
ServeDuplicate(i) == Sent(i, "Duplicate") /\ UNCHANGED <<page, acts>> /\ LET id == calls[i].x.id IN
  IF id \in Saved(world.stored) THEN Creates(i, [world.stored[id] EXCEPT !.trust = 0]) ELSE Refused(i)
ServeRevoke(i) == Sent(i, "Revoke") /\ UNCHANGED <<page, acts>> /\ LET id == calls[i].x.id IN
  IF id \in Saved(world.stored) THEN Served(i, None) /\ world' = [world EXCEPT !.stored[id].trust = 0, !.agreed[id] = 0] ELSE Refused(i)
(* A server that was reached through the deleted one is reached directly.  *)
ServeDelete(i) == Sent(i, "Delete") /\ Served(i, None) /\ UNCHANGED <<page, acts>>
  /\ world' = [world EXCEPT !.agreed[calls[i].x.id] = 0, !.stored = [id \in Ids |-> IF id = calls[i].x.id \/ @[id] = None THEN None
                                      ELSE IF @[id].jump = calls[i].x.id THEN [@[id] EXCEPT !.jump = None] ELSE @[id]]]
ServeBatch(i) == Sent(i, "Batch") /\ UNCHANGED <<page, acts>> /\ LET x == calls[i].x IN
  IF x.ids \subseteq Saved(world.stored)
  THEN Served(i, None) /\ world' = [world EXCEPT !.stored = [id \in Ids |-> IF id \in x.ids THEN [@[id] EXCEPT !.fav = x.fav] ELSE @[id]]]
  ELSE Refused(i)
ServeList(i) == Sent(i, "List") /\ (Served(i, world.stored) \/ Failed(i, None)) /\ UNCHANGED <<page, world, acts>>

Connected(id) == id \in Saved(world.stored) /\ ~world.stored[id].last /\ Act /\ world' = [world EXCEPT !.stored[id].last = TRUE] /\ UNCHANGED <<page, calls>>
Tick == world.now = 0 /\ Act /\ world' = [world EXCEPT !.now = 1] /\ UNCHANGED <<page, calls>>

-----------------------------------------------------------------------------
(* What follows: the list is read, and then what asked for it goes on.     *)
Over(i, op) == i \in DOMAIN calls /\ calls[i].st # "sent" /\ calls[i].op = op
(* An editor is told only of its own save; the dialogs cannot close before *)
(* they are told.                                                          *)
GaveUp(p, c) == CASE c.x.why = "edit" /\ c.of = p.n /\ p.edit # None -> [p EXCEPT !.edit.saving = FALSE]
  [] c.x.why = "revoke" -> [p EXCEPT !.revoking = None]
  [] c.x.why = "delete" -> [p EXCEPT !.del.busy = FALSE]
  [] c.x.why = "bulk" -> [p EXCEPT !.bulk.busy = FALSE]
  [] OTHER -> p
Finished(p, c) == CASE c.x.why = "edit" -> [p EXCEPT !.edit = None]
  [] c.x.why = "revoke" -> [p EXCEPT !.revoking = None]
  [] c.x.why = "delete" -> [p EXCEPT !.del = None, !.edit = IF c.x.close THEN None ELSE @]
  [] c.x.why = "bulk" -> [p EXCEPT !.bulk = None]
  [] OTHER -> p

Wrote(i) == (\E op \in {"Update", "Duplicate", "Revoke", "Delete", "Batch"} : Over(i, op)) /\ UNCHANGED acts
  /\ IF calls[i].st = "ok"
     THEN /\ GoOn(i, <<[calls[i] EXCEPT !.op = "List", !.st = "sent", !.got = None]>>) /\ UNCHANGED page
          /\ world' = [world EXCEPT !.crossed = @ \/ Reading]
     ELSE GoOn(i, << >>) /\ page' = GaveUp(page, calls[i]) /\ UNCHANGED world
Listed(i) == Over(i, "List") /\ GoOn(i, << >>) /\ UNCHANGED acts
  /\ world' = [world EXCEPT !.unread = calls[i].st = "failed"]
  /\ page' = IF calls[i].st = "ok" THEN Finished([page EXCEPT !.profiles = calls[i].got], calls[i]) ELSE GaveUp(page, calls[i])

Next ==
  \/ \E k \in {"favorites", "recent", "group"} : ToggleGroup(k)
  \/ \E id \in Ids : ToggleFavorite(id) \/ RevokeTrust(id) \/ AskDelete(id) \/ Connected(id)
  \/ \E id \in Ids \cup {None} : Edit(id)
  \/ ConfirmDelete \/ CancelDelete \/ Type \/ RequestClose \/ AnswerDiscard \/ Save \/ DeleteEdited \/ Duplicate
  \/ OpenBulk \/ SaveBulk \/ CloseBulk \/ AnswerBulk \/ Tick
  \/ \E ids \in SUBSET Saved(page.profiles) : Choose(ids)
  \/ \E fav \in BOOLEAN \cup {None} : Patch(fav)
  \/ \E i \in DOMAIN calls : ServeUpdate(i) \/ ServeDuplicate(i) \/ ServeRevoke(i) \/ ServeDelete(i) \/ ServeBatch(i) \/ ServeList(i) \/ Wrote(i) \/ Listed(i)

-----------------------------------------------------------------------------
(* No process is trusted for longer than the user agreed to, though copies *)
(* older than a revocation are written back; and a server is reached       *)
(* through at most one other, which is there.                              *)
TrustAsAgreed == \A id \in Saved(world.stored) :
  /\ Active(world.stored[id].trust) => world.stored[id].trust <= world.agreed[id]
  /\ world.stored[id].jump # None => world.stored[id].jump \in Saved(world.stored) \ {id} /\ world.stored[world.stored[id].jump].jump = None

(* When all is answered nothing is disabled, and the list is the one that  *)
(* is stored (unless two readings crossed, or the last one failed).        *)
Lasts(ps) == [id \in Ids |-> IF ps[id] = None THEN None ELSE [ps[id] EXCEPT !.last = TRUE]]
ListNotBusy == Quiet =>
  /\ page.revoking = None
  /\ page.del # None => ~page.del.busy
  /\ page.edit # None => ~page.edit.saving
  /\ page.bulk # None => ~page.bulk.busy
  /\ world.crossed \/ world.unread \/ Lasts(page.profiles) = Lasts(world.stored)

(* The editor goes with changes in it only when they are saved, when the   *)
(* user was asked, or with the server (unless it was saved below that      *)
(* question).                                                              *)
EditKept == page.edit # None /\ Dirty(page.edit) /\ (page'.edit = None \/ page'.n # page.n) =>
  \/ page.edit.discard \/ world.under
  \/ page.del # None /\ page.del.busy /\ page.del.close
  \/ \E i \in DOMAIN calls : calls[i].x.why = "edit" /\ calls[i].of = page.n /\ calls[i].st = "ok" /\ calls[i].op = "List"
=============================================================================
