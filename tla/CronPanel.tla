----------------------------- MODULE CronPanel -----------------------------
(***************************************************************************)
(* The panel of the cron jobs of a host: its list, the actions on a job,   *)
(* and the editor of one job with its draft.  A crontab is a sequence of   *)
(* lines, each a number for its text; that a line may be disabled is left  *)
(* out.  The id of a job tells its text, and which of the lines with this  *)
(* text it is.                                                             *)
(***************************************************************************)
EXTENDS ProfileDraft

Empty == 0              \* the command of a new job before it is typed
NewJob == <<Empty, 0>>  \* the id of a job that is not in the crontab yet
There == MaxActs + 1    \* the line a crontab begins with

Fresh(n, s) == [n |-> n, at |-> s, jobs |-> {}, loading |-> TRUE, seq |-> 1, busy |-> None, armed |-> None,
                ask |-> None, saving |-> FALSE]

Ask(p) == [p EXCEPT !.seq = @ + 1, !.loading = TRUE]
List == Call("list", page.seq + 1)
Listed(p, c) == IF c.x # p.seq THEN p
                ELSE [p EXCEPT !.loading = FALSE, !.jobs = IF c.st = "ok" THEN c.got ELSE {}]

RefreshClicked == ~page.loading /\ page.ask = None /\ Act /\ page' = Ask(page) /\ Send(<<List>>) /\ UNCHANGED world
ListAnswered == \E i \in DOMAIN calls :
  Back(i, "list") /\ GoOn(i, << >>) /\ page' = Listed(page, calls[i]) /\ UNCHANGED <<world, acts>>

(* openNew, openEdit and closeEditor, each behind the question.            *)
Run(go) == SetDraft(CASE go.act = "new" -> NewDraft(NewJob, Empty)
                      [] go.act = "edit" -> NewDraft(go.job, go.job[1])
                      [] go.act = "close" -> None)
Editor == Draft # None /\ page.ask = None
Free(j) == page.busy # j /\ page.ask = None
Question == page.ask # None /\ ~page.saving
Guard(go) == page.ask = None /\ Act /\ UNCHANGED calls
  /\ IF Dirty(Draft) THEN page' = [page EXCEPT !.ask = go] /\ UNCHANGED world
     ELSE Run(go) /\ UNCHANGED page
OpenNew == Guard([act |-> "new"])
OpenEdit == \E j \in page.jobs : Guard([act |-> "edit", job |-> j])
CloseEditor == Editor /\ Guard([act |-> "close"])
Type == Editor /\ Act /\ SetDraft(Typed) /\ UNCHANGED <<page, calls>>

(* The dialog: cancel, discard, or save and then go on.                    *)
Cancel == Question /\ page' = [page EXCEPT !.ask = None] /\ UNCHANGED <<calls, world, acts>>
Discard == Question /\ Act
  /\ Run(page.ask) /\ page' = [page EXCEPT !.ask = None] /\ UNCHANGED calls
Persist(op) == Call(op, [draft |-> Draft])
SaveFromPrompt == Question /\ Draft # None /\ Act /\ UNCHANGED world
  /\ page' = [page EXCEPT !.saving = TRUE, !.busy = Draft.item] /\ Send(<<Persist("promptSave")>>)
Save == Editor /\ page.busy = None /\ Act /\ UNCHANGED world
  /\ page' = [page EXCEPT !.busy = Draft.item] /\ Send(<<Persist("save")>>)

(* The answer of a save: the draft is retired if it is still the one that  *)
(* was sent, and then the list is asked for again.                         *)
SaveAnswered == \E i \in DOMAIN calls : LET c == calls[i] IN
  /\ c.op \in {"save", "promptSave"} /\ c.st # "sent" /\ UNCHANGED acts
  /\ world' = IF c.st = "ok" THEN Retired(c) ELSE world
  /\ IF MayGoOn(c)
     THEN /\ page' = Ask([page EXCEPT !.busy = None])
          /\ GoOn(i, <<[List EXCEPT !.op = IF c.op = "save" THEN "list" ELSE "listThenRun"]>>)
     ELSE /\ page' = IF c.of # page.n THEN page
                     ELSE [page EXCEPT !.busy = None, !.saving = IF c.op = "promptSave" THEN FALSE ELSE @]
          /\ GoOn(i, << >>)
ListedThenRun == \E i \in DOMAIN calls :
  /\ Back(i, "listThenRun") /\ GoOn(i, << >>) /\ UNCHANGED acts
  /\ page' = [Listed(page, calls[i]) EXCEPT !.ask = None, !.saving = FALSE]
  /\ Run(page.ask)

(* toggle, run and remove, which takes two clicks.                         *)
Press(j, op) == Free(j) /\ Act /\ UNCHANGED world
  /\ IF op = "remove" /\ page.armed # j THEN page' = [page EXCEPT !.armed = j] /\ UNCHANGED calls
     ELSE /\ page' = [page EXCEPT !.busy = j, !.armed = IF op = "remove" THEN None ELSE @]
          /\ Send(<<Call("act", [act |-> op, job |-> j])>>)
ArmExpires == page.armed # None /\ page' = [page EXCEPT !.armed = None] /\ UNCHANGED <<calls, world, acts>>
(* Toggling and removing list again before the row is free; running does not. *)
ActAnswered == \E i \in DOMAIN calls : LET c == calls[i] IN
  /\ Back(i, "act") /\ UNCHANGED <<world, acts>>
  /\ IF c.st = "ok" /\ c.x.act # "run"
     THEN page' = Ask(page) /\ GoOn(i, <<[List EXCEPT !.op = "listAfter"]>>)
     ELSE page' = [page EXCEPT !.busy = None] /\ GoOn(i, << >>)
ListedAfter == \E i \in DOMAIN calls :
  /\ Back(i, "listAfter") /\ GoOn(i, << >>) /\ UNCHANGED <<world, acts>>
  /\ page' = [Listed(page, calls[i]) EXCEPT !.busy = None]

(* The panel is unmounted and mounted, for this session or another one:    *)
(* the question goes with it, the draft stays.                             *)
Remount(s) == Act /\ UNCHANGED world
  /\ page' = Fresh(page.n + 1, s)
  /\ Send(<<[Call("list", 1) EXCEPT !.of = page.n + 1, !.at = s]>>)

-----------------------------------------------------------------------------
Id(lines, k) == <<lines[k], Cardinality({m \in 1..k : lines[m] = lines[k]})>>
Place(lines, id) == {k \in DOMAIN lines : Id(lines, k) = id}

ServeList == \E i \in DOMAIN calls : LET lines == world.lines[Profile(calls[i].at)] IN
  /\ calls[i].st = "sent" /\ calls[i].op \in {"list", "listAfter", "listThenRun"}
  /\ UNCHANGED <<page, world, acts>>
  /\ Served(i, {Id(lines, k) : k \in DOMAIN lines}) \/ Failed(i, None)

(* Every change reads the whole crontab and writes it back, in a command   *)
(* each: what another call writes in between is lost.  A job with no       *)
(* command is refused before.                                              *)
ReadLines == \E i \in DOMAIN calls : LET c == calls[i] IN
  /\ c.st = "sent" /\ c.op \in {"save", "promptSave", "act"} /\ c.got = None
  /\ UNCHANGED <<page, world, acts>>
  /\ \/ /\ c.op # "act" => c.x.draft.text # Empty
        /\ calls' = [calls EXCEPT ![i].got = world.lines[Profile(c.at)]]
     \/ Failed(i, None)

(* The crontab a call writes; none if its job is no longer there.          *)
Written(c) ==
  CASE c.op # "act" /\ c.x.draft.item = NewJob -> {Append(c.got, c.x.draft.text)}
    [] c.op # "act" -> {[c.got EXCEPT ![k] = c.x.draft.text] : k \in Place(c.got, c.x.draft.item)}
    [] c.x.act = "remove" -> {RemoveAt(c.got, k) : k \in Place(c.got, c.x.job)}
    [] c.x.act = "toggle" -> {c.got : k \in Place(c.got, c.x.job)}
    [] OTHER -> {}
(* A job runs, or is what it is told to be already: nothing is written.    *)
NothingToWrite(c) == c.op = "act" /\ c.x.act \in {"run", "toggle"} /\ Place(c.got, c.x.job) # {}

WriteLines == \E i \in DOMAIN calls : LET c == calls[i] IN
  /\ c.st = "sent" /\ c.got # None /\ UNCHANGED <<page, acts>>
  /\ \/ /\ \E lines \in Written(c) : world' = [world EXCEPT
             !.lines[Profile(c.at)] = lines,
             !.saved = IF c.op = "act" THEN @ ELSE @ \cup {<<Profile(c.at), c.x.draft.item, c.x.draft.text>>}]
        /\ Served(i, None) \/ Failed(i, None)
     \/ UNCHANGED world /\ (Failed(i, None) \/ (NothingToWrite(c) /\ Served(i, None)))

Init == \E s \in HostSessions :
  /\ page = Fresh(1, s)
  /\ calls = <<[of |-> 1, at |-> s, op |-> "list", x |-> 1, st |-> "sent", got |-> None]>>
  /\ world = [lines |-> [p \in Profiles |-> <<There>>], drafts |-> [p \in Profiles |-> None], saved |-> {}]
  /\ acts = 1

Next ==
  \/ RefreshClicked \/ ListAnswered \/ OpenNew \/ OpenEdit \/ CloseEditor \/ Type \/ Cancel \/ Discard
  \/ SaveFromPrompt \/ Save \/ SaveAnswered \/ ListedThenRun \/ ArmExpires \/ ActAnswered \/ ListedAfter
  \/ ServeList \/ ReadLines \/ WriteLines
  \/ \E j \in page.jobs, op \in {"toggle", "run", "remove"} : Press(j, op)
  \/ \E s \in HostSessions : Remount(s)
  \/ Unheard({"save", "promptSave"})

-----------------------------------------------------------------------------
(* Nothing is left spinning when every call is answered.                   *)
NotBusy == Quiet => page.busy = None /\ ~page.loading /\ ~page.saving
=============================================================================
