------------------------------ MODULE Document ------------------------------
(***************************************************************************)
(* One document in a tab: reading it, editing a draft, checking and        *)
(* formatting JSON, saving against the version that was read, the question *)
(* when the file has changed on disk, and the question when the tab is     *)
(* closed with changes.  A text stands for its characters and its line     *)
(* ending; its version is its fingerprint, that is the text itself.        *)
(***************************************************************************)
EXTENDS PageCalls

CONSTANTS
    Docs,        \* the documents, by their path
    Folders,     \* a partition of them, a list for each folder
    MaxRecent    \* bound on the recent documents that are kept

Formatted(text) == text + 100
OnDisk == 50   \* what other programs write is told apart from what is typed

Init ==
  /\ page \in {[n |-> 1, at |-> None, open |-> TRUE, json |-> j, loading |-> TRUE, gen |-> 1, error |-> FALSE,
                text |-> 0, draft |-> 0, version |-> None, editing |-> FALSE, confirm |-> FALSE,
                conflict |-> None, lastConflict |-> None, save |-> None, format |-> None, prompt |-> None] : j \in BOOLEAN}
  /\ calls = <<Call("read", 1)>>
  /\ world = [disk |-> OnDisk, saved |-> {}, base |-> None, chosen |-> FALSE, crossed |-> FALSE, lost |-> FALSE]
  /\ acts = 0

-----------------------------------------------------------------------------
Dirty(p) == p.editing /\ p.draft # p.text
(* The page shows one of: the spinner, an error alone, the document.       *)
Ready == page.open /\ ~page.loading /\ ~page.error
(* The dialogs, the one on top first: below one nothing can be clicked.    *)
Conflict == Ready /\ page.conflict # None
Prompt == page.open /\ page.prompt = "asked" /\ ~Conflict
Confirm == Ready /\ page.confirm
Clear == Ready /\ page.conflict = None /\ page.prompt = None /\ ~page.confirm

Loading(p) == [p EXCEPT !.loading = TRUE, !.gen = @ + 1]
Discarded(p) == [p EXCEPT !.confirm = FALSE, !.format = None, !.draft = p.text, !.editing = FALSE]
Closed(p) == [p EXCEPT !.open = FALSE, !.n = @ + 1]

WriteCall(p) == LET s == p.save IN
  Call("write", [text |-> s.text, expected |-> IF s.over = None THEN p.version ELSE s.over, known |-> {s.base, s.over}])

-----------------------------------------------------------------------------
Refresh == Clear /\ ~page.editing /\ Act
  /\ page' = Loading(page) /\ Send(<<Call("read", page.gen + 1)>>) /\ UNCHANGED world

Read == \E i \in DOMAIN calls : Back(i, "read") /\ GoOn(i, << >>) /\ UNCHANGED acts
  /\ LET c == calls[i] latest == c.x = page.gen IN
     /\ page' = IF ~latest THEN page
                ELSE IF c.st = "failed" THEN [page EXCEPT !.error = TRUE, !.loading = FALSE]
                ELSE [page EXCEPT !.version = c.got, !.text = c.got, !.draft = c.got, !.error = FALSE, !.loading = FALSE]
     /\ world' = IF latest /\ c.st = "ok"
                 THEN [world EXCEPT !.base = c.got, !.crossed = @ \/ page.save # None] ELSE world

(* The tab goes on over another session, under its new id.                 *)
SessionChanged == page.open /\ Act /\ UNCHANGED world
  /\ IF page.editing \/ page.save # None
     THEN page' = [page EXCEPT !.gen = @ + 1, !.loading = FALSE] /\ UNCHANGED calls
     ELSE /\ page' = [Loading(page) EXCEPT !.editing = FALSE, !.confirm = FALSE, !.conflict = None]
          /\ Send(<<Call("read", page.gen + 1)>>)

StartEdit == Clear /\ ~page.editing /\ UNCHANGED <<calls, world, acts>>
  /\ page' = [page EXCEPT !.draft = page.text, !.editing = TRUE]
Type == Clear /\ page.editing /\ Act /\ page' = [page EXCEPT !.draft = acts + 1] /\ UNCHANGED <<calls, world>>
CancelEdit == Clear /\ page.editing /\ page.save = None /\ UNCHANGED <<calls, world, acts>>
  /\ page' = IF Dirty(page) THEN [page EXCEPT !.confirm = TRUE] ELSE Discarded(page)
ConfirmDiscard == Confirm /\ page' = Discarded(page) /\ UNCHANGED <<calls, world, acts>>
CloseConfirm == Confirm /\ page' = [page EXCEPT !.confirm = FALSE] /\ UNCHANGED <<calls, world, acts>>

-----------------------------------------------------------------------------
FormatJson == Clear /\ page.editing /\ page.json /\ page.format = None /\ page.save = None /\ Act
  /\ page' = [page EXCEPT !.format = acts + 1]
  /\ Send(<<Call("format", [id |-> acts + 1, text |-> page.draft])>>) /\ UNCHANGED world

FormatDone == \E i \in DOMAIN calls : Back(i, "format") /\ GoOn(i, << >>) /\ UNCHANGED <<world, acts>>
  /\ LET c == calls[i] fits == page.editing /\ page.draft = c.x.text /\ c.st = "ok" IN
     page' = IF page.format # c.x.id THEN page
             ELSE [page EXCEPT !.format = None, !.draft = IF fits THEN Formatted(@) ELSE @]

(* Whoever saves while a save is in flight waits for that one.             *)
Save(who, over) == LET p == [page EXCEPT !.prompt = IF who = "prompt" THEN "saving" ELSE @]
                       q == [p EXCEPT !.format = None,
                               !.save = [text |-> p.draft, over |-> over, base |-> world.base, for |-> {who}]] IN
  IF page.save # None
  THEN page' = [p EXCEPT !.save.for = @ \cup {who}] /\ UNCHANGED <<calls, world>>
  ELSE page' = q /\ Send(<<IF page.json THEN Call("validate", None) ELSE WriteCall(q)>>) /\ UNCHANGED world

SaveOver(p, ok) == LET who == p.save.for q == [p EXCEPT !.save = None] IN
  IF "prompt" \in who THEN IF ok THEN Closed(q) ELSE [q EXCEPT !.prompt = "asked"]
  ELSE IF "overwrite" \in who THEN [q EXCEPT !.conflict = p.lastConflict]
  ELSE q

(* The save button, or the key in the editor.                              *)
SaveClicked == Clear /\ page.editing /\ Act /\ Save("editor", None)

Validated == \E i \in DOMAIN calls : Back(i, "validate") /\ UNCHANGED <<world, acts>>
  /\ IF calls[i].st = "ok" THEN UNCHANGED page /\ GoOn(i, <<WriteCall(page)>>)
     ELSE page' = SaveOver(page, FALSE) /\ GoOn(i, << >>)

Written == \E i \in DOMAIN calls : Back(i, "write") /\ GoOn(i, << >>) /\ UNCHANGED acts
  /\ LET c == calls[i] s == page.save current == page.draft = s.text
         saved == [page EXCEPT !.lastConflict = None, !.version = s.text, !.text = s.text, !.editing = @ /\ ~current] IN
     IF c.st = "failed" THEN page' = SaveOver(page, FALSE) /\ UNCHANGED world
     ELSE IF c.got # c.x.text   \* the version found on disk instead
     THEN page' = SaveOver([page EXCEPT !.lastConflict = c.got, !.conflict = c.got], FALSE) /\ UNCHANGED world
     ELSE page' = SaveOver(saved, current) /\ world' = [world EXCEPT !.base = s.text, !.saved = @ \cup {s.text}]

ReloadConflict == Conflict /\ page.save = None /\ Act
  /\ page' = [Loading(page) EXCEPT !.conflict = None] /\ Send(<<Call("read", page.gen + 1)>>)
  /\ world' = [world EXCEPT !.chosen = TRUE]
OverwriteConflict == Conflict /\ page.save = None /\ Act /\ Save("overwrite", page.conflict)
KeepEditing == Conflict /\ page.save = None /\ page' = [page EXCEPT !.conflict = None] /\ UNCHANGED <<calls, world, acts>>

-----------------------------------------------------------------------------
CloseTab == page.open /\ ~Conflict /\ ~Confirm /\ page.prompt = None /\ Act /\ UNCHANGED <<calls, world>>
  /\ page' = IF Dirty(page) THEN [page EXCEPT !.prompt = "asked"] ELSE Closed(page)
PromptCancel == Prompt /\ page' = [page EXCEPT !.prompt = None] /\ UNCHANGED <<calls, world, acts>>
PromptDiscard == Prompt /\ page' = Closed(page) /\ UNCHANGED <<calls, world, acts>>
(* Without changes the handle that saves is gone, and saving fails.        *)
PromptSave == Prompt /\ Dirty(page) /\ Save("prompt", None) /\ UNCHANGED acts

-----------------------------------------------------------------------------
ElsewhereWritten == Act /\ world' = [world EXCEPT !.disk = OnDisk + acts + 1] /\ UNCHANGED <<page, calls>>

(* A save reads the file, compares it with the version it expects, and     *)
(* replaces it: in between another program may write.  (A local file is    *)
(* looked at once more before it is replaced, a remote one is not.)        *)
Serve == \E i \in DOMAIN calls : calls[i].st = "sent" /\ UNCHANGED <<page, acts>>
  /\ LET c == calls[i] IN
     \/ Failed(i, None) /\ UNCHANGED world
     \/ c.op \in {"read", "validate", "format"} /\ Served(i, world.disk) /\ UNCHANGED world
     \/ /\ c.op = "write" /\ c.got = None /\ UNCHANGED world
        /\ IF c.x.expected # world.disk THEN Served(i, world.disk) ELSE calls' = [calls EXCEPT ![i].got = world.disk]
     \/ /\ c.op = "write" /\ c.got # None /\ (Served(i, c.x.text) \/ Failed(i, None))
        /\ world' = [world EXCEPT !.disk = c.x.text, !.lost = @ \/ world.disk \notin c.x.known,
                                  !.crossed = @ \/ world.disk # c.got]

Next ==
  \/ Refresh \/ Read \/ SessionChanged \/ StartEdit \/ Type \/ CancelEdit \/ ConfirmDiscard \/ CloseConfirm
  \/ FormatJson \/ FormatDone \/ SaveClicked \/ Validated \/ Written
  \/ ReloadConflict \/ OverwriteConflict \/ KeepEditing
  \/ CloseTab \/ PromptCancel \/ PromptDiscard \/ PromptSave
  \/ ElsewhereWritten \/ Serve \/ Unheard({})

-----------------------------------------------------------------------------
(* A draft with changes goes only when just that draft has been saved,     *)
(* when the user has said to discard it, or has chosen the version on disk *)
(* over it; and formatting replaces only the draft it was given.           *)
DraftKept == Dirty(page) =>
  /\ \/ page'.open /\ page'.editing /\ page'.draft # page'.text
     \/ page.draft \in world'.saved
     \/ page.confirm \/ page.prompt = "asked"
     \/ page.loading /\ world.chosen
     \/ page'.open /\ page'.editing /\ page'.text = page.text   \* typed back
  /\ page'.draft > 100 /\ page'.draft \notin {page.draft, page'.text} => page'.draft = Formatted(page.draft)

(* A save replaces only the text that the draft began with, or the one the *)
(* user was told about and chose to overwrite; as long as no other reading *)
(* ended while the save was being checked, and no other program wrote the  *)
(* file between the check and the replacement.                             *)
OnlyKnownReplaced == ~world.crossed => ~world.lost

(* When every call is answered nothing is loading, saving or formatting.   *)
DocumentNotBusy == Quiet /\ page.open =>
  ~page.loading /\ page.save = None /\ page.format = None /\ page.prompt # "saving"

-----------------------------------------------------------------------------
(***************************************************************************)
(* The tabs of local documents beside one terminal: bringing back those of *)
(* the last run, opening documents from a dialog, the list of recent ones, *)
(* the folder's list or another program, saving the list of open ones for  *)
(* the next run, and listing the folder of the active one.  The program    *)
(* may be quit at any time; the next run begins with what was saved.       *)
(***************************************************************************)

Terminal == "terminal"   \* the tab that is no document

Fresh(saved, recent) ==
  [n |-> 1, at |-> None, tabs |-> << >>, active |-> None, chose |-> FALSE, opened |-> FALSE, ready |-> saved.docs = << >>,
   last |-> saved, recent |-> recent,
   list |-> [of |-> None, files |-> {}, busy |-> FALSE], request |-> 0]

Restore(saved) ==
  IF saved.docs = << >> THEN << >>
  ELSE <<[of |-> 1, at |-> None, op |-> "restore", x |-> saved.docs, st |-> "sent", got |-> None]>>

(* mine: what is open for the user, also across runs; late: opened before  *)
(* this run had brought back the others.                                   *)
TabsInit == \E docs \in {<< >>, SetToSeq(Docs)}, d \in Docs :
  LET saved == [docs |-> docs, active |-> IF docs = << >> THEN None ELSE d] IN
  /\ page = Fresh(saved, << >>)
  /\ calls = Restore(saved)
  /\ world = [saved |-> saved, exist |-> Docs, mine |-> ToSet(docs), late |-> {}]
  /\ acts = 0

-----------------------------------------------------------------------------
Folder(d) == IF d \in Docs THEN CHOOSE f \in Folders : d \in f ELSE None

(* refreshMarkdownSiblings: the files of the same folder are kept meanwhile. *)
RefreshSiblings(p) == LET f == Folder(p.active) IN
  IF f = None THEN p
  ELSE [p EXCEPT !.request = @ + 1, !.list = [of |-> f, files |-> IF @.of = f THEN @.files ELSE {}, busy |-> TRUE]]
ListCall(p) == IF Folder(p.active) = None THEN << >> ELSE <<Call("list", [of |-> Folder(p.active), request |-> p.request])>>

(* The effects of a render: another folder is listed, and when everything  *)
(* has been brought back the tabs are saved.                               *)
Rendered(q) == LET moved == Folder(q.active) # Folder(page.active) IN
  IF moved THEN RefreshSiblings([q EXCEPT !.request = @ + 1]) ELSE q
Listing(q, p) == IF Folder(q.active) # Folder(page.active) THEN ListCall(p) ELSE << >>
Saved(p) == IF p.ready THEN [docs |-> p.tabs, active |-> IF p.active \in Docs THEN p.active ELSE None] ELSE world.saved

Shows(q, mine) == LET p == Rendered(q) IN
  /\ page' = p
  /\ world' = [world EXCEPT !.saved = Saved(p), !.mine = mine, !.late = IF p.ready THEN {} ELSE mine \ ToSet(p.last.docs)]

SetActive(p, t) == [p EXCEPT !.active = t, !.chose = TRUE]

(* rememberMarkdown: the last one first, and not too many.                 *)
Remembered(recent, d) == LET r == <<d>> \o Remove(recent, d) IN
  IF Len(r) > MaxRecent THEN SubSeq(r, 1, MaxRecent) ELSE r

(* openMarkdownFile: a document has one tab.                               *)
Opened(p, d) == SetActive([p EXCEPT !.opened = TRUE, !.recent = Remembered(@, d),
                                    !.tabs = IF d \in ToSet(@) THEN @ ELSE Append(@, d)], d)

-----------------------------------------------------------------------------
(* What is open already is not opened a second time.                       *)
Added(tabs, docs) == tabs \o SelectSeq(docs, LAMBDA d : d \notin ToSet(tabs))

(* RestoreTextFiles; the active document of the last run is shown unless   *)
(* a document was opened, or any tab was chosen, in the meantime.          *)
Restored == \E i \in DOMAIN calls : Back(i, "restore") /\ UNCHANGED acts
  /\ LET got == calls[i].got
         q == [page EXCEPT !.ready = TRUE, !.tabs = Added(@, got)]
         p == IF got # << >> /\ page.last.active \in ToSet(q.tabs) /\ ~page.opened /\ ~page.chose
              THEN [q EXCEPT !.active = page.last.active] ELSE q IN
     /\ Shows(p, (world.mine \ ToSet(page.last.docs)) \cup ToSet(q.tabs)) /\ GoOn(i, Listing(p, page'))

Arrived(i, p) == Shows(p, world.mine \cup ToSet(p.tabs)) /\ GoOn(i, Listing(p, page'))

(* A file of the folder's list, one dropped on the window, or one another  *)
(* program opens with this one.                                            *)
OpenMarkdownFile(d) == d \in world.exist /\ Act
  /\ LET p == Opened(page, d) IN Shows(p, world.mine \cup {d}) /\ Send(Listing(p, page'))

(* The dialog to choose a file, and the question before a recent one.      *)
HandleOpenMarkdown == Act /\ Send(<<Call("open", None)>>) /\ UNCHANGED <<page, world>>
HandleOpenRecent(d) == d \in ToSet(page.recent) /\ Act /\ Send(<<Call("open", d)>>) /\ UNCHANGED <<page, world>>
HandleRemoveRecent(d) == d \in ToSet(page.recent) /\ Act
  /\ page' = [page EXCEPT !.recent = Remove(@, d)] /\ UNCHANGED <<calls, world>>

Chosen == \E i \in DOMAIN calls : Back(i, "open") /\ UNCHANGED acts
  /\ IF calls[i].st = "ok" /\ calls[i].got # None THEN Arrived(i, Opened(page, calls[i].got))
     ELSE GoOn(i, << >>) /\ UNCHANGED <<page, world>>

Activate(t) == t \in {Terminal} \cup ToSet(page.tabs) /\ t # page.active /\ Act
  /\ LET p == SetActive(page, t) IN Shows(p, world.mine) /\ Send(Listing(p, page'))

(* closeTab: its neighbour is active next, without a document the terminal. *)
CloseDocTab(d) == d \in ToSet(page.tabs) /\ Act
  /\ LET rest == Remove(page.tabs, d)
         at == CHOOSE i \in DOMAIN page.tabs : page.tabs[i] = d
         next == IF rest = << >> THEN Terminal ELSE rest[IF at > Len(rest) THEN Len(rest) ELSE at]
         p == IF page.active = d THEN SetActive([page EXCEPT !.tabs = rest], next) ELSE [page EXCEPT !.tabs = rest] IN
     Shows(p, world.mine \ {d}) /\ Send(Listing(p, page'))

-----------------------------------------------------------------------------
RefreshTabs == Folder(page.active) # None /\ ~page.list.busy /\ Act
  /\ page' = RefreshSiblings(page) /\ Send(ListCall(page')) /\ UNCHANGED world

Listed == \E i \in DOMAIN calls : Back(i, "list") /\ GoOn(i, << >>) /\ UNCHANGED <<world, acts>>
  /\ LET c == calls[i] IN
     page' = IF c.x.request # page.request \/ c.x.of # Folder(page.active) THEN page
             ELSE [page EXCEPT !.list = [of |-> c.x.of, busy |-> FALSE, files |-> IF c.st = "ok" THEN c.got ELSE {}]]

(* What the list of the folder shows.                                      *)
Files == IF page.list.of = Folder(page.active) THEN page.list.files ELSE {}

-----------------------------------------------------------------------------
(* The program is quit, or ends; the next run starts with what was saved.  *)
Restart == Act /\ calls' = Restore(world.saved)
  /\ page' = Fresh(world.saved, page.recent)
  /\ world' = [world EXCEPT !.mine = @ \ world.late, !.late = {}]

Vanish(d) == d \in world.exist /\ Act /\ world' = [world EXCEPT !.exist = @ \ {d}] /\ UNCHANGED <<page, calls>>

ServeFolder == \E i \in DOMAIN calls : calls[i].st = "sent" /\ UNCHANGED <<page, world, acts>>
  /\ CASE calls[i].op = "restore" -> Served(i, SelectSeq(calls[i].x, LAMBDA d : d \in world.exist))
       [] calls[i].op = "list" -> Served(i, calls[i].x.of \cap world.exist) \/ Failed(i, None)
       [] OTHER -> \/ \E d \in world.exist : calls[i].x \in {None, d} /\ Served(i, d)
                   \/ Served(i, None)
                   \/ calls[i].x # None /\ Failed(i, None)

TabsNext ==
  \/ Restored \/ HandleOpenMarkdown \/ Chosen \/ RefreshTabs \/ Listed \/ Restart \/ ServeFolder
  \/ Activate(Terminal)
  \/ \E d \in Docs : \/ OpenMarkdownFile(d) \/ HandleOpenRecent(d) \/ HandleRemoveRecent(d)
                     \/ Activate(d) \/ CloseDocTab(d) \/ Vanish(d)

-----------------------------------------------------------------------------
(* Every document the user has open has exactly one tab, when those of the *)
(* last run are back; and what is saved for the next run is never short of *)
(* one that was open, also when this one is quit before they are back,     *)
(* except for those that were opened in that time.                         *)
WorkspaceKept ==
  /\ Len(page.tabs) = Cardinality(ToSet(page.tabs))
  /\ page.ready => /\ ToSet(page.tabs) = world.mine
                   /\ world.saved.docs = page.tabs
  /\ ~page.ready => world.mine \ world.late \subseteq ToSet(world.saved.docs)
  /\ Len(page.recent) = Cardinality(ToSet(page.recent)) /\ Len(page.recent) <= MaxRecent

(* The list beside a document is that of its own folder, whatever came     *)
(* late.                                                                   *)
SiblingsOfItsFolder == Folder(page.active) # None => Files \subseteq Folder(page.active)
SiblingsNotBusy == Quiet => Folder(page.active) = None \/ ~page.list.busy

(* Bringing back the last run never takes the place of what the user has   *)
(* opened or chosen since.                                                 *)
RestoreStaysBehind == page'.ready /\ ~page.ready /\ page.chose => page'.active = page.active
=============================================================================
