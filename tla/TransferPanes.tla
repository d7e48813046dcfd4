---------------------------- MODULE TransferPanes ----------------------------
(***************************************************************************)
(* The card with the local files beside the remote ones (TransferModal):   *)
(* the selected files of one side are copied to the other, a few at a time *)
(* (transferQueue), after a question about those that are there already.   *)
(* A path can be typed without listing it, and the active session may be   *)
(* another one at any time; a batch that is under way goes on only in its  *)
(* own, and when the card has been closed.                                 *)
(***************************************************************************)
EXTENDS PageCalls, Functions

CONSTANTS Servers, Dirs, Home, Names,
          Lanes,  \* DEFAULT_TRANSFER_CONCURRENCY
          Batches \* bound on batches begun

Places == {<<"local", d>> : d \in Dirs} \cup (Servers \X Dirs)
Nothing == [of |-> None, names |-> << >>]

Side(pl, busy) == [path |-> pl[2], files |-> Nothing, busy |-> busy, wait |-> None, sel |-> {}]
Ask(n, id, pl) == [of |-> n, at |-> None, op |-> "list", x |-> [id |-> id, place |-> pl], st |-> "sent", got |-> None]

(* What is in a directory: of each name there whether it is a directory.   *)
(* agreed: what the user agreed to have replaced, where it was listed;     *)
(* left: the sessions that were left; blind: a transfer was begun to a     *)
(* directory that was not listed, being typed or still loading.            *)
Init ==
  LET h == CHOOSE s \in Servers : TRUE
      f == CHOOSE n \in Names : TRUE
      g == CHOOSE n \in Names : n # f IN
  /\ page = [n |-> 1, at |-> None, host |-> h,
             local |-> [Side(<<"local", Home>>, TRUE) EXCEPT !.wait = 1], remote |-> [Side(<<h, Home>>, TRUE) EXCEPT !.wait = 2],
             conflict |-> None, queues |-> << >>]
  /\ calls = <<Ask(1, 1, <<"local", Home>>), Ask(1, 2, <<h, Home>>)>>
  /\ world = [fs |-> [p \in Places |-> CASE p = <<"local", Home>> -> [n \in Names |-> FALSE]
                                         [] p \in Servers \X {Home} -> [n \in {f, g} |-> n = g]
                                         [] OTHER -> << >>],
              agreed |-> {}, replaced |-> {}, tried |-> << >>, left |-> {}, blind |-> FALSE]
  /\ acts = 0

-----------------------------------------------------------------------------
NewId == CHOOSE n \in 1..(MaxCalls + 1) : /\ \A i \in DOMAIN calls : calls[i].op = "list" => calls[i].x.id # n
                                          /\ \A m \in 1..(n - 1) : \E i \in DOMAIN calls : calls[i].op = "list" /\ calls[i].x.id = m

LocalPlace(p) == <<"local", p.local.path>>
RemotePlace(p) == <<p.host, p.remote.path>>

(* A question about what is there is over when what is shown changes.      *)
Shows(p) == page' = IF <<p.host, p.local.path, p.remote.path>> = <<page.host, page.local.path, page.remote.path>> THEN p
                    ELSE [p EXCEPT !.conflict = None]

(* loadLocalDir and loadRemoteDir: the path of the one is shown when its   *)
(* list has come, of the other at once.                                    *)
Loading(side, d) == [side EXCEPT !.busy = TRUE, !.wait = NewId]
LoadLocal(p, d) == [p EXCEPT !.local = Loading(@, d)]
LoadRemote(p, d) == [p EXCEPT !.remote = [Loading(@, d) EXCEPT !.path = d]]
List(pl) == <<Call("list", [id |-> NewId, place |-> pl])>>

OpenLocal(d) == Act /\ Shows(LoadLocal(page, d)) /\ Send(List(<<"local", d>>)) /\ UNCHANGED world
OpenRemote(d) == Act /\ Shows(LoadRemote(page, d)) /\ Send(List(<<page.host, d>>)) /\ UNCHANGED world
TypeLocal(d) == d # page.local.path /\ Act /\ Shows([page EXCEPT !.local.path = d]) /\ UNCHANGED <<calls, world>>
TypeRemote(d) == d # page.remote.path /\ Act /\ Shows([page EXCEPT !.remote.path = d]) /\ UNCHANGED <<calls, world>>

Listed == \E i \in DOMAIN calls : Back(i, "list") /\ GoOn(i, << >>) /\ UNCHANGED <<world, acts>>
  /\ LET c == calls[i]
         Got(side) == IF c.st = "ok" THEN [path |-> c.x.place[2], files |-> [of |-> c.x.place, names |-> c.got], busy |-> FALSE, wait |-> None, sel |-> {}]
                      ELSE [side EXCEPT !.busy = FALSE, !.wait = None] IN
     Shows(IF c.x.id = page.local.wait THEN [page EXCEPT !.local = Got(@)]
           ELSE IF c.x.id = page.remote.wait THEN [page EXCEPT !.remote = Got(@)] ELSE page)

(* Another session: its root is listed.                                    *)
Activate(s) == s # page.host /\ Act /\ world' = [world EXCEPT !.left = @ \cup {page.host}]
  /\ Shows([page EXCEPT !.host = s, !.remote = [Side(<<s, Home>>, TRUE) EXCEPT !.wait = NewId]])
  /\ Send(List(<<s, Home>>))

(* The card is closed and opened again; what it had begun goes on.         *)
Reopen == Act /\ UNCHANGED world
  /\ page' = [page EXCEPT !.n = @ + 1, !.conflict = None, !.local = [Side(<<"local", Home>>, TRUE) EXCEPT !.wait = 1],
                          !.remote = [Side(<<page.host, Home>>, TRUE) EXCEPT !.wait = 2],
                          !.queues = [k \in DOMAIN @ |-> [@[k] EXCEPT !.orphan = TRUE]]]
  /\ calls' = SelectSeq(calls, LAMBDA c : c.op # "list") \o <<Ask(page.n + 1, 1, <<"local", Home>>), Ask(page.n + 1, 2, <<page.host, Home>>)>>

-----------------------------------------------------------------------------
IsFile(side, f) == f \in DOMAIN side.files.names /\ ~side.files.names[f]
Click(f) == \/ /\ ~page.local.busy /\ IsFile(page.local, f) /\ page' = [page EXCEPT !.local.sel = {f}]
               /\ UNCHANGED <<calls, world, acts>>
            \/ /\ ~page.remote.busy /\ IsFile(page.remote, f) /\ page' = [page EXCEPT !.remote.sel = {f}]
               /\ UNCHANGED <<calls, world, acts>>
(* With shift, all files between: here all.                                *)
ClickAll == ~page.local.busy /\ page.local.sel # {} /\ UNCHANGED <<calls, world, acts>>
  /\ page' = [page EXCEPT !.local.sel = {f \in DOMAIN page.local.files.names : IsFile(page.local, f)}]

Upward(d) == d = "upload"
From(p, d) == IF Upward(d) THEN p.local ELSE p.remote
Onto(p, d) == IF Upward(d) THEN p.remote ELSE p.local
Target(p, d) == IF Upward(d) THEN RemotePlace(p) ELSE LocalPlace(p)

(* The queue takes the next file for each lane that is free, as long as    *)
(* its session is the active one.                                          *)
Copy(k, q, f) == Call("copy", [q |-> k, from |-> <<q.src, f>>, to |-> q.to, f |-> f, over |-> f \in q.over])
Context(p) == <<p.host, p.local.path, p.remote.path>>
Begin(d, fs, over, p) == Len(page.queues) < Batches /\
  LET q == [dir |-> d, src |-> From(page, d).files.of, to |-> Target(page, d), over |-> over, host |-> page.host, of |-> Context(page),
            orphan |-> FALSE, left |-> {}, running |-> 0]
      k == Len(page.queues) + 1 IN
  \E first \in SUBSET fs :
    /\ Cardinality(first) = IF Cardinality(fs) < Lanes THEN Cardinality(fs) ELSE Lanes
    /\ page' = [p EXCEPT !.queues = Append(@, [q EXCEPT !.left = fs \ first, !.running = Cardinality(first)])]
    /\ Send([i \in 1..Cardinality(first) |-> Copy(k, q, SetToSeq(first)[i])])
    /\ world' = [world EXCEPT !.tried = Append(@, [f \in fs |-> IF f \in first THEN 1 ELSE 0]),
                              !.agreed = @ \cup {<<Onto(page, d).files.of, f>> : f \in over},
                              !.blind = @ \/ Onto(page, d).files.of # q.to]

(* startTransfer: of the names on both sides, as they are listed.          *)
Same(d, fs) == fs \cap DOMAIN Onto(page, d).files.names
StartTransfer(d) == page.conflict = None /\ From(page, d).sel # {} /\ UNCHANGED acts
  /\ LET fs == From(page, d).sel IN
     IF Same(d, fs) # {}
     THEN page' = [page EXCEPT !.conflict = [dir |-> d, fs |-> fs, of |-> Context(page),
                                             replaceable |-> {f \in Same(d, fs) : IsFile(Onto(page, d), f)}]]
          /\ UNCHANGED <<calls, world>>
     ELSE Begin(d, fs, {}, page)

Cancel == page.conflict # None /\ page' = [page EXCEPT !.conflict = None] /\ UNCHANGED <<calls, world, acts>>
ResolveConflict(mode) == page.conflict # None /\ UNCHANGED acts
  /\ LET c == page.conflict
         rest == c.fs \ (IF mode = "overwrite" THEN Same(c.dir, c.fs) \ c.replaceable ELSE Same(c.dir, c.fs))
         p == [page EXCEPT !.conflict = None] IN
     IF c.of # Context(page) \/ rest = {} THEN page' = p /\ UNCHANGED <<calls, world>>
     ELSE Begin(c.dir, rest, IF mode = "overwrite" THEN c.replaceable ELSE {}, p)

(* A file has been copied, or has not: the next one.  After the last lane  *)
(* the other side is listed, if it is the one that was.                    *)
Copied == \E i \in DOMAIN calls : calls[i].op = "copy" /\ calls[i].st # "sent" /\ UNCHANGED acts
  /\ LET k == calls[i].x.q  q == page.queues[k]  runs == q.orphan \/ q.host = page.host
         p == [page EXCEPT !.queues[k].running = @ - 1] IN
     IF runs /\ q.left # {}
     THEN \E f \in q.left :
            /\ page' = [page EXCEPT !.queues[k].left = @ \ {f}]
            /\ GoOn(i, <<Copy(k, q, f)>>)
            /\ world' = [world EXCEPT !.tried[k][f] = @ + 1]
     ELSE /\ UNCHANGED world
          /\ IF q.running = 1 /\ ~q.orphan /\ q.of = Context(page)
             THEN Shows(IF Upward(q.dir) THEN LoadRemote(p, q.to[2]) ELSE LoadLocal(p, q.to[2])) /\ GoOn(i, List(q.to))
             ELSE page' = p /\ GoOn(i, << >>)

Serve == \E i \in DOMAIN calls : calls[i].st = "sent" /\ UNCHANGED <<page, acts>>
  /\ LET x == calls[i].x IN
     IF calls[i].op = "list" THEN UNCHANGED world /\ (Served(i, world.fs[x.place]) \/ Failed(i, << >>))
     ELSE LET there == x.f \in DOMAIN world.fs[x.to] IN
          \/ Failed(i, None) /\ UNCHANGED world
          \/ /\ IF there THEN x.over /\ ~world.fs[x.to][x.f] ELSE TRUE
             /\ Served(i, None)
             /\ world' = [world EXCEPT !.fs[x.to] = [f \in DOMAIN @ \cup {x.f} |-> IF f = x.f THEN FALSE ELSE @[f]],
                                       !.replaced = @ \cup (IF there THEN {<<x.to, x.f>>} ELSE {})]

Next ==
  \/ Listed \/ Reopen \/ ClickAll \/ Cancel \/ Copied \/ Serve
  \/ \E s \in Servers : Activate(s)
  \/ \E d \in Dirs : OpenLocal(d) \/ OpenRemote(d) \/ TypeLocal(d) \/ TypeRemote(d)
  \/ \E f \in Names : Click(f)
  \/ \E d \in {"upload", "download"} : StartTransfer(d)
  \/ \E m \in {"overwrite", "skip"} : ResolveConflict(m)

-----------------------------------------------------------------------------
(* A file is replaced only where it was listed when the user agreed to it; *)
(* a batch tries every file once, a few at a time, and leaves one out only *)
(* when its session was left; and what is listed is of the session.        *)
ReplacedAsAgreed ==
  /\ world.blind \/ world.replaced \subseteq world.agreed
  /\ \A k \in DOMAIN page.queues : LET q == page.queues[k] IN
       /\ \A f \in DOMAIN world.tried[k] : world.tried[k][f] <= 1
       /\ (q.running = 0 /\ q.left # {}) => q.host \in world.left
       /\ q.running <= Lanes
PanesOfTheirSession ==
  /\ page.remote.files.of = None \/ page.remote.files.of[1] = page.host
  /\ page.local.files.of = None \/ page.local.files.of[1] = "local"
PanesNotBusy == Quiet => ~page.local.busy /\ ~page.remote.busy
=============================================================================
