---------------------------- MODULE FirewallPanel ----------------------------
(***************************************************************************)
(* The panel of the firewall of a host, and the backend's side of it.  ufw *)
(* deletes a rule by its number, and numbers shift: the panel sends one    *)
(* change at a time and the backend looks at the rule before it deletes    *)
(* the number.  Rules of ufw are modelled (firewalld addresses a rule by   *)
(* its text), an "allow" stands for a "limit" too; the host's rules are    *)
(* changed by this program only, and the host tells its port.              *)
(***************************************************************************)
EXTENDS PageCalls

CONSTANTS Hosts, Ports, SshPort   \* SshPort is the port this program's sessions come in by

Rule(p, a, v6) == [port |-> p, act |-> a, v6 |-> v6]
Covers(p) == p = SshPort
NeedsForce(r) == r.act = "allow" /\ Covers(r.port)
Forms == [port : Ports, act : {"allow", "deny"}]

(* Rows: the k-th IPv4 rule of an action and port is paired with its k-th  *)
(* IPv6 rule.  A row is known by its key.                                  *)
Same(r) == <<r.act, r.port>>
Nth(rules, i) == Cardinality({j \in 1 .. i : rules[j] = rules[i]})
Groups(rules) ==
  {[key |-> k, at |-> {i \in DOMAIN rules : k = <<Same(rules[i]), Nth(rules, i)>>}] :
     k \in {<<Same(rules[i]), Nth(rules, i)>> : i \in DOMAIN rules}}

Fresh(n, h) == [n |-> n, at |-> h, rules |-> None, on |-> FALSE, loading |-> TRUE, seq |-> 1, toggling |-> FALSE,
                submitting |-> FALSE, busy |-> None, armed |-> None, dialog |-> None, form |-> None]

(* What is on the page: the card with the switch, the form for a rule,     *)
(* the rows with their buttons, which are disabled while one of them is    *)
(* being deleted, and a dialog over all of it.                             *)
Clear == page.rules # None /\ page.dialog = None
StatusCard == Clear /\ ~page.toggling
RuleForm == Clear /\ ~page.submitting
Rows == IF Clear /\ page.busy = None THEN Groups(page.rules) ELSE {}
Asks(kind) == page.dialog # None /\ page.dialog.kind = kind

(* runExclusive: a change waits for the ones this mount sent before it.    *)
Change == {"enable", "add", "delete"}
Turn(i) == \A j \in 1 .. i - 1 : ~(calls[j].op \in Change /\ calls[j].st = "sent" /\ calls[j].of = calls[i].of)

Ask == page' = [page EXCEPT !.seq = @ + 1, !.loading = TRUE] /\ Send(<<Call("status", page.seq + 1)>>)
RefreshClicked == ~page.loading /\ Act /\ Ask /\ UNCHANGED world
PollTick == Act /\ Ask /\ UNCHANGED world

StatusAnswered == \E i \in DOMAIN calls :
  /\ Back(i, "status") /\ GoOn(i, << >>) /\ UNCHANGED <<world, acts>>
  /\ page' = IF calls[i].x # page.seq THEN page
             ELSE IF calls[i].st = "ok"
             THEN [page EXCEPT !.loading = FALSE, !.rules = calls[i].got.rules, !.on = calls[i].got.on]
             ELSE [page EXCEPT !.loading = FALSE, !.rules = None]

(* The switch: turning the firewall off is asked about.                    *)
ToggleEnabled == StatusCard /\ Act /\ UNCHANGED world
  /\ IF page.on THEN page' = [page EXCEPT !.dialog = [kind |-> "disable"]] /\ UNCHANGED calls
     ELSE page' = [page EXCEPT !.toggling = TRUE] /\ Send(<<Call("enable", TRUE)>>)
ConfirmDisable == Asks("disable") /\ Act /\ UNCHANGED world
  /\ page' = [page EXCEPT !.dialog = None, !.toggling = TRUE] /\ Send(<<Call("enable", FALSE)>>)

(* deleteRuleGroup: the rules of a row from the highest number down, as    *)
(* one change.  Its call holds what is left to delete.                     *)
Todo(g) == LET ns == SetToSortSeq(g.at, >) IN [k \in DOMAIN ns |-> [index |-> ns[k], raw |-> page.rules[ns[k]]]]
Delete(todo, force, key) == Call("delete", [todo |-> todo, all |-> Range(todo), force |-> force, key |-> key])
Chosen(todo) == world' = [world EXCEPT !.chosen[page.at] = @ \cup {todo[k].raw : k \in DOMAIN todo}]

DeleteClicked(g) == g \in Rows /\ Act
  /\ IF page.armed # g.key THEN page' = [page EXCEPT !.armed = g.key] /\ UNCHANGED <<calls, world>>
     ELSE IF \E i \in g.at : NeedsForce(page.rules[i])
     THEN page' = [page EXCEPT !.armed = None, !.dialog = [kind |-> "delete", todo |-> Todo(g), key |-> g.key]]
          /\ UNCHANGED <<calls, world>>
     ELSE /\ page' = [page EXCEPT !.armed = None, !.busy = g.key]
          /\ Send(<<Delete(Todo(g), FALSE, g.key)>>) /\ Chosen(Todo(g))
ArmExpires == page.armed # None /\ page' = [page EXCEPT !.armed = None] /\ UNCHANGED <<calls, world, acts>>

ConfirmDelete == Asks("delete") /\ Act
  /\ page' = [page EXCEPT !.dialog = None, !.busy = page.dialog.key]
  /\ Send(<<Delete(page.dialog.todo, TRUE, page.dialog.key)>>) /\ Chosen(page.dialog.todo)
CloseDialog == page.dialog # None /\ page' = [page EXCEPT !.dialog = None] /\ UNCHANGED <<calls, world, acts>>

(* submitRule: a denial of the port the session comes in by is asked about. *)
SubmitRule(f) == RuleForm /\ Act /\ UNCHANGED world
  /\ IF f.act = "deny" /\ Covers(f.port)
     THEN page' = [page EXCEPT !.form = f, !.dialog = [kind |-> "deny", of |-> {f}]] /\ UNCHANGED calls
     ELSE page' = [page EXCEPT !.form = f, !.submitting = TRUE] /\ Send(<<Call("add", [rule |-> f, force |-> FALSE])>>)
ConfirmDeny == Asks("deny") /\ Act /\ UNCHANGED world
  /\ page' = [page EXCEPT !.dialog = None, !.submitting = TRUE]
  /\ \E f \in page.dialog.of : Send(<<Call("add", [rule |-> f, force |-> TRUE])>>)

(* The answers: the status that was read after the change, if it could be, *)
(* is shown.  What the backend does only by force is asked about once it   *)
(* has said so; the form may have been typed on in the meantime.           *)
Show(p, c) == IF c.st = "ok" /\ c.got # None THEN [p EXCEPT !.rules = c.got.rules, !.on = c.got.on] ELSE p
EnableAnswered == \E i \in DOMAIN calls : Back(i, "enable") /\ GoOn(i, << >>) /\ UNCHANGED <<world, acts>>
  /\ page' = [Show(page, calls[i]) EXCEPT !.toggling = FALSE]
AddAnswered == \E i \in DOMAIN calls : Back(i, "add") /\ GoOn(i, << >>) /\ UNCHANGED <<world, acts>>
  /\ page' = [Show(page, calls[i]) EXCEPT !.submitting = FALSE, !.form = IF calls[i].st = "ok" THEN None ELSE @,
       !.dialog = IF calls[i].st = "failed" /\ ~calls[i].x.force /\ calls[i].got = "force"
                  THEN [kind |-> "deny", of |-> Forms]
                  ELSE @]
DeleteAnswered == \E i \in DOMAIN calls : LET c == calls[i] IN
  /\ Back(i, "delete") /\ GoOn(i, << >>) /\ UNCHANGED <<world, acts>>
  /\ page' = [Show(page, c) EXCEPT !.busy = None,
       !.dialog = IF c.st = "failed" /\ ~c.x.force /\ (c.got = "force" \/ \E d \in c.x.all : NeedsForce(d.raw))
                  THEN [kind |-> "delete", todo |-> SetToSortSeq(c.x.all, LAMBDA d, e : d.index > e.index), key |-> c.x.key]
                  ELSE @]

(* Another session, or the same one after another drawer.                  *)
Remount(h) == Act /\ UNCHANGED world
  /\ page' = Fresh(page.n + 1, h)
  /\ Send(<<[Call("status", 1) EXCEPT !.of = page.n + 1, !.at = h]>>)

-----------------------------------------------------------------------------
(* The backend and the host.  A change is one or more commands that Exec   *)
(* runs on the host, one after the other, up to the first that fails; then *)
(* the status is read again.  The guards know the port of the session and  *)
(* the one that was dialled.  chosen and gone record what the user chose   *)
(* to delete and what was deleted.                                         *)
Guarded == {SshPort, world.dial}

Status(h) == IF world.on[h] THEN [rules |-> world.rules[h], on |-> TRUE] ELSE [rules |-> << >>, on |-> FALSE]

ServeStatus == \E i \in DOMAIN calls : Sent(i, "status") /\ UNCHANGED <<page, world, acts>>
  /\ (Served(i, Status(calls[i].at)) \/ Failed(i, None))

(* ufw keeps the IPv4 rules before the IPv6 rules, and replaces one for    *)
(* the same port.                                                          *)
Family(rules, v6) == SelectSeq(rules, LAMBDA r : r.v6 = v6)
Place(rules, r) ==
  IF \E i \in DOMAIN rules : rules[i].port = r.port
  THEN [i \in DOMAIN rules |-> IF rules[i].port = r.port THEN r ELSE rules[i]]
  ELSE Append(rules, r)
Added(rules, f) ==
  Place(Family(rules, FALSE), Rule(f.port, f.act, FALSE)) \o Place(Family(rules, TRUE), Rule(f.port, f.act, TRUE))

(* What a command does to the host.                                        *)
Put(f) == [op |-> "put", x |-> f]
Drop(n) == [op |-> "delete", x |-> n]
SwitchTo(b) == [op |-> "switch", x |-> b]
Effect(w, h, cmd) ==
  CASE cmd.op = "put" -> [w EXCEPT !.rules[h] = Added(@, cmd.x)]
    [] cmd.op = "switch" -> [w EXCEPT !.on[h] = cmd.x]
    [] cmd.op = "delete" /\ cmd.x \in DOMAIN w.rules[h] ->
         [w EXCEPT !.rules[h] = RemoveAt(@, cmd.x), !.gone[h] = @ \cup {w.rules[h][cmd.x]}]
    [] OTHER -> w

(* Changes overlap on a host, which the queue of one mount cannot know of: *)
(* another mount has one on its way, or a command was given up on and may  *)
(* still be running.                                                       *)
Overlaps(i) ==
  \/ world.late[calls[i].at] # {}
  \/ \E j \in DOMAIN calls : calls[j].op \in Change /\ calls[j].at = calls[i].at /\ calls[j].of # calls[i].of

(* Exec: the command is carried out; or it fails; or it takes too long,    *)
(* and is left to itself (bound: one at a time on a host).                 *)
Exec(i, cmd, next) ==
  LET h == calls[i].at
      w == [world EXCEPT !.overlapped = @ \/ Overlaps(i)] IN
  \/ world' = Effect(w, h, cmd) /\ calls' = [calls EXCEPT ![i] = next]
  \/ world' = w /\ Failed(i, None)
  \/ world.late[h] = {} /\ world' = [w EXCEPT !.late[h] = {cmd}] /\ Failed(i, None)
LateRuns == \E h \in Hosts : \E cmd \in world.late[h] : UNCHANGED <<page, calls, acts>>
  /\ world' = [Effect(world, h, cmd) EXCEPT !.late[h] = {}]

(* How far a change has come is in got.                                    *)
At(i, op, got) == Sent(i, op) /\ Turn(i) /\ calls[i].got = got /\ UNCHANGED <<page, acts>>

(* Before the firewall is turned on, the session's own port is let in.     *)
KeepPortOpen == \E i \in DOMAIN calls : At(i, "enable", None) /\ calls[i].x
  /\ Exec(i, Put([port |-> SshPort, act |-> "allow"]), [calls[i] EXCEPT !.got = "kept"])
SwitchFirewall == \E i \in DOMAIN calls : At(i, "enable", IF calls[i].x THEN "kept" ELSE None)
  /\ Exec(i, SwitchTo(calls[i].x), [calls[i] EXCEPT !.got = "done"])

ServeAdd == \E i \in DOMAIN calls : At(i, "add", None)
  /\ LET f == calls[i].x.rule IN
     IF f.act = "deny" /\ ~calls[i].x.force /\ f.port \in Guarded
     THEN Failed(i, "force") /\ UNCHANGED world
     ELSE Exec(i, Put(f), [calls[i] EXCEPT !.got = "done"])

CheckRule == \E i \in DOMAIN calls : LET c == calls[i] d == Head(c.x.todo) rules == Status(c.at).rules IN
  /\ At(i, "delete", None)
  /\ world' = [world EXCEPT !.overlapped = @ \/ Overlaps(i)]
  /\ \/ Failed(i, None)
     \/ /\ d.index \in DOMAIN rules /\ rules[d.index] = d.raw
        /\ IF d.raw.act = "allow" /\ ~c.x.force /\ d.raw.port \in Guarded
           THEN Failed(i, "force") ELSE calls' = [calls EXCEPT ![i].got = "checked"]
DeleteRule == \E i \in DOMAIN calls : LET c == calls[i] IN
  /\ At(i, "delete", "checked")
  /\ Exec(i, Drop(Head(c.x.todo).index),
          IF Len(c.x.todo) = 1 THEN [c EXCEPT !.got = "done"] ELSE [c EXCEPT !.x.todo = Tail(@), !.got = None])

(* The status after the change: without one it is done all the same.       *)
ReadBack == \E op \in Change, i \in DOMAIN calls : At(i, op, "done") /\ UNCHANGED world
  /\ (Served(i, Status(calls[i].at)) \/ Served(i, None))

Init == \E h \in Hosts, dial \in Ports :
  /\ page = Fresh(1, h)
  /\ calls = <<[of |-> 1, at |-> h, op |-> "status", x |-> 1, st |-> "sent", got |-> None]>>
  /\ world = [rules |-> [k \in Hosts |-> LET ps == SetToSeq(Ports)
                                             v(b) == [i \in DOMAIN ps |-> Rule(ps[i], "allow", b)]
                                         IN v(FALSE) \o v(TRUE)],
              on |-> [k \in Hosts |-> TRUE], chosen |-> [k \in Hosts |-> {}], gone |-> [k \in Hosts |-> {}],
              late |-> [k \in Hosts |-> {}], overlapped |-> FALSE, dial |-> dial]
  /\ acts = 0

Next ==
  \/ RefreshClicked \/ PollTick \/ StatusAnswered \/ ToggleEnabled \/ ConfirmDisable
  \/ ArmExpires \/ ConfirmDelete \/ CloseDialog \/ ConfirmDeny \/ EnableAnswered \/ AddAnswered \/ DeleteAnswered
  \/ ServeStatus \/ KeepPortOpen \/ SwitchFirewall \/ ServeAdd \/ CheckRule \/ DeleteRule \/ ReadBack \/ LateRuns
  \/ \E g \in Rows : DeleteClicked(g)
  \/ \E f \in Forms : SubmitRule(f)
  \/ \E h \in Hosts : Remount(h)
  \/ Unheard({})

-----------------------------------------------------------------------------
(* Every rule is in one row, and a row has at most one rule of a family.   *)
RowsPartition == page.rules # None =>
  LET gs == Groups(page.rules) IN
  /\ \A i \in DOMAIN page.rules : Cardinality({g \in gs : i \in g.at}) = 1
  /\ \A g \in gs : \A i, j \in g.at : i # j => page.rules[i].v6 # page.rules[j].v6

(* Only rules the user chose to delete are deleted: in the order the panel *)
(* sends its changes in, if none overlapped.                               *)
OnlyChosenGo == \A h \in Hosts : world.gone[h] \subseteq world.chosen[h]
OnlyChosenGoInTurn == ~world.overlapped => OnlyChosenGo

(* Nothing is left spinning when every call is answered.                   *)
NotBusy == Quiet => page.busy = None /\ ~page.loading /\ ~page.toggling /\ ~page.submitting
=============================================================================
