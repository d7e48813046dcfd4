------------------------------ MODULE Transfers ------------------------------
(***************************************************************************)
(* What the page knows of the transfers of files: useTransfers, and the    *)
(* cards that show them.  The backend numbers the events of a transfer     *)
(* when it claims them, and sends them from more than one goroutine: the   *)
(* copying, a pause, a resume.  So they come in any order.                 *)
(***************************************************************************)
EXTENDS PageCalls, Functions

CONSTANTS Kept,     \* the ended transfers the history shows
          Fence,    \* the ended transfers that are remembered as such
          MaxJobs   \* bound on transfers that are started

Over == {"succeeded", "failed", "cancelled"}

(* Of the page: the transfers under way, the last number of each, those    *)
(* that have ended (ended, the oldest first) and the history.  Of the      *)
(* backend: the transfers by their number; a retry is a new one.           *)
Init ==
  /\ page = [n |-> 1, at |-> None, transfers |-> << >>, last |-> << >>, ended |-> << >>, history |-> << >>]
  /\ calls = << >>
  /\ world = [jobs |-> << >>, cleared |-> {}]
  /\ acts = 0

Started == DOMAIN world.jobs
Live(j) == j \in Started /\ world.jobs[j].st \notin Over

-----------------------------------------------------------------------------
(* The backend.  claimEvent numbers an event, none after the last; whether *)
(* the transfer is paused is read after that, and then the event is sent.  *)
Claim(j, status, w, rest) ==
  IF w.jobs[j].st \in Over THEN world' = w /\ calls' = rest
  ELSE /\ world' = [w EXCEPT !.jobs[j].seq = @ + 1, !.jobs[j].st = IF status \in Over THEN status ELSE @]
       /\ calls' = Append(rest, Call("event", [job |-> j, seq |-> w.jobs[j].seq + 1, status |-> status]))

Room == Len(calls) < MaxCalls

NewJob(w) == [w EXCEPT !.jobs = Append(@, [st |-> "started", seq |-> 0, paused |-> FALSE])]
Start == Room /\ Len(world.jobs) < MaxJobs /\ Act /\ UNCHANGED page
  /\ LET w == NewJob(world) IN Claim(Len(w.jobs), "started", w, calls)

(* A chunk was copied; one is still reported that was under way when the   *)
(* transfer was paused.                                                    *)
Copied(j) == Live(j) /\ Room /\ Act /\ Claim(j, "progress", world, calls) /\ UNCHANGED page
(* finishTransfer ends the context of a transfer and opens its gate, as a  *)
(* cancellation does, and then claims the last event.                      *)
Stopped(j) == [world EXCEPT !.jobs[j].st = "stopping", !.jobs[j].paused = FALSE]
Finishes(j) == Live(j) /\ world.jobs[j].st # "stopping" /\ world' = Stopped(j) /\ UNCHANGED <<page, calls, acts>>
Ends(j) == Live(j) /\ world.jobs[j].st = "stopping" /\ Room /\ UNCHANGED <<page, acts>>
  /\ \E st \in Over : Claim(j, st, world, calls)

Serve == \E i \in DOMAIN calls : calls[i].st = "sent" /\ UNCHANGED <<page, acts>>
  /\ LET c == calls[i]  j == c.x.job  rest == RemoveAt(calls, i) IN
     CASE c.op = "event" ->
          Served(i, c.x.status = "paused" \/ world.jobs[j].paused) /\ UNCHANGED world
       [] c.op = "pause" ->
          IF world.jobs[j].st # "started" \/ world.jobs[j].paused THEN calls' = rest /\ UNCHANGED world
          ELSE Served(i, None) /\ world' = [world EXCEPT !.jobs[j].paused = TRUE]
       [] c.op = "resume" ->
          IF ~Live(j) \/ ~world.jobs[j].paused THEN calls' = rest /\ UNCHANGED world
          ELSE Served(i, None) /\ world' = [world EXCEPT !.jobs[j].paused = FALSE]
       [] c.op = "cancel" ->
          calls' = rest /\ world' = IF Live(j) THEN Stopped(j) ELSE world
       [] c.op = "retry" ->
          IF Len(world.jobs) = MaxJobs THEN calls' = rest /\ UNCHANGED world
          ELSE LET w == NewJob(world) IN Claim(Len(w.jobs), "started", w, rest)

(* The gate of the copying has been switched: the event of that.           *)
Switched == \E i \in DOMAIN calls : calls[i].st = "ok" /\ calls[i].op \in {"pause", "resume"} /\ UNCHANGED <<page, acts>>
  /\ Claim(calls[i].x.job, IF calls[i].op = "pause" THEN "paused" ELSE "progress", world, RemoveAt(calls, i))

-----------------------------------------------------------------------------
(* The page                                                                *)
InHistory(p, j) == \E i \in DOMAIN p.history : p.history[i].job = j
Ended(p, j, st) == LET e == Append(p.ended, j) IN
  [p EXCEPT !.ended = IF Len(e) > Fence THEN Tail(e) ELSE e,
            !.last = IF Len(e) > Fence THEN Restrict(@, DOMAIN @ \ {Head(e)}) ELSE @,
            !.transfers = Restrict(@, DOMAIN @ \ {j}),
            !.history = IF InHistory(p, j) THEN @
                        ELSE SubSeq(<<[job |-> j, st |-> st]>> \o @, 1, IF Len(@) < Kept THEN Len(@) + 1 ELSE Kept)]

(* Mutant: no event is taken for a late one.                               *)
NeverKnown(p, x) == FALSE

(* An event of a transfer that has ended, or older than the last, is       *)
(* dropped.                                                                *)
Known(p, x) == x.job \in ToSet(p.ended) \/ (x.job \in DOMAIN p.last /\ x.seq <= p.last[x.job])

Put(f, j, v) == [k \in DOMAIN f \cup {j} |-> IF k = j THEN v ELSE f[k]]

Progress == \E i \in DOMAIN calls : Back(i, "event") /\ GoOn(i, << >>) /\ UNCHANGED <<world, acts>>
  /\ LET x == calls[i].x  p == [page EXCEPT !.last = Put(@, x.job, x.seq)] IN
     page' = IF Known(page, x) THEN page
             ELSE IF x.status \in Over THEN Ended(p, x.job, x.status)
             ELSE [p EXCEPT !.transfers = Put(@, x.job, [seq |-> x.seq, paused |-> calls[i].got])]

(* The button of a transfer that is under way pauses or resumes it.        *)
TogglePause(j) == j \in DOMAIN page.transfers /\ Act /\ UNCHANGED <<page, world>>
  /\ Send(<<Call(IF page.transfers[j].paused THEN "resume" ELSE "pause", [job |-> j])>>)
Cancel(j) == j \in DOMAIN page.transfers /\ Act /\ Send(<<Call("cancel", [job |-> j])>>) /\ UNCHANGED <<page, world>>

Retry(j) == Act /\ UNCHANGED <<page, world>> /\ Send(<<Call("retry", [job |-> j])>>)
  /\ \E i \in DOMAIN page.history : page.history[i].job = j /\ page.history[i].st # "succeeded"

ClearHistory == page.history # << >> /\ Act /\ UNCHANGED calls
  /\ page' = [page EXCEPT !.history = << >>]
  /\ world' = [world EXCEPT !.cleared = ToSet(page.ended)]

Next ==
  \/ Start \/ Serve \/ Switched \/ Progress \/ ClearHistory
  \/ \E j \in 1..MaxJobs : Copied(j) \/ Finishes(j) \/ Ends(j) \/ TogglePause(j) \/ Cancel(j) \/ Retry(j)

-----------------------------------------------------------------------------
(* A transfer that has ended is not shown as under way again, whatever     *)
(* comes late, and stands in the history once, until that is cleared or    *)
(* too many came after it; when all events have come, what is under way is *)
(* shown so, and as paused if it is.  (A pause and a resume right after    *)
(* each other may number their events the wrong way round: the transfer    *)
(* runs and is shown as paused until its next chunk.)                      *)
EndedOnce ==
  /\ \A j \in ToSet(page.ended) : /\ j \notin DOMAIN page.transfers
                                  /\ InHistory(page, j) \/ j \in world.cleared \/ Len(page.history) = Kept
  /\ \A i, k \in DOMAIN page.history : page.history[i].job = page.history[k].job => i = k
  /\ Len(page.history) <= Kept
ShownAsItIs == Quiet =>
  /\ DOMAIN page.transfers = {j \in Started : Live(j)}
  /\ \A j \in DOMAIN page.transfers : world.jobs[j].paused => page.transfers[j].paused
  /\ \A i \in DOMAIN page.history : page.history[i].st = world.jobs[page.history[i].job].st
=============================================================================
