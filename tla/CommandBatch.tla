---------------------------- MODULE CommandBatch ----------------------------
(***************************************************************************)
(* Saved commands: with their placeholders filled in first, sent to the    *)
(* active session, to one session, or as a batch, line by line and several *)
(* times, to all connected sessions.  What a handler captured when the     *)
(* command was chosen is used when the dialogs are done.                   *)
(***************************************************************************)
EXTENDS PageCalls

CONSTANTS Sessions, Steps   \* Steps: lines of a batch times its repetitions

Init ==
  /\ page = [n |-> 1, at |-> CHOOSE s \in Sessions : TRUE, connected |-> Sessions, vars |-> None,
             batch |-> None, running |-> FALSE, run |-> None]
  /\ calls = << >> /\ world = [got |-> [s \in Sessions |-> 0], asked |-> {}] /\ acts = 0

-----------------------------------------------------------------------------
NoDialog == page.vars = None /\ page.batch = None

(* runCommandTemplate: send is what runs when no placeholder is left.      *)
Deliver(p, send) ==
  IF send.op = "one" \/ send.to = {} THEN [p EXCEPT !.vars = None]
  ELSE [p EXCEPT !.vars = None, !.running = FALSE, !.batch = send.to]
Sends(send) == IF send.op = "one" /\ send.live THEN <<[Call("command", None) EXCEPT !.at = send.to]>> ELSE << >>
RunTemplate(send, placeholders) == NoDialog /\ Act /\ UNCHANGED world
  /\ IF placeholders THEN page' = [page EXCEPT !.vars = send] /\ UNCHANGED calls
     ELSE page' = Deliver(page, send) /\ Send(Sends(send))

RunOnActive(ph) == RunTemplate([op |-> "one", to |-> page.at, live |-> page.at \in page.connected], ph)
RunInSession(s, ph) == RunTemplate([op |-> "one", to |-> s, live |-> s \in page.connected], ph)
RunOnAll(ph) == RunTemplate([op |-> "all", to |-> page.connected], ph)

SubmitVars == page.vars # None /\ Act /\ page' = Deliver(page, page.vars) /\ Send(Sends(page.vars)) /\ UNCHANGED world
CloseVars == page.vars # None /\ page' = [page EXCEPT !.vars = None] /\ UNCHANGED <<calls, world, acts>>

(* The answer of a command to one session; to a given one, it is shown.    *)
CommandAnswered == \E i \in DOMAIN calls : Back(i, "command") /\ GoOn(i, << >>) /\ UNCHANGED <<world, acts>>
  /\ page' \in {page, IF calls[i].st = "ok" THEN [page EXCEPT !.at = calls[i].at] ELSE page}

-----------------------------------------------------------------------------
(* One step of the batch: the next line to every target, all at once.      *)
Step(to) == LET order == SetToSeq(to) IN [i \in DOMAIN order |-> [Call("line", None) EXCEPT !.at = order[i]]]

(* startBatchCommand: if the sessions are not the ones shown any more, the *)
(* dialog shows the new ones instead.                                      *)
StartBatch == page.batch # None /\ page.batch # {} /\ ~page.running /\ Act
  /\ IF page.batch = page.connected
     THEN /\ page' = [page EXCEPT !.running = TRUE, !.run = [to |-> page.batch, step |-> 1, failed |-> FALSE, stop |-> FALSE, left |-> Cardinality(page.batch)]]
          /\ Send(Step(page.batch))
          /\ world' = [got |-> [s \in Sessions |-> 0], asked |-> page.batch]
     ELSE page' = [page EXCEPT !.batch = page.connected] /\ UNCHANGED <<calls, world>>

(* A line is answered; the step is over when all are.                      *)
LineAnswered == \E i \in DOMAIN calls : Back(i, "line") /\ GoOn(i, << >>) /\ UNCHANGED <<world, acts>>
  /\ page' = [page EXCEPT !.run.left = @ - 1, !.run.failed = @ \/ calls[i].st = "failed"]

(* All settled: a failure ends it and leaves the dialog open; so does a    *)
(* stop; the last step closes it; else the next follows, after a pause     *)
(* that a stop cuts short.                                                 *)
Ended(closed) == page' = [page EXCEPT !.running = FALSE, !.run = None, !.batch = IF closed THEN None ELSE @] /\ UNCHANGED calls
NextStep == page.run # None /\ page.run.left = 0 /\ UNCHANGED <<world, acts>>
  /\ IF page.run.failed \/ page.run.stop THEN Ended(FALSE)
     ELSE IF page.run.step = Steps THEN Ended(TRUE)
     ELSE page' = [page EXCEPT !.run.step = @ + 1, !.run.left = Cardinality(page.run.to)] /\ Send(Step(page.run.to))

StopBatch == page.running /\ Act /\ page' = [page EXCEPT !.run.stop = TRUE] /\ UNCHANGED <<calls, world>>
CloseBatch == page.batch # None /\ ~page.running /\ page' = [page EXCEPT !.batch = None] /\ UNCHANGED <<calls, world, acts>>

(* Tabs are chosen, sessions drop and come back.                           *)
Select(s) == NoDialog /\ page.at # s /\ Act /\ page' = [page EXCEPT !.at = s] /\ UNCHANGED <<calls, world>>
Change(s) == Act /\ UNCHANGED <<calls, world>>
  /\ page' = [page EXCEPT !.connected = IF s \in @ THEN @ \ {s} ELSE @ \cup {s}]

(* SendCommandToTerminal: fails for a session that is not connected.       *)
Serve == \E i \in DOMAIN calls : calls[i].st = "sent" /\ UNCHANGED <<page, acts>>
  /\ \/ /\ calls[i].at \in page.connected /\ Served(i, None)
        /\ world' = IF calls[i].op = "line" THEN [world EXCEPT !.got[calls[i].at] = @ + 1] ELSE world
     \/ Failed(i, None) /\ UNCHANGED world

Next ==
  \/ SubmitVars \/ CloseVars \/ CommandAnswered \/ StartBatch \/ LineAnswered \/ NextStep \/ StopBatch \/ CloseBatch \/ Serve
  \/ \E ph \in BOOLEAN : RunOnActive(ph) \/ RunOnAll(ph) \/ \E s \in Sessions : RunInSession(s, ph)
  \/ \E s \in Sessions : Select(s) \/ Change(s)

-----------------------------------------------------------------------------
(* The lines of a batch go to the sessions that were shown when it was     *)
(* confirmed, and to none else; the sessions stay within a step of each    *)
(* other; and one that runs to its end has sent every line to every one.   *)
BatchWhereShown ==
  /\ \A s \in Sessions : world.got[s] > 0 => s \in world.asked
  /\ page.run # None => /\ page.run.to = world.asked
                        /\ ~page.run.failed => \A s \in page.run.to : world.got[s] \in {page.run.step - 1, page.run.step}
BatchNotBusy == Quiet /\ page.running => page.run # None /\ page.run.left = 0
=============================================================================
