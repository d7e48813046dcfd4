----------------------------- MODULE CliApproval -----------------------------
(***************************************************************************)
(* Approvals of the local CLI API: the batches of internal/app/app_cli.go, *)
(* the review panel of app_approval_panel.go and the slot App.tsx shows it *)
(* in.  Requests for one server that arrive within a short window share a  *)
(* batch, critical ones never do.  A batch is named after its first        *)
(* request, and so is the one panel it may show.  The page may not be      *)
(* loaded yet, or be reloaded, while panels are waited for.                *)
(***************************************************************************)
EXTENDS Naturals, Sequences, FiniteSets

CONSTANTS
    Reqs,          \* calls of confirmCliApprovalCtx and of the critical path
    Servers,
    None,
    MaxReloads     \* bound: reloads of the page

ASSUME NoneAssumption == None \notin Reqs
ASSUME ReloadsAssumption == MaxReloads \in Nat

VARIABLES
    serverOf, critical,
    caller,        \* "idle", "waiting", then the verdict: "allowed" or "denied"
    gone,          \* the caller's context is cancelled
    cancelled,     \* batches whose panel context is: its watchers saw all leave
    gathering,     \* cliApprovals: the batch a server's requests join
    batch,         \* where the goroutine that serves a batch is
    members,       \* the batch's live requests, in the order of their items
    approved,      \* the items the batch's answer names
    why,           \* (history) what the batch's answer comes from
    gate,          \* approvalGate is taken
    dialog,        \* the batch that has nativeDialogMu
    pending,       \* cliApprovalPanelRegistry.pending
    answered,      \* panels with an answer in their channel
    ready,         \* frontendReady
    listening,     \* the page's listeners are attached
    register,      \* progress of RegisterApprovalPanel
    inbox,         \* events on their way to the page
    shown,         \* the panel on screen
    sent,          \* calls of ResolveCliApproval on their way back
    reloads,
    consent        \* requests the user has allowed with the request on screen

requestVars == <<serverOf, critical>>
callerVars  == <<caller, gone, cancelled>>
batchVars   == <<gathering, batch, members, approved, why>>
panelVars   == <<gate, dialog, pending, answered>>
pageVars    == <<ready, listening, register, inbox, shown, sent, reloads, consent>>
vars == <<requestVars, callerVars, batchVars, panelVars, pageVars>>

Items(b) == DOMAIN members[b]
Members(b) == {members[b][i] : i \in Items(b)}

TypeOK ==
    /\ serverOf \in [Reqs -> Servers] /\ critical \in SUBSET Reqs
    /\ caller \in [Reqs -> {"idle", "waiting", "allowed", "denied"}]
    /\ gone \in SUBSET Reqs /\ cancelled \in SUBSET Reqs
    /\ gathering \in [Servers -> Seq(Reqs \ critical)]
    /\ batch \in [Reqs -> {"none", "asking", "queued", "holding", "waiting",
                            "closing", "native", "dialog", "answering", "over"}]
    /\ members \in [Reqs -> Seq(Reqs)]
    /\ \A b \in Reqs : batch[b] # "none" => members[b] # <<>>
    /\ \A b \in Reqs : approved[b] \subseteq Items(b)
    /\ why \in [Reqs -> {"none", "left", "timeout", "reload", "answer"}]
    /\ gate \in BOOLEAN
    /\ dialog \in Reqs \union {None}
    /\ pending \in SUBSET Reqs /\ answered \in SUBSET Reqs
    /\ ready \in BOOLEAN /\ listening \in BOOLEAN
    /\ register \in {"none", "ready"}
    /\ inbox \in Seq({"open", "closed"} \X Reqs)
    /\ shown \in Reqs \union {None}
    /\ \A call \in sent : call[1] \in Reqs /\ call[2] \in SUBSET Items(call[1])
    /\ reloads \in 0..MaxReloads
    /\ consent \in SUBSET Reqs

Init ==
    /\ serverOf \in [Reqs -> Servers] /\ critical \in SUBSET Reqs
    /\ caller = [r \in Reqs |-> "idle"]
    /\ gone = {} /\ cancelled = {}
    /\ gathering = [s \in Servers |-> <<>>]
    /\ batch = [b \in Reqs |-> "none"]
    /\ members = [b \in Reqs |-> <<>>]
    /\ approved = [b \in Reqs |-> {}]
    /\ why = [b \in Reqs |-> "none"]
    /\ gate = FALSE
    /\ dialog = None
    /\ pending = {} /\ answered = {}
    /\ ready = FALSE /\ listening = FALSE
    /\ register = "none"
    /\ inbox = <<>>
    /\ shown = None
    /\ sent = {}
    /\ reloads = 0
    /\ consent = {}

-----------------------------------------------------------------------------
(* Requests and batches *)

Goto(b, from, to) == batch[b] = from /\ batch' = [batch EXCEPT ![b] = to]

\* The answer of these batches is put down to cause, unless they have given up.
Because(bs, cause) ==
    why' = [b \in Reqs |-> IF b \in bs /\ batch[b] # "closing" THEN cause ELSE why[b]]

\* Mutant: the panel comes down when the first caller leaves.
SomebodyLeft(b) == Members(b) \intersect gone # {}

EverybodyLeft(b) == Members(b) \subseteq gone

\* liveRequestsContext: a watcher per caller and one that counts them cancel the
\* panel's context, some time after the last caller of the batch has gone.  (Once
\* the panel is over nobody looks at it any more.)
CancelPanel(b) ==
    /\ batch[b] \in {"asking", "queued", "holding", "waiting"} /\ b \notin cancelled
    /\ EverybodyLeft(b)
    /\ cancelled' = cancelled \union {b}
    /\ UNCHANGED <<requestVars, caller, gone, batchVars, panelVars, pageVars>>

\* What requestCliApprovalPanel sees of that.
NobodyWaits(b) == b \in cancelled

\* confirmCliApprovalCtx joins or opens its server's batch; a critical request
\* is a batch of its own.
Ask(r) ==
    /\ caller[r] = "idle"
    /\ caller' = [caller EXCEPT ![r] = "waiting"]
    /\ \/ /\ r \in critical
          /\ batch' = [batch EXCEPT ![r] = "asking"]
          /\ members' = [members EXCEPT ![r] = <<r>>]
          /\ UNCHANGED gathering
       \/ /\ r \notin critical
          /\ gathering' = [gathering EXCEPT ![serverOf[r]] = Append(@, r)]
          /\ UNCHANGED <<batch, members>>
    /\ UNCHANGED <<requestVars, gone, cancelled, approved, why, panelVars, pageVars>>

\* The client disconnects.  The batched path stops waiting, and an answer it
\* finds when it does is moot; the critical path is still inside the panel.
HangUp(r) ==
    /\ caller[r] = "waiting" /\ r \notin gone
    /\ gone' = gone \union {r}
    /\ caller' = [caller EXCEPT ![r] = IF r \in critical THEN @ ELSE "denied"]
    /\ UNCHANGED <<requestVars, cancelled, batchVars, panelVars, pageVars>>

\* flushCliApprovalBatch, when the window ends: callers that left are dropped,
\* the others keep their order.
Flush(s) ==
    LET live == {i \in DOMAIN gathering[s] : gathering[s][i] \notin gone}
        b == Head(gathering[s])
    IN  /\ gathering[s] # <<>>
        /\ gathering' = [gathering EXCEPT ![s] = <<>>]
        /\ \/ /\ live = {}
              /\ UNCHANGED <<batch, members>>
           \/ \E order \in [1..Cardinality(live) -> live] :
                 /\ live # {} /\ \A i, j \in DOMAIN order : i < j => order[i] < order[j]
                 /\ batch' = [batch EXCEPT ![b] = "asking"]
                 /\ members' = [members EXCEPT ![b] =
                        [i \in DOMAIN order |-> gathering[s][order[i]]]]
        /\ UNCHANGED <<requestVars, callerVars, approved, why, panelVars, pageVars>>

\* Each caller that still waits gets the verdict on its own item.
Answer(b) ==
    /\ Goto(b, "answering", "over")
    /\ caller' = [r \in Reqs |->
           IF r \notin Members(b) \/ caller[r] # "waiting" THEN caller[r]
           ELSE IF \E i \in approved[b] : members[b][i] = r THEN "allowed" ELSE "denied"]
    /\ approved' = [approved EXCEPT ![b] = {}]
    /\ answered' = answered \ {b}
    /\ cancelled' = cancelled \ {b}
    /\ UNCHANGED <<requestVars, gone, gathering, members, why, gate, dialog, pending, pageVars>>

-----------------------------------------------------------------------------
(* requestCliApprovalPanel *)

UnmovedByBatch == UNCHANGED <<requestVars, callerVars, gathering, members>>

\* Nobody waits, or the renderer cannot serve panels, or it is the gate's turn.
Open(b) ==
    /\ \/ NobodyWaits(b) /\ Goto(b, "asking", "answering") /\ Because({b}, "left")
       \/ ~NobodyWaits(b) /\ ~ready /\ Goto(b, "asking", "native") /\ UNCHANGED why
       \/ ~NobodyWaits(b) /\ ready /\ Goto(b, "asking", "queued") /\ UNCHANGED why
    /\ UnmovedByBatch /\ UNCHANGED <<approved, panelVars, pageVars>>

AcquireGate(b) ==
    /\ Goto(b, "queued", "holding")
    /\ ~gate
    /\ gate' = TRUE
    /\ UnmovedByBatch /\ UNCHANGED <<approved, why, dialog, pending, answered, pageVars>>

\* Mutant: the deferred release covers the gate that was not acquired, too.
LeaveQueueReleasing(b) ==
    /\ Goto(b, "queued", "answering")
    /\ NobodyWaits(b) /\ Because({b}, "left")
    /\ gate' = FALSE
    /\ UnmovedByBatch /\ UNCHANGED <<approved, dialog, pending, answered, pageVars>>

LeaveQueue(b) ==
    /\ Goto(b, "queued", "answering")
    /\ NobodyWaits(b) /\ Because({b}, "left")
    /\ UnmovedByBatch /\ UNCHANGED <<approved, panelVars, pageVars>>

\* An event reaches the page that listens, or none.
Emit(kind, b) == inbox' = IF listening THEN Append(inbox, <<kind, b>>) ELSE inbox

\* Mutant: the return between the gate and the panel keeps the gate.
ShowPanelLeaking(b) ==
    /\ \/ /\ Goto(b, "holding", "answering") /\ NobodyWaits(b) /\ Because({b}, "left")
          /\ UNCHANGED <<gate, pending, inbox>>
       \/ /\ Goto(b, "holding", "waiting") /\ ~NobodyWaits(b)
          /\ pending' = pending \union {b}
          /\ Emit("open", b)
          /\ UNCHANGED <<gate, why>>
    /\ UnmovedByBatch
    /\ UNCHANGED <<approved, dialog, answered, ready, listening, register, shown, sent,
                   reloads, consent>>

\* The context once more; then the panel is registered and emitted.
ShowPanel(b) ==
    /\ \/ /\ Goto(b, "holding", "answering") /\ NobodyWaits(b) /\ Because({b}, "left")
          /\ gate' = FALSE
          /\ UNCHANGED <<pending, inbox>>
       \/ /\ Goto(b, "holding", "waiting") /\ ~NobodyWaits(b)
          /\ pending' = pending \union {b}
          /\ Emit("open", b)
          /\ UNCHANGED <<gate, why>>
    /\ UnmovedByBatch
    /\ UNCHANGED <<approved, dialog, answered, ready, listening, register, shown, sent,
                   reloads, consent>>

\* The answer, unless nobody waits for it any more.
TakeAnswer(b) ==
    /\ Goto(b, "waiting", "answering")
    /\ b \in answered
    /\ IF NobodyWaits(b)
       THEN Because({b}, "left") /\ approved' = [approved EXCEPT ![b] = {}]
       ELSE UNCHANGED <<why, approved>>
    /\ gate' = FALSE
    /\ UnmovedByBatch /\ UNCHANGED <<dialog, pending, answered, pageVars>>

\* The callers left; an answer that is there already may lose the race.
LeavePanel(b) ==
    /\ Goto(b, "waiting", "closing")
    /\ NobodyWaits(b) /\ Because({b}, "left")
    /\ UnmovedByBatch /\ UNCHANGED <<approved, panelVars, pageVars>>

\* Ten minutes have passed.
TimeOut(b) ==
    /\ Goto(b, "waiting", "closing")
    /\ Because({b}, "timeout")
    /\ UnmovedByBatch /\ UNCHANGED <<approved, panelVars, pageVars>>

\* discard, and the event that takes the panel down; a late answer is dropped.
ClosePanel(b) ==
    /\ Goto(b, "closing", "answering")
    /\ pending' = pending \ {b}
    /\ Emit("closed", b)
    /\ approved' = [approved EXCEPT ![b] = {}]
    /\ gate' = FALSE
    /\ UnmovedByBatch
    /\ UNCHANGED <<why, dialog, answered, ready, listening, register, shown, sent, reloads,
                   consent>>

\* Mutant: any panel that waits takes the answer.
ResolveCliApprovalAny ==
    \E call \in sent, b \in Reqs :
        /\ sent' = sent \ {call}
        /\ b \in pending
        /\ pending' = pending \ {b}
        /\ answered' = answered \union {b}
        /\ approved' = [approved EXCEPT ![b] = call[2] \intersect Items(b)]
        /\ Because({b}, "answer")
        /\ UnmovedByBatch
        /\ UNCHANGED <<batch, gate, dialog, ready, listening, register, inbox, shown,
                       reloads, consent>>

\* ResolveCliApproval: an answer to a panel nobody waits for is ignored.
ResolveCliApproval ==
    \E call \in sent :
        LET b == call[1] IN
        /\ sent' = sent \ {call}
        /\ IF b \in pending
           THEN /\ pending' = pending \ {b}
                /\ answered' = answered \union {b}
                /\ approved' = [approved EXCEPT ![b] = call[2]]
                /\ Because({b}, "answer")
           ELSE UNCHANGED <<pending, answered, approved, why>>
        /\ UnmovedByBatch
        /\ UNCHANGED <<batch, gate, dialog, ready, listening, register, inbox, shown,
                       reloads, consent>>

-----------------------------------------------------------------------------
(* The native dialog, while no renderer has registered *)

OpenDialog(b) ==
    /\ Goto(b, "native", "dialog")
    /\ dialog = None
    /\ dialog' = b
    /\ UnmovedByBatch /\ UNCHANGED <<approved, why, gate, pending, answered, pageVars>>

\* The dialog allows all of the batch or nothing; no caller can close it.
AnswerDialog(b) ==
    /\ Goto(b, "dialog", "answering")
    /\ dialog' = None
    /\ Because({b}, "answer")
    /\ \/ /\ approved' = [approved EXCEPT ![b] = Items(b)]
          /\ consent' = consent \union Members(b)
       \/ UNCHANGED <<approved, consent>>
    /\ UnmovedByBatch
    /\ UNCHANGED <<gate, pending, answered, ready, listening, register, inbox, shown,
                   sent, reloads>>

-----------------------------------------------------------------------------
(* The page *)

UnmovedByPage == UNCHANGED <<requestVars, callerVars, gathering, batch, members,
                             gate, dialog>>

\* App mounts: its listeners are attached and RegisterApprovalPanel stores
\* frontendReady ...
LoadPage ==
    /\ ~listening
    /\ listening' = TRUE
    /\ ready' = TRUE
    /\ register' = "ready"
    /\ UnmovedByPage
    /\ UNCHANGED <<approved, why, pending, answered, inbox, shown, sent, reloads, consent>>

\* ... and then denies what is pending: panels of a page that is gone.
RegisterDenyAll ==
    /\ register = "ready"
    /\ register' = "none"
    /\ pending' = {}
    /\ answered' = answered \union pending
    /\ Because(pending, "reload")
    /\ UnmovedByPage
    /\ UNCHANGED <<approved, ready, listening, inbox, shown, sent, reloads, consent>>

\* A reload loses what was on screen and on its way there.  (Bound: not before
\* the page before has finished registering.)
Reload ==
    /\ listening /\ register = "none"
    /\ reloads < MaxReloads
    /\ reloads' = reloads + 1
    /\ listening' = FALSE
    /\ inbox' = <<>>
    /\ shown' = None
    /\ UnmovedByPage
    /\ UNCHANGED <<approved, why, pending, answered, ready, register, sent, consent>>

\* There is one slot: a panel replaces the one before, "closed" clears its own.
Deliver ==
    /\ inbox # <<>>
    /\ inbox' = Tail(inbox)
    /\ LET kind == Head(inbox)[1]
           b == Head(inbox)[2]
       IN  shown' = IF kind = "open" THEN b ELSE IF shown = b THEN None ELSE shown
    /\ UnmovedByPage
    /\ UNCHANGED <<approved, why, pending, answered, ready, listening, register, sent, reloads,
                   consent>>

\* The user answers the panel on screen with the items that are ticked.
Decide ==
    /\ shown # None
    /\ \E ticked \in SUBSET Items(shown) :
          /\ sent' = sent \union {<<shown, ticked>>}
          /\ consent' = consent \union {members[shown][i] : i \in ticked}
    /\ shown' = None
    /\ UnmovedByPage
    /\ UNCHANGED <<approved, why, pending, answered, ready, listening, register, inbox, reloads>>

-----------------------------------------------------------------------------

BatchStep(b) ==
    \/ Open(b) \/ AcquireGate(b) \/ LeaveQueue(b) \/ ShowPanel(b)
    \/ TakeAnswer(b) \/ LeavePanel(b) \/ TimeOut(b) \/ ClosePanel(b) \/ OpenDialog(b)
    \/ Answer(b)

PageStep ==
    LoadPage \/ RegisterDenyAll \/ Reload \/ Deliver \/ Decide

Next ==
    \/ \E r \in Reqs :
          \/ Ask(r) \/ HangUp(r) \/ CancelPanel(r) \/ BatchStep(r) \/ AnswerDialog(r)
    \/ \E s \in Servers : Flush(s)
    \/ ResolveCliApproval
    \/ PageStep

\* Timers fire and goroutines run.  The user need not answer anything, and the
\* page need not load.
Fairness ==
    /\ \A s \in Servers : WF_vars(Flush(s))
    /\ \A r \in Reqs : WF_vars(CancelPanel(r)) /\ WF_vars(BatchStep(r))

Spec == Init /\ [][Next]_vars
FairSpec == Spec /\ Fairness

-----------------------------------------------------------------------------
(* Properties *)

\* "a stale renderer cannot approve anything": a request is allowed only if the
\* user allowed that very request, while it was on screen, whatever panels,
\* reloads, timeouts and late answers came in between.
AllowedByUser == \A r \in Reqs : caller[r] = "allowed" => r \in consent

\* "so one disconnect cannot deny another caller's request": a caller who is
\* still there and was denied owes it to the user, who left the request unticked
\* or refused the native dialog, to the timeout or to a page that registered
\* again, and to no other caller who left, at whatever stage the batch was.
LeaverDeniesNobody ==
    \A b \in Reqs : \A r \in Members(b) :
        caller[r] = "denied" /\ r \notin gone =>
            \/ why[b] \in {"timeout", "reload"}
            \/ why[b] = "answer" /\ r \notin consent

\* "at most one is on screen at a time": the gate is taken exactly when one
\* batch holds it, so no return keeps it or gives back somebody else's.
GateBalanced ==
    Cardinality({b \in Reqs : batch[b] \in {"holding", "waiting", "closing"}})
        = IF gate THEN 1 ELSE 0

\* Every request gets its verdict, also if the user, the page and the other
\* callers do nothing, except behind a native dialog that nobody answers.
EveryRequestAnswered ==
    \A r \in Reqs :
        caller[r] = "waiting" ~>
            \/ caller[r] \in {"allowed", "denied"}
            \/ \E b \in Reqs : r \in Members(b) /\ batch[b] \in {"native", "dialog"}

\* The panels are well formed, and the gate is held by the batch that has it.
Consistent == TypeOK /\ GateBalanced

-----------------------------------------------------------------------------
\* For model checking: requests for one server and one that may be critical or
\* for another server, the ways to share a batch and to meet at the gate, up to
\* renaming.
Third == CHOOSE r \in Reqs : TRUE
Here  == CHOOSE s \in Servers : TRUE

MCInit ==
    /\ Init
    /\ \A r \in Reqs \ {Third} : serverOf[r] = Here /\ r \notin critical
    /\ Third \in critical => serverOf[Third] = Here

MCSpec == MCInit /\ [][Next]_vars /\ Fairness
=============================================================================
