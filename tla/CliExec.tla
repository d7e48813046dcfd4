------------------------------- MODULE CliExec -------------------------------
(***************************************************************************)
(* The exec handler of the local CLI API, from the request to its verdict: *)
(* handleCliExec and cliSessionForProfile (internal/app/app_cli.go), the   *)
(* background jobs (app_cli_jobs.go) and the run of one command over an    *)
(* exec channel (ExecuteCommandResultStream in backend/ssh/session.go).    *)
(* All calls are for one profile.  The command runs in a goroutine of its  *)
(* own beside the caller that waits for it, and the caller's client may    *)
(* hang up, or its job be cancelled, at any moment.                        *)
(***************************************************************************)
EXTENDS Naturals, FiniteSets, TLC

CONSTANTS
    Calls,
    Conns,     \* SSH sessions of the profile; ids are never used again
    None

ASSUME NoneAssumption == None \notin Calls /\ None \notin Conns

VARIABLES
    pc,
    gone,      \* r.Context() is done: the client has hung up
    conn,      \* sessionID
    reused,    \* reusedConnection
    retried,   \* reconnectAttempted
    leader,    \* App.cliConnecting[profile]
    link,      \* a session: "unused", "up", "stale" (broken, not yet noticed)
               \* or "lost" (no longer in the manager)
    runner,    \* the goroutine in ExecuteCommandResultStream
    closed,    \* sshSession.Close was called while it was running
    job,       \* cliJob.State, "none" for a synchronous call
    asked,     \* cliJob.CancelRequested
    cancelled, \* the job's context is done
    begun, starts, verdict

poolVars == <<leader, link>>
jobVars  == <<job, asked, cancelled>>
runVars  == <<runner, closed>>
vars     == <<pc, gone, conn, reused, retried, poolVars, runVars, jobVars,
              begun, starts, verdict>>

Terminal == {"succeeded", "failed", "cancelled"}
Listed == {"up", "stale"}

Contract == INSTANCE ExecContract

TypeOK ==
    /\ pc \in [Calls -> {"idle", "review", "allowed", "pick", "claim", "joined",
                         "claimed", "found", "dialing", "dialed", "told", "have", "queued", "exec",
                         "opening", "opened", "waiting", "draining", "retryable",
                         "failed", "ended"}]
    /\ gone \in [Calls -> BOOLEAN]
    /\ conn \in [Calls -> Conns \union {None}]
    /\ reused \in [Calls -> BOOLEAN] /\ retried \in [Calls -> BOOLEAN]
    /\ leader \in Calls \union {None}
    /\ leader # None => pc[leader] \in {"claimed", "found", "dialing", "dialed"}
    /\ link \in [Conns -> {"unused", "lost"} \union Listed]
    /\ runner \in [Calls -> {"none", "checking", "armed", "running", "exited",
                             "failed", "refused"}]
    /\ closed \in [Calls -> BOOLEAN]
    /\ job \in [Calls -> {"none", "queued", "running"} \union Terminal]
    /\ asked \in [Calls -> BOOLEAN] /\ cancelled \in [Calls -> BOOLEAN]
    /\ begun \in SUBSET Calls
    /\ starts \in [Calls -> Nat]
    /\ verdict \in [Calls -> Contract!Verdicts \union {"none"}]

Init ==
    /\ pc = [c \in Calls |-> "idle"]
    /\ gone = [c \in Calls |-> FALSE]
    /\ conn = [c \in Calls |-> None]
    /\ reused = [c \in Calls |-> FALSE]
    /\ retried = [c \in Calls |-> FALSE]
    /\ leader = None
    /\ link = [x \in Conns |-> "unused"]
    /\ runner = [c \in Calls |-> "none"]
    /\ closed = [c \in Calls |-> FALSE]
    /\ job = [c \in Calls |-> "none"]
    /\ asked = [c \in Calls |-> FALSE]
    /\ cancelled = [c \in Calls |-> FALSE]
    /\ Contract!CInit

-----------------------------------------------------------------------------
(* Verdicts *)

Goto(c, from, to) == pc[c] = from /\ pc' = [pc EXCEPT ![c] = to]

\* The context the command runs under: the request's, or the job's.
CtxDone(c) == IF job[c] = "none" THEN gone[c] ELSE cancelled[c]

\* The state of a job whose command's exit was not observed.
JobFailed(c) ==
    IF job[c] = "none" THEN "none" ELSE IF cancelled[c] THEN "cancelled" ELSE "failed"

\* Mutant: a cancelled job is cancelled, whatever was observed.
JobOutcomeAsked(c, exited) ==
    IF exited /\ job[c] # "none" /\ ~cancelled[c] THEN {"succeeded", "failed"}
                                                  ELSE {JobFailed(c)}

\* The state a job ends in; the exit code is the remote command's.
JobOutcome(c, exited) ==
    IF exited /\ job[c] # "none" THEN {"succeeded", "failed"} ELSE {JobFailed(c)}

Finish(c, v) ==
    /\ verdict' = [verdict EXCEPT ![c] = v]
    /\ \E s \in JobOutcome(c, v = "exited") : job' = [job EXCEPT ![c] = s]
    /\ UNCHANGED <<gone, conn, reused, retried, poolVars, runVars, asked,
                   cancelled, begun, starts>>

-----------------------------------------------------------------------------
(* handleCliExec up to the choice of a session *)

Receive(c) ==
    /\ Goto(c, "idle", "review")
    /\ begun' = begun \union {c}
    /\ UNCHANGED <<gone, conn, reused, retried, poolVars, runVars, jobVars,
                   starts, verdict>>

\* The client disconnects; the server ends the request's context.
HangUp(c) ==
    /\ pc[c] \notin {"idle", "ended"} /\ job[c] = "none" /\ ~gone[c]
    /\ gone' = [gone EXCEPT ![c] = TRUE]
    /\ UNCHANGED <<pc, conn, reused, retried, poolVars, runVars, jobVars, begun,
                   starts, verdict>>

\* The request is invalid, or the user, or policy, declines it.
Refuse(c) ==
    /\ Goto(c, "review", "ended")
    /\ Finish(c, "refused")

Allow(c) ==
    /\ Goto(c, "review", "allowed")
    /\ UNCHANGED <<gone, conn, reused, retried, poolVars, runVars, jobVars, begun,
                   starts, verdict>>

\* The checks after the approval and after the connection.
Abandon(c) ==
    /\ Goto(c, "allowed", "ended") \/ Goto(c, "have", "ended")
    /\ gone[c]
    /\ Finish(c, "abandoned")

Proceed(c) ==
    /\ ~gone[c]
    /\ Goto(c, "allowed", "pick")
    /\ UNCHANGED <<gone, conn, reused, retried, poolVars, runVars, jobVars, begun,
                   starts, verdict>>

\* Run it here, or hand it to a job and return.
Dispatch(c) ==
    /\ ~gone[c]
    /\ \/ Goto(c, "have", "exec") /\ UNCHANGED job
       \/ Goto(c, "have", "queued") /\ job' = [job EXCEPT ![c] = "queued"]
    /\ UNCHANGED <<gone, conn, reused, retried, poolVars, runVars, asked,
                   cancelled, begun, starts, verdict>>

-----------------------------------------------------------------------------
(* cliSessionForProfile *)

\* The callers that get the result of call c's cliConnectCall.
Sharing(c) == {c} \union {d \in Calls : pc[d] = "joined"}

\* These callers have their result, a session or None.  A retry keeps its
\* reusedConnection.
Tell(S, x, again) ==
    /\ pc' = [c \in Calls |-> IF c \in S THEN "told" ELSE pc[c]]
    /\ conn' = [c \in Calls |-> IF c \in S THEN x ELSE conn[c]]
    /\ reused' = [c \in Calls |-> IF c \in S /\ ~retried[c] THEN again ELSE reused[c]]

\* cliSessionForProfile returns.
Resume(c) ==
    /\ conn[c] # None
    /\ Goto(c, "told", IF retried[c] THEN "exec" ELSE "have")
    /\ UNCHANGED <<gone, conn, reused, retried, poolVars, runVars, jobVars, begun,
                   starts, verdict>>

\* It failed: the request is answered; a retry's run has failed, with an error
\* that does not say that the command did not start.
NotConnected(c) ==
    /\ conn[c] = None
    /\ Goto(c, "told", "ended")
    /\ Finish(c, IF ~retried[c] THEN "unconnected"
                 ELSE IF job[c] = "none" THEN "failed_start" ELSE "unknown")

\* findCliSession, without and then with cliConnecting claimed.
Find(c) ==
    /\ \/ /\ pc[c] = "pick"
          /\ \E x \in Conns : link[x] \in Listed /\ Tell({c}, x, TRUE)
       \/ /\ \A x \in Conns : link[x] \notin Listed
          /\ Goto(c, "pick", "claim")
          /\ UNCHANGED <<conn, reused>>
    /\ UNCHANGED <<gone, retried, poolVars, runVars, jobVars, begun, starts, verdict>>

Claim(c) ==
    /\ \/ leader # None /\ Goto(c, "claim", "joined") /\ UNCHANGED leader
       \/ leader = None /\ Goto(c, "claim", "claimed") /\ leader' = c
    /\ UNCHANGED <<gone, conn, reused, retried, link, runVars, jobVars, begun,
                   starts, verdict>>

\* The leader looks once more before it connects.
FindClaimed(c) ==
    /\ \/ /\ Goto(c, "claimed", "found")
          /\ \E x \in Conns : link[x] \in Listed /\ conn' = [conn EXCEPT ![c] = x]
       \/ /\ Goto(c, "claimed", "dialing")
          /\ \A x \in Conns : link[x] \notin Listed
          /\ conn' = [conn EXCEPT ![c] = None]
    /\ UNCHANGED <<gone, reused, retried, poolVars, runVars, jobVars, begun, starts,
                   verdict>>

\* App.Connect: a new session, one the window opened meanwhile, or an error.
Dial(c) ==
    /\ Goto(c, "dialing", "dialed")
    /\ \/ \E x \in Conns :
             /\ link[x] \in Listed \union {"unused"}
             /\ conn' = [conn EXCEPT ![c] = x]
             /\ link' = [link EXCEPT ![x] = IF @ = "unused" THEN "up" ELSE @]
       \/ UNCHANGED <<conn, link>>
    /\ UNCHANGED <<gone, reused, retried, leader, runVars, jobVars, begun, starts,
                   verdict>>

\* The leader gives up the claim and closes call.done: everybody who joined has
\* its result.
Publish(c) ==
    /\ pc[c] \in {"found", "dialed"}
    /\ Tell(Sharing(c), conn[c], pc[c] = "found")
    /\ leader' = None
    /\ UNCHANGED <<gone, retried, link, runVars, jobVars, begun, starts, verdict>>

-----------------------------------------------------------------------------
(* ExecuteCommandResultStream *)

\* The checks before a channel is opened.
Lookup(c) ==
    /\ \/ Goto(c, "exec", "failed") /\ CtxDone(c)
       \/ Goto(c, "exec", "opening") /\ ~CtxDone(c) /\ link[conn[c]] \in Listed
       \/ Goto(c, "exec", "retryable") /\ ~CtxDone(c) /\ link[conn[c]] = "lost"
    /\ UNCHANGED <<gone, conn, reused, retried, poolVars, runVars, jobVars, begun,
                   starts, verdict>>

\* Mutant: isRetryableChannelOpenError takes a refusal for a broken transport.
OpenFailureRefusalsToo(c) == "retryable"

\* A server that refuses the channel answers; a broken transport does not.
OpenFailure(c) == IF link[conn[c]] = "up" THEN "failed" ELSE "retryable"

\* client.NewSession
Open(c) ==
    /\ \/ Goto(c, "opening", "opened") /\ link[conn[c]] = "up"
       \/ Goto(c, "opening", OpenFailure(c))
    /\ UNCHANGED <<gone, conn, reused, retried, poolVars, runVars, jobVars, begun,
                   starts, verdict>>

\* Cancelled while the channel was opened; or no stdin pipe.
OpenedTooLate(c) ==
    /\ Goto(c, "opened", "failed")
    /\ UNCHANGED <<gone, conn, reused, retried, poolVars, runVars, jobVars, begun,
                   starts, verdict>>

Spawn(c) ==
    /\ Goto(c, "opened", "waiting")
    /\ ~CtxDone(c)
    /\ runner' = [runner EXCEPT ![c] = "checking"]
    /\ UNCHANGED <<gone, conn, reused, retried, poolVars, closed, jobVars, begun,
                   starts, verdict>>

Run(c, from, to) == runner[c] = from /\ runner' = [runner EXCEPT ![c] = to]

\* The goroutine's own check of the context.
RunnerCheck(c) ==
    /\ \/ CtxDone(c) /\ Run(c, "checking", "refused")
       \/ ~CtxDone(c) /\ Run(c, "checking", "armed")
    /\ UNCHANGED <<pc, gone, conn, reused, retried, poolVars, closed, jobVars, begun,
                   starts, verdict>>

\* The exec request.  A closed channel sends nothing; a broken transport may
\* fail before or after the request got through.
RunnerStart(c) ==
    /\ \/ /\ Run(c, "armed", "running")
          /\ ~closed[c] /\ link[conn[c]] # "lost"
          /\ starts' = [starts EXCEPT ![c] = @ + 1]
       \/ /\ Run(c, "armed", "failed")
          /\ closed[c] \/ link[conn[c]] # "up"
          /\ UNCHANGED starts
    /\ UNCHANGED <<pc, gone, conn, reused, retried, poolVars, closed, jobVars, begun,
                   verdict>>

\* An exit status, also one that crosses the closing of the channel; or the
\* channel or the connection goes away without one.
RunnerEnd(c) ==
    /\ \/ Run(c, "running", "exited") /\ link[conn[c]] = "up"
       \/ Run(c, "running", "failed")
    /\ UNCHANGED <<pc, gone, conn, reused, retried, poolVars, closed, jobVars, begun,
                   starts, verdict>>

\* The goroutine is done first.  What it says is wrapped in a result, so a
\* command it refused to start counts as unknown.
Observe(c) ==
    /\ Goto(c, "waiting", "ended")
    /\ runner[c] \in {"exited", "failed", "refused"}
    /\ Finish(c, IF runner[c] = "exited" THEN "exited" ELSE "unknown")

\* Mutant: the channel is left open.
StopWaitingOpen(c) ==
    /\ Goto(c, "waiting", "draining")
    /\ UNCHANGED <<gone, conn, reused, retried, poolVars, runVars, jobVars, begun,
                   starts, verdict>>

\* The context or the timeout is first: close the channel ...
StopWaiting(c) ==
    /\ Goto(c, "waiting", "draining")
    /\ closed' = [closed EXCEPT ![c] = TRUE]
    /\ UNCHANGED <<gone, conn, reused, retried, poolVars, runner, jobVars, begun,
                   starts, verdict>>

\* ... and give the goroutine two seconds.
Drain(c) ==
    /\ Goto(c, "draining", "ended")
    /\ Finish(c, "unknown")

-----------------------------------------------------------------------------
(* A command that did not start *)

\* IsRetryableCommandStartError, on a connection that was there before.
MayRetry(c) == pc[c] = "retryable" /\ ~CtxDone(c) /\ reused[c] /\ ~retried[c]

\* Drop the stale session and get another, once.
Retry(c) ==
    /\ MayRetry(c)
    /\ pc' = [pc EXCEPT ![c] = "pick"]
    /\ retried' = [retried EXCEPT ![c] = TRUE]
    /\ link' = [link EXCEPT ![conn[c]] = "lost"]
    /\ UNCHANGED <<gone, conn, reused, leader, runVars, jobVars, begun, starts,
                   verdict>>

GiveUp(c) ==
    /\ Goto(c, "retryable", "ended") \/ Goto(c, "failed", "ended")
    /\ ~MayRetry(c)
    /\ Finish(c, IF job[c] = "none" THEN "failed_start" ELSE "not_started")

-----------------------------------------------------------------------------
(* Jobs *)

JobRuns(c) ==
    /\ Goto(c, "queued", "exec")
    /\ job' = [job EXCEPT ![c] = "running"]
    /\ UNCHANGED <<gone, conn, reused, retried, poolVars, runVars, asked, cancelled,
                   begun, starts, verdict>>

\* DELETE /cli/jobs, under job.mu; cancelCliJobs takes both steps at once.
AskCancel(c) ==
    /\ job[c] \in {"queued", "running"} /\ ~asked[c]
    /\ asked' = [asked EXCEPT ![c] = TRUE]
    /\ cancelled' \in {cancelled, [cancelled EXCEPT ![c] = TRUE]}
    /\ UNCHANGED <<pc, gone, conn, reused, retried, poolVars, runVars, job, begun,
                   starts, verdict>>

\* ... and after the unlock.
CancelJob(c) ==
    /\ asked[c] /\ ~cancelled[c]
    /\ cancelled' = [cancelled EXCEPT ![c] = TRUE]
    /\ UNCHANGED <<pc, gone, conn, reused, retried, poolVars, runVars, job, asked,
                   begun, starts, verdict>>

-----------------------------------------------------------------------------
(* The sessions *)

\* The transport breaks; the manager drops the session when it notices, or
\* when the user closes it.
Break(x) ==
    /\ link[x] = "up"
    /\ link' = [link EXCEPT ![x] = "stale"]
    /\ UNCHANGED <<pc, gone, conn, reused, retried, leader, runVars, jobVars, begun,
                   starts, verdict>>

Lose(x) ==
    /\ link[x] \in Listed
    /\ link' = [link EXCEPT ![x] = "lost"]
    /\ UNCHANGED <<pc, gone, conn, reused, retried, leader, runVars, jobVars, begun,
                   starts, verdict>>

-----------------------------------------------------------------------------

HandlerStep(c) ==
    \/ Refuse(c) \/ Allow(c) \/ Abandon(c) \/ Proceed(c) \/ Dispatch(c)
    \/ Find(c) \/ Claim(c) \/ FindClaimed(c) \/ Dial(c) \/ Publish(c)
    \/ Resume(c) \/ NotConnected(c)
    \/ JobRuns(c)
    \/ Lookup(c) \/ Open(c) \/ OpenedTooLate(c) \/ Spawn(c)
    \/ Observe(c) \/ StopWaiting(c) \/ Drain(c) \/ Retry(c) \/ GiveUp(c)

RunnerStep(c) == RunnerCheck(c) \/ RunnerStart(c) \/ RunnerEnd(c)

Next ==
    \/ \E c \in Calls : \/ Receive(c) \/ HangUp(c) \/ HandlerStep(c)
                        \/ RunnerStep(c) \/ AskCancel(c) \/ CancelJob(c)
    \/ \E x \in Conns : Break(x) \/ Lose(x)

Spec == Init /\ [][Next]_vars

-----------------------------------------------------------------------------
(* Properties *)

\* Every step is one the contract allows: a command is started at most once,
\* retries included, never after its caller was given a verdict, and a verdict
\* that says it did not run, or exited, is right.
ImplementsContract == Contract!CSpec

\* "Deduplicate concurrent connection attempts for the same profile": one
\* caller at a time is connecting, the retries of others included.
OneDial == Cardinality({c \in Calls : pc[c] = "dialing"}) <= 1

\* A retry takes a session away from everybody who uses it, so it only does
\* that to one that is broken: a server's "explicit channel refusal ... will
\* not be fixed by replacing an otherwise healthy transport".
HealthySessionKept ==
    [][\A c \in Calls : Retry(c) => link[conn[c]] # "up"]_vars

\* A job ends in a state that agrees with what is known of its command: an
\* observed exit is never hidden behind "cancelled", and only a job somebody
\* asked to cancel is cancelled.
JobAgrees ==
    \A c \in Calls :
        /\ job[c] = "succeeded" => verdict[c] = "exited"
        /\ job[c] = "cancelled" => asked[c] /\ verdict[c] # "exited"
        /\ job[c] # "none" => (job[c] \in Terminal <=> verdict[c] # "none")

\* The handler's state is well formed: one caller dials at a time, and a job's
\* state agrees with what is known of its command.
Consistent == TypeOK /\ OneDial /\ JobAgrees

\* For runs without a liveness property: calls and sessions are interchangeable.
Symmetry == Permutations(Calls) \union Permutations(Conns)
=============================================================================
