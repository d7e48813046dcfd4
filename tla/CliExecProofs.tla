--------------------------- MODULE CliExecProofs ---------------------------
(***************************************************************************)
(* Proofs about CliExec for any number of calls and sessions: the handler  *)
(* implements the contract of ExecContract, and so every verdict it gives  *)
(* tells the truth.  The invariant follows a call's goroutine, which alone *)
(* starts the command: as long as its channel has not been closed, its     *)
(* caller is still waiting and has no verdict.                             *)
(***************************************************************************)
EXTENDS CliExec, FiniteSetTheorems, TLAPS

\* A call has its verdict exactly when it is over.
Reported ==
    \A c \in Calls :
        /\ pc[c] = "idle" <=> c \notin begun
        /\ pc[c] = "ended" <=> verdict[c] # "none"

\* The goroutine and the exec requests it has sent.
RunnerSound ==
    \A c \in Calls :
        /\ pc[c] \notin {"waiting", "draining", "ended"} => runner[c] = "none"
        /\ runner[c] \in {"none", "checking", "armed", "refused"} => starts[c] = 0
        /\ runner[c] \in {"running", "exited"} => starts[c] = 1
        /\ runner[c] \in {"checking", "armed"} /\ ~closed[c] => pc[c] = "waiting"

\* A job ends with its call, and is cancelled only on request.
JobSound ==
    \A c \in Calls :
        /\ job[c] \in Terminal => pc[c] = "ended"
        /\ pc[c] = "ended" => job[c] \in Terminal \union {"none"}
        /\ cancelled[c] => asked[c]
        /\ job[c] = "succeeded" => verdict[c] = "exited"
        /\ job[c] = "cancelled" => asked[c] /\ verdict[c] # "exited"

\* Who connects is the leader.
LeaderSound ==
    \A c \in Calls : pc[c] \in {"claimed", "found", "dialing", "dialed"} => leader = c

\* A call runs on a session that has been opened; if it may try another, that
\* one is broken.
Connected ==
    \A c \in Calls :
        /\ conn[c] # None => link[conn[c]] # "unused"
        /\ pc[c] \in {"have", "queued", "exec", "opening", "opened", "retryable"} =>
              conn[c] # None
        /\ pc[c] = "retryable" => link[conn[c]] # "up"

IInv ==
    /\ TypeOK
    /\ Reported
    /\ RunnerSound
    /\ JobSound
    /\ LeaderSound
    /\ Connected

-----------------------------------------------------------------------------
(* The steps of a call *)

\* The state a job ends in says that it exited only if that was observed, and
\* that it was cancelled only if it was not.
LEMMA OutcomeAgrees ==
    ASSUME TypeOK, NEW c \in Calls, NEW exited \in BOOLEAN,
           NEW s \in JobOutcome(c, exited)
    PROVE  /\ s \in Terminal \union {"none"}
           /\ s = "succeeded" => exited
           /\ s = "cancelled" => cancelled[c] /\ ~exited
<1>1. CASE exited /\ job[c] # "none"
  BY <1>1 DEF JobOutcome, Terminal
<1>2. CASE ~(exited /\ job[c] # "none")
  BY <1>2 DEF JobOutcome, JobFailed, Terminal
<1> QED BY <1>1, <1>2

\* A call that is neither over nor connecting may be given its verdict, unless
\* its goroutine can still start the command.
LEMMA VerdictGiven ==
    ASSUME IInv, NEW c \in Calls, NEW from, NEW v \in Contract!Verdicts,
           from \notin {"idle", "ended", "claimed", "found", "dialing", "dialed"},
           Goto(c, from, "ended"), Finish(c, v),
           runner[c] \in {"checking", "armed"} => closed[c]
    PROVE  IInv'
<1> DEFINE exited == v = "exited"
<1>1. PICK s \in JobOutcome(c, exited) : job' = [job EXCEPT ![c] = s]
  BY DEF Finish
<1>2. /\ s \in Terminal \union {"none"}
      /\ s = "succeeded" => exited
      /\ s = "cancelled" => cancelled[c] /\ ~exited
  BY <1>1, OutcomeAgrees DEF IInv
<1>3. v # "none"
  BY DEF Contract!Verdicts, Contract!NeverRan
<1>4. /\ pc[c] = from
      /\ pc' = [pc EXCEPT ![c] = "ended"]
      /\ verdict' = [verdict EXCEPT ![c] = v]
      /\ UNCHANGED <<gone, conn, reused, retried, leader, link, runner, closed,
                     asked, cancelled, begun, starts>>
  BY DEF Goto, Finish, poolVars, runVars
<1> HIDE DEF exited
<1>5. TypeOK'
  BY <1>1, <1>2, <1>4 DEF IInv, TypeOK, Terminal
<1>6. Reported'
  BY <1>3, <1>4 DEF IInv, TypeOK, Reported
<1>7. RunnerSound'
  BY <1>4 DEF IInv, TypeOK, RunnerSound
<1>8. JobSound'
  BY <1>1, <1>2, <1>4 DEF IInv, TypeOK, JobSound, exited
<1>9. LeaderSound' /\ Connected'
  BY <1>4 DEF IInv, TypeOK, LeaderSound, Connected
<1> QED BY <1>5, <1>6, <1>7, <1>8, <1>9 DEF IInv

\* The steps that answer the request, or end its job.
LEMMA VerdictStep ==
    ASSUME IInv, NEW c \in Calls,
           Refuse(c) \/ Abandon(c) \/ NotConnected(c) \/ Observe(c) \/ Drain(c)
             \/ GiveUp(c)
    PROVE  IInv'
<1> USE DEF Contract!Verdicts, Contract!NeverRan
<1>0. pc[c] # "waiting" => (runner[c] \in {"checking", "armed"} => closed[c])
  BY DEF IInv, RunnerSound
<1>1. CASE Refuse(c)
  BY <1>0, <1>1, VerdictGiven DEF Refuse, Goto
<1>2. CASE Abandon(c)
  BY <1>0, <1>2, VerdictGiven DEF Abandon, Goto
<1>3. CASE NotConnected(c)
  <2> DEFINE v == IF ~retried[c] THEN "unconnected"
                  ELSE IF job[c] = "none" THEN "failed_start" ELSE "unknown"
  <2>1. Goto(c, "told", "ended") /\ Finish(c, v)
    BY <1>3 DEF NotConnected
  <2>2. pc[c] = "told"
    BY <2>1 DEF Goto
  <2>3. v \in Contract!Verdicts
    OBVIOUS
  <2> HIDE DEF v
  <2> QED BY <1>0, <2>1, <2>2, <2>3, VerdictGiven
<1>4. CASE Observe(c)
  <2>1. runner[c] \notin {"checking", "armed"}
    BY <1>4 DEF Observe
  <2> QED BY <1>4, <2>1, VerdictGiven DEF Observe
<1>5. CASE Drain(c)
  BY <1>0, <1>5, VerdictGiven DEF Drain, Goto
<1>6. CASE GiveUp(c)
  BY <1>0, <1>6, VerdictGiven DEF GiveUp, Goto
<1> QED BY <1>1, <1>2, <1>3, <1>4, <1>5, <1>6

\* The steps between two calls into the packages below.
LEMMA WayStep ==
    ASSUME IInv, NEW c \in Calls,
           \/ Receive(c) \/ HangUp(c) \/ Allow(c) \/ Proceed(c) \/ Dispatch(c)
           \/ JobRuns(c) \/ AskCancel(c) \/ CancelJob(c)
    PROVE  IInv'
<1> USE DEF Goto, poolVars, runVars, jobVars, IInv, TypeOK, Reported, RunnerSound,
            JobSound, LeaderSound, Connected
<1>1. CASE Receive(c)
  BY <1>1 DEF Receive
<1>2. CASE HangUp(c)
  BY <1>2 DEF HangUp
<1>3. CASE Allow(c)
  BY <1>3 DEF Allow
<1>4. CASE Proceed(c)
  BY <1>4 DEF Proceed
<1>5. CASE Dispatch(c)
  BY <1>5 DEF Dispatch, Terminal
<1>6. CASE JobRuns(c)
  BY <1>6 DEF JobRuns, Terminal
<1>7. CASE AskCancel(c)
  <2>1. CASE cancelled' = cancelled
    BY <1>7, <2>1 DEF AskCancel
  <2>2. CASE cancelled' = [cancelled EXCEPT ![c] = TRUE]
    BY <1>7, <2>2 DEF AskCancel
  <2> QED BY <1>7, <2>1, <2>2 DEF AskCancel
<1>8. CASE CancelJob(c)
  BY <1>8 DEF CancelJob
<1> QED BY SMTT(40), <1>1, <1>2, <1>3, <1>4, <1>5, <1>6, <1>7, <1>8

\* Some callers are told the outcome of a connection: a session that has been
\* opened, or none.
LEMMA Told ==
    ASSUME IInv, NEW S, S \subseteq Calls, NEW x \in Conns \union {None},
           x # None => link[x] # "unused",
           NEW again \in BOOLEAN, Tell(S, x, again),
           \A d \in S : pc[d] \in {"pick", "joined", "found", "dialed"},
           (leader' = leader /\ leader \notin S) \/ leader' = None,
           \A d \in Calls \ S :
               pc[d] \in {"claimed", "found", "dialing", "dialed"} => leader' = d,
           UNCHANGED <<gone, retried, link, runVars, jobVars, begun, starts, verdict>>
    PROVE  IInv'
<1> USE DEF poolVars, runVars, jobVars
<1>1. /\ \A d \in Calls : pc'[d] = IF d \in S THEN "told" ELSE pc[d]
      /\ \A d \in Calls : conn'[d] = IF d \in S THEN x ELSE conn[d]
      /\ \A d \in Calls : reused'[d] \in BOOLEAN
  BY DEF Tell, IInv, TypeOK
<1>2. TypeOK'
  <2>1. /\ pc' \in [Calls -> {"idle", "review", "allowed", "pick", "claim", "joined",
                         "claimed", "found", "dialing", "dialed", "told", "have", "queued", "exec",
                         "opening", "opened", "waiting", "draining", "retryable",
                         "failed", "ended"}]
        /\ conn' \in [Calls -> Conns \union {None}]
    BY DEF Tell, IInv, TypeOK
  <2>2. reused' \in [Calls -> BOOLEAN]
    BY DEF Tell, IInv, TypeOK
  <2>3. /\ leader' \in Calls \union {None}
        /\ leader' # None => pc'[leader'] \in {"claimed", "found", "dialing", "dialed"}
    BY <1>1 DEF IInv, TypeOK
  <2> QED BY <2>1, <2>2, <2>3 DEF IInv, TypeOK
<1>3. Reported' /\ RunnerSound' /\ JobSound'
  BY <1>1 DEF IInv, TypeOK, Reported, RunnerSound, JobSound
<1>4. LeaderSound'
  BY <1>1 DEF IInv, LeaderSound
<1>5. Connected'
  BY <1>1 DEF IInv, Connected
<1> QED BY <1>2, <1>3, <1>4, <1>5 DEF IInv

\* findCliSession before anything is claimed: it answers, or the call is to
\* claim the profile.
LEMMA FindStep ==
    ASSUME IInv, NoneAssumption, NEW c \in Calls, Find(c)
    PROVE  IInv'
<1>1. CASE pc[c] = "pick" /\ \E x \in Conns : link[x] \in Listed /\ Tell({c}, x, TRUE)
  <2>1. PICK x \in Conns : link[x] \in Listed /\ Tell({c}, x, TRUE)
    BY <1>1
  <2>2. UNCHANGED <<gone, retried, poolVars, runVars, jobVars, begun, starts, verdict>>
    BY DEF Find
  <2>3. leader # c
    BY <1>1 DEF IInv, TypeOK, NoneAssumption
  <2>4. leader' = leader /\ UNCHANGED <<gone, retried, link, runVars, jobVars, begun, starts, verdict>>
    BY <2>2 DEF poolVars
  <2>5. link[x] # "unused"
    BY <2>1 DEF Listed
  <2>6. \A d \in Calls \ {c} :
            pc[d] \in {"claimed", "found", "dialing", "dialed"} => leader' = d
    BY <2>4 DEF IInv, LeaderSound
  <2> DEFINE S == {c}
  <2>7. S \subseteq Calls /\ leader \notin S /\ \A d \in S : pc[d] = "pick"
    BY <1>1, <2>3
  <2>8. Tell(S, x, TRUE) /\ \A d \in Calls \ S :
            pc[d] \in {"claimed", "found", "dialing", "dialed"} => leader' = d
    BY <2>1, <2>6
  <2> HIDE DEF S
  <2> QED BY <2>4, <2>5, <2>7, <2>8, Told
<1>2. CASE /\ Goto(c, "pick", "claim")
           /\ UNCHANGED <<conn, reused>>
  BY <1>2 DEF Find, Goto, poolVars, runVars, jobVars, IInv, TypeOK, Reported,
              RunnerSound, JobSound, LeaderSound, Connected
<1> QED BY <1>1, <1>2 DEF Find

\* The leader answers everybody who joined it, and itself.
LEMMA PublishStep ==
    ASSUME IInv, NoneAssumption, NEW c \in Calls, Publish(c)
    PROVE  IInv'
<1> DEFINE S == Sharing(c)
           x == conn[c]
           again == pc[c] = "found"
<1>1. S \subseteq Calls /\ c \in S
  BY DEF Sharing
<1>2. x \in Conns \union {None} /\ (x # None => link[x] # "unused")
  BY DEF IInv, TypeOK, Connected
<1>3. \A d \in S : pc[d] \in {"joined", "found", "dialed"}
  BY DEF Sharing, Publish
<1>4. leader = c
  BY DEF Publish, IInv, LeaderSound
<1>5. \A d \in Calls \ S :
          pc[d] \notin {"claimed", "found", "dialing", "dialed"}
  BY <1>1, <1>4 DEF IInv, LeaderSound
<1>6. /\ Tell(S, x, again) /\ leader' = None
      /\ UNCHANGED <<gone, retried, link, runVars, jobVars, begun, starts, verdict>>
  BY DEF Publish
<1>7. again \in BOOLEAN
  OBVIOUS
<1> HIDE DEF S, x, again
<1> QED BY <1>1, <1>2, <1>3, <1>5, <1>6, <1>7, Told

\* The leader's other steps.
LEMMA ConnectStep ==
    ASSUME IInv, NoneAssumption, NEW c \in Calls,
           Claim(c) \/ FindClaimed(c) \/ Dial(c) \/ Resume(c)
    PROVE  IInv'
<1> USE DEF Goto, poolVars, runVars, jobVars, IInv
<1>1. CASE Claim(c)
  BY <1>1 DEF Claim, TypeOK, Reported, RunnerSound, JobSound, LeaderSound,
              Connected, NoneAssumption
<1>2. CASE FindClaimed(c)
  BY SMTT(40), <1>2 DEF FindClaimed, TypeOK, Reported, RunnerSound, JobSound, LeaderSound,
              Connected, Listed
<1>3. CASE Dial(c)
  BY <1>3 DEF Dial, TypeOK, Reported, RunnerSound, JobSound, LeaderSound,
              Connected, Listed
<1>4. CASE Resume(c)
  BY <1>4 DEF Resume, TypeOK, Reported, RunnerSound, JobSound, LeaderSound, Connected
<1> QED BY <1>1, <1>2, <1>3, <1>4

\* The run of the command, in the caller ...
LEMMA RunStep ==
    ASSUME IInv, NoneAssumption, NEW c \in Calls,
           \/ Lookup(c) \/ Open(c) \/ OpenedTooLate(c) \/ Spawn(c) \/ StopWaiting(c)
           \/ Retry(c)
    PROVE  IInv'
<1> USE DEF Goto, poolVars, runVars, jobVars, IInv
<1>1. CASE Lookup(c)
  BY <1>1 DEF Lookup, TypeOK, Reported, RunnerSound, JobSound, LeaderSound, Connected
<1>2. CASE Open(c)
  BY <1>2 DEF Open, OpenFailure, TypeOK, Reported, RunnerSound, JobSound,
              LeaderSound, Connected
<1>3. CASE OpenedTooLate(c)
  BY <1>3 DEF OpenedTooLate, TypeOK, Reported, RunnerSound, JobSound, LeaderSound,
              Connected
<1>4. CASE Spawn(c)
  BY <1>4 DEF Spawn, TypeOK, Reported, RunnerSound, JobSound, LeaderSound, Connected
<1>5. CASE StopWaiting(c)
  BY <1>5 DEF StopWaiting, TypeOK, Reported, RunnerSound, JobSound, LeaderSound,
              Connected
<1>6. CASE Retry(c)
  <2>1. pc[c] = "retryable" /\ conn[c] \in Conns
    BY <1>6 DEF Retry, MayRetry, TypeOK, Connected
  <2> QED BY <1>6, <2>1 DEF Retry, TypeOK, Reported, RunnerSound, JobSound,
                            LeaderSound, Connected, Listed
<1> QED BY <1>1, <1>2, <1>3, <1>4, <1>5, <1>6

\* ... and in its goroutine.
LEMMA GoroutineStep ==
    ASSUME IInv, NEW c \in Calls, RunnerStep(c)
    PROVE  IInv'
<1> USE DEF Run, poolVars, jobVars, IInv, TypeOK, Reported, RunnerSound, JobSound,
            LeaderSound, Connected
<1>1. CASE RunnerCheck(c)
  BY <1>1 DEF RunnerCheck
<1>2. CASE RunnerStart(c)
  BY <1>2 DEF RunnerStart
<1>3. CASE RunnerEnd(c)
  BY <1>3 DEF RunnerEnd
<1> QED BY <1>1, <1>2, <1>3 DEF RunnerStep

\* A broken session can no longer be "up", and was opened before it broke.
LEMMA LinkStep ==
    ASSUME IInv, NEW x \in Conns, Break(x) \/ Lose(x)
    PROVE  IInv'
<1> USE DEF runVars, jobVars, IInv, TypeOK, Reported, RunnerSound, JobSound,
            LeaderSound, Connected, Listed
<1>1. CASE Break(x)
  BY <1>1 DEF Break
<1>2. CASE Lose(x)
  BY <1>2 DEF Lose
<1> QED BY <1>1, <1>2

\* Before the first request nothing is claimed, run or reported.
LEMMA InitIInv == Init /\ NoneAssumption => IInv
BY DEF Init, Contract!CInit, IInv, TypeOK, Reported, RunnerSound, JobSound,
       LeaderSound, Connected, Terminal, Listed

\* No step of the handler, of a goroutine or of a session breaks it.
LEMMA StepIInv == IInv /\ NoneAssumption /\ [Next]_vars => IInv'
<1> SUFFICES ASSUME IInv, NoneAssumption, [Next]_vars PROVE IInv'
  OBVIOUS
<1>1. CASE UNCHANGED vars
  BY <1>1 DEF vars, poolVars, runVars, jobVars, IInv, TypeOK, Reported, RunnerSound,
              JobSound, LeaderSound, Connected
<1>2. ASSUME NEW c \in Calls,
             \/ Receive(c) \/ HangUp(c) \/ HandlerStep(c) \/ RunnerStep(c)
             \/ AskCancel(c) \/ CancelJob(c)
      PROVE  IInv'
  <2>1. CASE \/ Receive(c) \/ HangUp(c) \/ Allow(c) \/ Proceed(c) \/ Dispatch(c)
             \/ JobRuns(c) \/ AskCancel(c) \/ CancelJob(c)
    BY <2>1, WayStep
  <2>2. CASE \/ Refuse(c) \/ Abandon(c) \/ NotConnected(c) \/ Observe(c) \/ Drain(c)
             \/ GiveUp(c)
    BY <2>2, VerdictStep
  <2>3. CASE Find(c)
    BY <2>3, FindStep
  <2>4. CASE Publish(c)
    BY <2>4, PublishStep
  <2>5. CASE Claim(c) \/ FindClaimed(c) \/ Dial(c) \/ Resume(c)
    BY <2>5, ConnectStep
  <2>6. CASE \/ Lookup(c) \/ Open(c) \/ OpenedTooLate(c) \/ Spawn(c) \/ StopWaiting(c)
             \/ Retry(c)
    BY <2>6, RunStep
  <2>7. CASE RunnerStep(c)
    BY <2>7, GoroutineStep
  <2> QED BY <1>2, <2>1, <2>2, <2>3, <2>4, <2>5, <2>6, <2>7 DEF HandlerStep
<1>3. ASSUME NEW x \in Conns, Break(x) \/ Lose(x)
      PROVE  IInv'
  BY <1>3, LinkStep
<1> QED BY <1>1, <1>2, <1>3 DEF Next

\* The handler keeps the invariant in every behaviour, whatever breaks or hangs up.
THEOREM Inductive == Spec => []IInv
<1> USE NoneAssumption
<1> QED BY InitIInv, StepIInv, PTL DEF Spec

-----------------------------------------------------------------------------
(* What the invariant gives *)

\* One caller at a time is connecting, since only the one that holds cliConnecting
\* does; and a job ends in the state its command's verdict calls for.
THEOREM WellFormed == Spec => []Consistent
<1>1. IInv => Consistent
  <2> SUFFICES ASSUME IInv PROVE OneDial /\ JobAgrees
    BY DEF Consistent, IInv
  <2>1. OneDial
    <3> DEFINE D == {c \in Calls : pc[c] = "dialing"}
    <3>1. D \in SUBSET {leader}
      BY DEF IInv, LeaderSound
    <3>2. IsFiniteSet({leader}) /\ Cardinality({leader}) = 1
      BY FS_Singleton
    <3>3. IsFiniteSet(D) /\ Cardinality(D) <= Cardinality({leader})
      BY <3>1, <3>2, FS_Subset
    <3> QED BY <3>2, <3>3 DEF OneDial
  <2>2. JobAgrees
    BY DEF JobAgrees, IInv, TypeOK, JobSound, Reported, Terminal
  <2> QED BY <2>1, <2>2
<1> QED BY <1>1, Inductive, PTL

\* handleCliExec drops a session for a retry only when its transport is broken.
THEOREM OnlyBrokenSessionsDropped == Spec => HealthySessionKept
<1>1. IInv /\ [Next]_vars =>
        [\A c \in Calls : Retry(c) => link[conn[c]] # "up"]_vars
  BY DEF Retry, MayRetry, IInv, Connected
<1> QED BY <1>1, Inductive, PTL DEF Spec, HealthySessionKept

-----------------------------------------------------------------------------
(* The contract *)

\* What happens to the contract's variables when a call is given its verdict.
LEMMA FinishReports ==
    ASSUME IInv, NEW c \in Calls, NEW v \in Contract!Verdicts,
           pc[c] \notin {"idle", "ended"}, Finish(c, v),
           v \in Contract!NeverRan => starts[c] = 0,
           v = "exited" => starts[c] = 1
    PROVE  Contract!Report(c)
BY DEF Finish, Contract!Report, IInv, TypeOK, Reported

\* A step of the handler is a step of the contract or leaves its variables alone.
LEMMA StepIsContract ==
    ASSUME IInv, [Next]_vars
    PROVE  [Contract!CNext]_(Contract!contractVars)
<1> USE DEF Contract!contractVars, Goto, poolVars, runVars, jobVars
<1>1. CASE UNCHANGED vars
  BY <1>1 DEF vars
<1>2. ASSUME NEW c \in Calls, Receive(c)
      PROVE  Contract!Begin(c)
  BY <1>2 DEF Receive, Contract!Begin, IInv, Reported
<1>3. ASSUME NEW c \in Calls, RunnerStart(c)
      PROVE  Contract!Start(c) \/ UNCHANGED Contract!contractVars
  BY <1>3 DEF RunnerStart, Run, Contract!Start, IInv, TypeOK, Reported, RunnerSound
<1>4. ASSUME NEW c \in Calls,
             \/ Refuse(c) \/ Abandon(c) \/ NotConnected(c) \/ GiveUp(c)
      PROVE  Contract!Report(c)
  <2>1. PICK v \in Contract!Verdicts :
            v # "exited" /\ Finish(c, v)
    BY <1>4 DEF Refuse, Abandon, NotConnected, GiveUp, Contract!Verdicts,
                Contract!NeverRan
  <2>2. pc[c] \notin {"idle", "ended", "waiting", "draining"}
    BY <1>4 DEF Refuse, Abandon, NotConnected, GiveUp
  <2>3. starts[c] = 0
    BY <2>2 DEF IInv, RunnerSound
  <2> QED BY <2>1, <2>2, <2>3, FinishReports
<1>5. ASSUME NEW c \in Calls, Observe(c) \/ Drain(c)
      PROVE  Contract!Report(c)
  <2>1. PICK v \in {"exited", "unknown"} :
            (v = "exited" => runner[c] = "exited") /\ Finish(c, v)
    BY <1>5 DEF Observe, Drain
  <2>2. pc[c] \in {"waiting", "draining"}
    BY <1>5 DEF Observe, Drain
  <2>3. v = "exited" => starts[c] = 1
    BY <2>1 DEF IInv, RunnerSound
  <2> QED BY <2>1, <2>2, <2>3, FinishReports DEF Contract!Verdicts, Contract!NeverRan
<1>6. ASSUME NEW c \in Calls,
             \/ HangUp(c) \/ Allow(c) \/ Proceed(c) \/ Dispatch(c) \/ Find(c)
             \/ Claim(c) \/ FindClaimed(c) \/ Dial(c) \/ Publish(c) \/ Resume(c)
             \/ JobRuns(c) \/ AskCancel(c) \/ CancelJob(c)
      PROVE  UNCHANGED Contract!contractVars
  BY <1>6 DEF HangUp, Allow, Proceed, Dispatch, Find, Claim, FindClaimed, Dial,
              Publish, Resume, JobRuns, AskCancel, CancelJob
<1>7. ASSUME NEW c \in Calls,
             \/ Lookup(c) \/ Open(c) \/ OpenedTooLate(c) \/ Spawn(c)
             \/ StopWaiting(c) \/ Retry(c) \/ RunnerCheck(c) \/ RunnerEnd(c)
      PROVE  UNCHANGED Contract!contractVars
  BY <1>7 DEF Lookup, Open, OpenedTooLate, Spawn, StopWaiting, Retry, RunnerCheck,
              RunnerEnd
<1>8. ASSUME NEW x \in Conns, Break(x) \/ Lose(x)
      PROVE  UNCHANGED Contract!contractVars
  BY <1>8 DEF Break, Lose
<1>9. ASSUME NEW c \in Calls,
             \/ Receive(c) \/ HangUp(c) \/ HandlerStep(c) \/ RunnerStep(c)
             \/ AskCancel(c) \/ CancelJob(c)
      PROVE  \/ Contract!Begin(c) \/ Contract!Start(c) \/ Contract!Report(c)
             \/ UNCHANGED Contract!contractVars
  BY <1>2, <1>3, <1>4, <1>5, <1>6, <1>7, <1>9 DEF HandlerStep, RunnerStep
<1> QED BY <1>1, <1>8, <1>9 DEF Next, Contract!CNext

\* The handler, its goroutines and jobs implement the contract.
THEOREM ContractKept == Spec => ImplementsContract
<1>1. Init => Contract!CInit
  BY DEF Init
<1>2. IInv /\ [Next]_vars => [Contract!CNext]_(Contract!contractVars)
  BY StepIsContract
<1> QED BY <1>1, <1>2, Inductive, PTL DEF Spec, ImplementsContract, Contract!CSpec

-----------------------------------------------------------------------------
(* What the contract is worth *)

\* Under the contract, every verdict tells the truth for good: nothing is
\* started after a verdict.
ContractInv ==
    /\ starts \in [Calls -> {0, 1}]
    /\ verdict \in [Calls -> Contract!Verdicts \union {"none"}]
    /\ Contract!Truthful

\* Each step the contract allows keeps that.
LEMMA ContractStep ==
    ContractInv /\ [Contract!CNext]_(Contract!contractVars) => ContractInv'
<1> SUFFICES ASSUME ContractInv, [Contract!CNext]_(Contract!contractVars)
             PROVE  ContractInv'
  OBVIOUS
<1> USE DEF ContractInv, Contract!Truthful
<1>1. CASE UNCHANGED Contract!contractVars
  BY <1>1 DEF Contract!contractVars
<1>2. ASSUME NEW c \in Calls, Contract!Begin(c) PROVE ContractInv'
  BY <1>2 DEF Contract!Begin
<1>3. ASSUME NEW c \in Calls, Contract!Start(c) PROVE ContractInv'
  BY <1>3 DEF Contract!Start, Contract!NeverRan
<1>4. ASSUME NEW c \in Calls, Contract!Report(c) PROVE ContractInv'
  BY <1>4 DEF Contract!Report
<1> QED BY <1>1, <1>2, <1>3, <1>4 DEF Contract!CNext

\* Whatever keeps the contract tells the truth, in all its states.
THEOREM ContractIsTruthful == Contract!CSpec => []Contract!Truthful
<1>1. Contract!CInit => ContractInv
  BY DEF Contract!CInit, ContractInv, Contract!Truthful, Contract!NeverRan
<1>2. ContractInv => Contract!Truthful
  BY DEF ContractInv
<1> QED BY <1>1, <1>2, ContractStep, PTL DEF Contract!CSpec

\* What the requester, or the reader of its job, is told is true: at most one
\* exec request, none if the command "did not start", one if it "exited".
THEOREM VerdictsAreTrue == Spec => []Contract!Truthful
BY ContractKept, ContractIsTruthful DEF ImplementsContract
=============================================================================
