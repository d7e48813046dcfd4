---------------------------- MODULE ExecContract ----------------------------
(***************************************************************************)
(* What the exec handler of the local CLI API promises about one request:  *)
(* its command is started at most once, never after the request has been   *)
(* reported on, and every verdict but "unknown" tells the truth about      *)
(* whether the remote command ran (docs/agent-guide.md, remoteState).      *)
(***************************************************************************)
EXTENDS Naturals

CONSTANT Calls

VARIABLES
    begun,     \* requests the handler has been called for
    starts,    \* exec requests sent to the server on behalf of a request
    verdict    \* what the requester, or the reader of its job, is told

contractVars == <<begun, starts, verdict>>

\* Verdicts that promise that the command did not start.
NeverRan == {"refused", "abandoned", "unconnected", "failed_start", "not_started"}
Verdicts == NeverRan \union {"exited", "unknown"}

CInit ==
    /\ begun = {}
    /\ starts = [c \in Calls |-> 0]
    /\ verdict = [c \in Calls |-> "none"]

Begin(c) ==
    /\ c \notin begun
    /\ begun' = begun \union {c}
    /\ UNCHANGED <<starts, verdict>>

Start(c) ==
    /\ c \in begun /\ verdict[c] = "none" /\ starts[c] = 0
    /\ starts' = [starts EXCEPT ![c] = 1]
    /\ UNCHANGED <<begun, verdict>>

Report(c) ==
    /\ c \in begun /\ verdict[c] = "none"
    /\ \E v \in Verdicts :
          /\ v \in NeverRan => starts[c] = 0
          /\ v = "exited" => starts[c] = 1
          /\ verdict' = [verdict EXCEPT ![c] = v]
    /\ UNCHANGED <<begun, starts>>

CNext == \E c \in Calls : Begin(c) \/ Start(c) \/ Report(c)

CSpec == CInit /\ [][CNext]_contractVars

\* What the verdicts are worth to whoever reads them: a command is started at
\* most once, one that "never ran" did not, one that "exited" did.
Truthful ==
    \A c \in Calls :
        /\ starts[c] \in {0, 1}
        /\ verdict[c] \in NeverRan => starts[c] = 0
        /\ verdict[c] = "exited" => starts[c] = 1
=============================================================================
