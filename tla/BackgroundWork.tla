---------------------------- MODULE BackgroundWork ----------------------------
(***************************************************************************)
(* The two components of the page that show what the backend goes on with  *)
(* by itself: the forwards of sessions and the transfers of files.  One of *)
(* them is mounted; they share no state.                                   *)
(***************************************************************************)
EXTENDS PageCalls

CONSTANTS Hosts, Rules,   \* sessions, and the rules of their forwards
          HistoryKept,    \* the ended transfers the history shows
          Fence,          \* the ended transfers that are remembered as such
          MaxJobs         \* bound on transfers that are started

VARIABLE shown   \* the component on the page

(* What the backend is at with a call is not taken for no answer.          *)
ASSUME NoneAssumption == None \notin [step : {"profile", "client", "stopped", "started"}, rules : SUBSET Rules]
ASSUME AmountsAssumption == HistoryKept \in Nat /\ Fence \in Nat /\ MaxJobs \in Nat

Tunnels == INSTANCE TunnelPanel WITH MaxActs <- MaxActs - 1, MaxCalls <- MaxCalls - 1
Moves == INSTANCE Transfers WITH Kept <- HistoryKept

WorkInit ==
  \/ shown = "tunnels" /\ Tunnels!Init
  \/ shown = "transfers" /\ Moves!Init

WorkNext ==
  \/ shown = "tunnels" /\ Tunnels!Next /\ UNCHANGED shown
  \/ shown = "transfers" /\ Moves!Next /\ UNCHANGED shown

WorkSpec == WorkInit /\ [][WorkNext]_<<page, calls, world, acts, shown>>

-----------------------------------------------------------------------------
(* The transfers of files that are shown are those under way; one that has *)
(* ended does not come back, whatever order its events came in, and stands *)
(* in the history once.                                                    *)
TransfersTellTruth == shown = "transfers" => Moves!EndedOnce /\ Moves!ShownAsItIs

(* The forwards of a session end with it, but for those that somebody was  *)
(* about to start; a rule that was added in one session of a profile is    *)
(* kept for the next connection, and one that was removed is not, whatever *)
(* was added, removed or saved meanwhile, there or in another session.     *)
ForwardsKept == shown = "tunnels" => Tunnels!EndWithTheirSession /\ Tunnels!RulesKept
=============================================================================
