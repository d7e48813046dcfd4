------------------------------ MODULE PageCalls ------------------------------
(***************************************************************************)
(* What the components of the page share.  A component is a React          *)
(* component that is mounted, keeps state and references (page), sends     *)
(* calls to the backend and goes on when they are answered (calls), in     *)
(* whatever order that happens.  The sidebar keys a panel by its drawer    *)
(* and by the session, so another session means another mount: the answer  *)
(* of a call of the old mount finds nobody there.                          *)
(*                                                                         *)
(* Each component is a module that extends this one and gives page, calls  *)
(* and world (the hosts, the backend and what lives outside the component) *)
(* the fields it needs.                                                    *)
(***************************************************************************)
EXTENDS Naturals, FiniteSets, Sequences, SequencesExt

CONSTANTS None,      \* no value: null, undefined, ""
          MaxActs,   \* bound on clicks and ticks of timers
          MaxCalls   \* bound on calls on their way at once

VARIABLES page,   \* the mounted component: its state and references
          calls,  \* the calls that were sent and not yet gone on from
          world,  \* what is outside the page
          acts    \* clicks, ticks and changes of session so far

vars == <<page, calls, world, acts>>

(* The user does something, or a timer of the page fires.                  *)
Act == acts < MaxActs /\ acts' = acts + 1

(* A call as the mounted component sends it: who awaits it, for which      *)
(* session, which backend method, and with which arguments.                *)
Call(op, x) == [of |-> page.n, at |-> page.at, op |-> op, x |-> x, st |-> "sent", got |-> None]

Send(more) == Len(calls) + Len(more) <= MaxCalls /\ calls' = calls \o more

(* The call is over for the page; more are sent on the way.                *)
GoOn(i, more) == calls' = RemoveAt(calls, i) \o more

Sent(i, op) == i \in DOMAIN calls /\ calls[i].st = "sent" /\ calls[i].op = op

(* The answer of a call that the mounted component awaits.                 *)
Back(i, op) == i \in DOMAIN calls /\ calls[i].st # "sent" /\ calls[i].op = op /\ calls[i].of = page.n

Served(i, got) == calls' = [calls EXCEPT ![i].st = "ok", ![i].got = got]
Failed(i, got) == calls' = [calls EXCEPT ![i].st = "failed", ![i].got = got]

(* The answer of a call nobody awaits: its component has been unmounted.   *)
(* The calls a module handles even then are named.                         *)
Unheard(heard) == \E i \in DOMAIN calls :
  /\ calls[i].st # "sent" /\ calls[i].op \notin heard
  /\ calls[i].of # page.n
  /\ GoOn(i, << >>)
  /\ UNCHANGED <<page, world, acts>>

Quiet == calls = << >>
=============================================================================
