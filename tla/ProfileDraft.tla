---------------------------- MODULE ProfileDraft ----------------------------
(***************************************************************************)
(* The draft of an inline editor, kept per profile of a host and outside   *)
(* the component, and the question asked before a draft is given up.       *)
(* A session is a pair of a profile and a number.  A draft is the item it  *)
(* is of, its text, the text it began with, and its identity: every update *)
(* makes another object.                                                   *)
(***************************************************************************)
EXTENDS PageCalls

CONSTANT Profiles

HostSessions == Profiles \X {1, 2}
Profile(s) == s[1]

NewDraft(item, text) == [item |-> item, text |-> text, base |-> text, v |-> acts]
Dirty(d) == d # None /\ d.text # d.base

(* The draft the mounted editor shows.                                     *)
Draft == world.drafts[Profile(page.at)]
SetDraft(d) == world' = [world EXCEPT !.drafts[Profile(page.at)] = d]

Typed == [Draft EXCEPT !.text = acts, !.v = acts]

IsCurrent(c) == world.drafts[Profile(c.at)] # None /\ world.drafts[Profile(c.at)].v = c.x.draft.v
Retired(c) == [world EXCEPT !.drafts[Profile(c.at)] = IF IsCurrent(c) THEN None ELSE @]
MayGoOn(c) == c.st = "ok" /\ IsCurrent(c) /\ c.of = page.n

(* It has been saved, the user typed on in it, or the question about it    *)
(* was on the screen.                                                      *)
KeptDraft(p, saved) ==
  LET d == world.drafts[p] e == world'.drafts[p] IN
  \/ <<p, d.item, d.text>> \in saved
  \/ e # None /\ e.item = d.item /\ e.base = d.base
  \/ page.ask # None /\ Profile(page.at) = p
(* A dirty draft goes only so.                                             *)
Kept(saved) == \A p \in Profiles :
  Dirty(world.drafts[p]) /\ world'.drafts[p] # world.drafts[p] => KeptDraft(p, saved)
=============================================================================
