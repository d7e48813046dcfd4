-------------------------- MODULE BackgroundWorkProofs --------------------------
(***************************************************************************)
(* Proofs about the work that goes on behind the page, for any number of   *)
(* sessions, rules, transfers and calls.  Forwards: what the profile was   *)
(* told and what it has are changed by several calls, one of several steps *)
(* each; the invariant says that they differ only by the calls that have   *)
(* changed one and not yet the other, and that nobody starts forwards for  *)
(* a session that has ended but by a client looked up before it ended.     *)
(* Transfers: the events of a transfer are numbered and come in any        *)
(* order; the invariant says that the last number, and no other, tells how *)
(* the transfer ended, that the page is never ahead of the backend, and    *)
(* that what it does not know yet an event on its way will tell.           *)
(***************************************************************************)
EXTENDS BackgroundWork, FiniteSetTheorems, SequenceTheorems, TLAPS

-----------------------------------------------------------------------------
(* The calls that are on their way *)

\* Removing one element of a sequence keeps the others, in their order.
LEMMA Removed ==
    ASSUME NEW S, NEW s \in Seq(S), NEW i \in DOMAIN s
    PROVE  LET t == RemoveAt(s, i) IN
           /\ t \in Seq(S) /\ Len(t) = Len(s) - 1
           /\ \A k \in DOMAIN t : /\ (IF k < i THEN k ELSE k + 1) \in DOMAIN s \ {i}
                                  /\ t[k] = s[IF k < i THEN k ELSE k + 1]
           /\ ToSet(t) \subseteq ToSet(s)
           /\ ToSet(s) \subseteq ToSet(t) \union {s[i]}
<1> DEFINE u == SubSeq(s, 1, i - 1)
           v == SubSeq(s, i + 1, Len(s))
           t == RemoveAt(s, i)
<1>1. i \in Nat /\ 1 <= i /\ i <= Len(s) /\ Len(s) \in Nat
  BY LenProperties
<1>2. u \in Seq(S) /\ Len(u) = i - 1 /\ \A k \in 1..(i - 1) : u[k] = s[k]
  BY <1>1, SubSeqProperties
<1>3. v \in Seq(S) /\ Len(v) = Len(s) - i /\ \A k \in 1..(Len(s) - i) : v[k] = s[i + k]
  BY <1>1, SubSeqProperties
<1>4. t = u \o v
  BY Zenon DEF RemoveAt
<1> HIDE DEF u, v, t
<1>5. /\ t \in Seq(S) /\ Len(t) = Len(s) - 1
      /\ \A k \in 1..(Len(s) - 1) : t[k] = IF k <= i - 1 THEN u[k] ELSE v[k - (i - 1)]
  <2>1. /\ t \in Seq(S) /\ Len(t) = Len(u) + Len(v)
        /\ \A k \in 1..(Len(u) + Len(v)) : t[k] = IF k <= Len(u) THEN u[k] ELSE v[k - Len(u)]
    BY ONLY <1>2, <1>3, <1>4, ConcatProperties
  <2>2. Len(u) = i - 1 /\ Len(v) = Len(s) - i /\ Len(u) + Len(v) = Len(s) - 1
    BY <1>1, <1>2, <1>3
  <2> QED BY <2>1, <2>2
<1>6. DOMAIN t = 1..(Len(s) - 1) /\ DOMAIN s = 1..Len(s)
  BY <1>1, <1>5, LenProperties
<1>7. \A k \in DOMAIN t : /\ (IF k < i THEN k ELSE k + 1) \in DOMAIN s \ {i}
                          /\ t[k] = s[IF k < i THEN k ELSE k + 1]
  <2> TAKE k \in DOMAIN t
  <2>1. k \in 1..(Len(s) - 1) /\ k \in Int
    BY <1>1, <1>6
  <2>2. CASE k < i
    <3>1. k \in 1..(i - 1) /\ k \in DOMAIN s \ {i} /\ k <= i - 1
      BY <1>1, <1>6, <2>1, <2>2
    <3>2. t[k] = u[k]
      BY <1>5, <2>1, <3>1
    <3>3. u[k] = s[k]
      BY <1>2, <3>1
    <3> QED BY <2>2, <3>1, <3>2, <3>3
  <2>3. CASE ~(k < i)
    <3>1. /\ k - (i - 1) \in 1..(Len(s) - i) /\ k + 1 \in DOMAIN s \ {i}
          /\ i + (k - (i - 1)) = k + 1 /\ ~(k <= i - 1)
      BY <1>1, <1>6, <2>1, <2>3
    <3>2. t[k] = v[k - (i - 1)]
      BY <1>5, <2>1, <3>1
    <3>3. t[k] = s[k + 1]
      BY <1>3, <3>1, <3>2
    <3> QED BY <2>3, <3>1, <3>3
  <2> QED BY <2>2, <2>3
<1>8. ToSet(t) \subseteq ToSet(s)
  BY <1>7 DEF ToSet
<1>9. \A k \in DOMAIN s : s[k] \in ToSet(t) \union {s[i]}
  <2> TAKE k \in DOMAIN s
  <2>1. CASE k < i
    <3>1. k \in DOMAIN t /\ t[k] = s[k]
      BY <1>1, <1>6, <1>7, <2>1
    <3> QED BY <3>1 DEF ToSet
  <2>2. CASE k > i
    <3>1. k - 1 \in DOMAIN t /\ t[k - 1] = s[k]
      BY <1>1, <1>6, <1>7, <2>2
    <3> QED BY <3>1 DEF ToSet
  <2>3. CASE k = i
    BY <2>3
  <2> QED BY <1>1, <1>6, <2>1, <2>2, <2>3
<1>10. ToSet(s) \subseteq ToSet(t) \union {s[i]}
  BY <1>9 DEF ToSet
<1> QED BY <1>5, <1>7, <1>8, <1>10 DEF t

\* Replacing one element of a sequence keeps the others.
LEMMA Replaced ==
    ASSUME NEW S, NEW s \in Seq(S), NEW i \in DOMAIN s, NEW e \in S
    PROVE  LET t == [s EXCEPT ![i] = e] IN
           /\ t \in Seq(S) /\ DOMAIN t = DOMAIN s
           /\ \A k \in DOMAIN s : t[k] = IF k = i THEN e ELSE s[k]
           /\ e \in ToSet(t)
           /\ ToSet(t) \subseteq ToSet(s) \union {e}
           /\ ToSet(s) \subseteq ToSet(t) \union {s[i]}
<1> DEFINE t == [s EXCEPT ![i] = e]
<1>1. t \in Seq(S) /\ DOMAIN t = DOMAIN s
  BY ExceptSeq
<1>2. \A k \in DOMAIN s : t[k] = IF k = i THEN e ELSE s[k]
  OBVIOUS
<1> HIDE DEF t
<1>3. e \in ToSet(t) /\ ToSet(t) \subseteq ToSet(s) \union {e}
  BY <1>1, <1>2 DEF ToSet
<1>4. ToSet(s) \subseteq ToSet(t) \union {s[i]}
  BY <1>1, <1>2 DEF ToSet
<1> QED BY <1>1, <1>2, <1>3, <1>4 DEF t

\* One more element.
LEMMA Joined ==
    ASSUME NEW S, NEW s \in Seq(S), NEW e \in S
    PROVE  LET t == s \o <<e>> IN
           /\ t \in Seq(S) /\ Len(t) = Len(s) + 1
           /\ \A k \in DOMAIN t : t[k] = IF k = Len(s) + 1 THEN e ELSE s[k]
           /\ \A k \in DOMAIN t : k # Len(s) + 1 => k \in DOMAIN s
           /\ ToSet(t) = ToSet(s) \union {e}
<1> DEFINE t == s \o <<e>>
<1>1. <<e>> \in Seq(S) /\ Len(<<e>>) = 1 /\ <<e>>[1] = e
  OBVIOUS
<1>2. /\ t \in Seq(S) /\ Len(t) = Len(s) + 1
      /\ \A k \in 1..(Len(s) + 1) : t[k] = IF k <= Len(s) THEN s[k] ELSE <<e>>[k - Len(s)]
  BY <1>1, ConcatProperties
<1> HIDE DEF t
<1>3. Len(s) \in Nat /\ DOMAIN s = 1..Len(s) /\ DOMAIN t = 1..(Len(s) + 1)
  BY <1>2, LenProperties
<1>4. \A k \in DOMAIN t : t[k] = IF k = Len(s) + 1 THEN e ELSE s[k]
  BY <1>1, <1>2, <1>3
<1>5. ToSet(t) \subseteq ToSet(s) \union {e}
  BY <1>3, <1>4 DEF ToSet
<1>6. ToSet(s) \subseteq ToSet(t)
  BY <1>3, <1>4 DEF ToSet
<1>7. e \in ToSet(t)
  <2>1. Len(s) + 1 \in DOMAIN t /\ t[Len(s) + 1] = e
    BY <1>3, <1>4
  <2> QED BY <2>1 DEF ToSet
<1> QED BY <1>2, <1>3, <1>4, <1>5, <1>6, <1>7 DEF t

-----------------------------------------------------------------------------
(* Forwards of sessions: the invariant *)

BackendSteps == [step : {"profile", "client", "stopped", "started"}, rules : SUBSET Rules]
Answers == {None} \union (SUBSET Rules) \union BackendSteps
ListCalls == [of : Nat, at : Hosts, op : {"list", "restart"}, x : Nat \union {None},
              st : {"sent", "ok", "failed"}, got : Answers]
RuleCalls == [of : Nat, at : Hosts, op : {"add", "remove"}, x : Rules,
              st : {"sent", "ok", "failed"}, got : Answers]
PanelCalls == {c \in ListCalls \union RuleCalls : c.st = "sent" => c.got \in {None} \union BackendSteps}
PanelPages == [n : Nat, at : Hosts, list : Answers, loading : BOOLEAN, seq : Nat, armed : Rules \union {None}]
PanelWorlds == [session : [Hosts -> {"there", "ended", "closed"}],
                opening : [Hosts -> {"waits", "looked", "done"}],
                stored : SUBSET Rules, read : SUBSET Rules, had : SUBSET Rules, told : SUBSET Rules,
                used : SUBSET Rules, unsure : SUBSET Rules,
                active : [Hosts -> SUBSET Rules], late : [Hosts -> SUBSET Rules]]

TunnelsTyped == page \in PanelPages /\ calls \in Seq(PanelCalls) /\ world \in PanelWorlds

\* The calls that the backend is at; the rules they have still to write or to
\* take out; and those that h may still start.
Busy == {c \in ToSet(calls) : c.st = "sent" /\ c.got # None}
Pending(op) == {c.x : c \in {d \in Busy : d.op = op /\ d.got.step = "started"}}
Holds(c) == \/ c.op = "add" /\ c.got.step = "client"
            \/ c.op = "restart" /\ c.got.step \in {"client", "stopped"}
MayStart(h) == (IF world.opening[h] = "looked" THEN world.read ELSE {})
               \union UNION {Tunnels!Means(c) : c \in {d \in Busy : d.at = h /\ Holds(d)}}

\* What was asked for and what is stored differ by what is under way.
RightAbout(r) ==
    /\ r \in world.told /\ r \notin world.stored => r \in Pending("add")
    /\ r \in world.stored /\ r \notin world.told => r \in Pending("remove")
    /\ r \in Pending("add") => r \in world.told
    /\ r \in Pending("remove") => r \notin world.told
Books == \A r : r \notin world.unsure => RightAbout(r)

\* Nothing starts at a session that has ended, but by who was at it then.
EndedAt(h) == world.session[h] # "there" =>
    /\ MayStart(h) \subseteq world.late[h]
    /\ world.session[h] = "closed" => world.active[h] \subseteq world.late[h]
Ended == \A h \in Hosts : EndedAt(h)

TunnelsInv == TunnelsTyped /\ Books /\ Ended

LEMMA InCalls ==
    /\ \A i \in DOMAIN calls : calls[i] \in ToSet(calls)
    /\ \A c \in ToSet(calls) : \E i \in DOMAIN calls : calls[i] = c
BY DEF ToSet

LEMMA AtIs ==
    ASSUME NEW i \in DOMAIN calls, NEW op, NEW step
    PROVE  Tunnels!At(i, op, step) <=> calls[i] \in Busy /\ calls[i].op = op /\ calls[i].got.step = step
BY InCalls DEF Tunnels!At, Tunnels!Sent, Busy

LEMMA ComingIs == \A op : Tunnels!Coming(op) = Pending(op)
<1> TAKE op
<1>1. ASSUME NEW r \in Tunnels!Coming(op) PROVE r \in Pending(op)
  <2>1. PICK i \in DOMAIN calls : Tunnels!At(i, op, "started") /\ r = calls[i].x
    BY DEF Tunnels!Coming
  <2> QED BY <2>1, AtIs DEF Pending
<1>2. ASSUME NEW r \in Pending(op) PROVE r \in Tunnels!Coming(op)
  <2>1. PICK c \in Busy : c.op = op /\ c.got.step = "started" /\ r = c.x
    BY DEF Pending
  <2>2. PICK i \in DOMAIN calls : calls[i] = c
    BY InCalls DEF Busy
  <2> QED BY <2>1, <2>2, AtIs DEF Tunnels!Coming
<1> QED BY <1>1, <1>2

LEMMA LookedIs == \A h : Tunnels!Looked(h) = MayStart(h)
<1> TAKE h
<1> DEFINE I == {k \in DOMAIN calls : calls[k].at = h /\
                   (Tunnels!At(k, "add", "client") \/ Tunnels!At(k, "restart", "client") \/ Tunnels!At(k, "restart", "stopped"))}
           C == {d \in Busy : d.at = h /\ Holds(d)}
<1>1. \A k \in I : calls[k] \in C
  BY AtIs DEF Holds
<1>2. ASSUME NEW c \in C PROVE \E k \in I : calls[k] = c
  <2>1. PICK k \in DOMAIN calls : calls[k] = c
    BY InCalls DEF Busy
  <2> QED BY <2>1, AtIs DEF Holds
<1>3. {Tunnels!Means(calls[k]) : k \in I} = {Tunnels!Means(c) : c \in C}
  <2> HIDE DEF I, C
  <2> QED BY <1>1, <1>2
<1> QED BY <1>3 DEF Tunnels!Looked, MayStart

\* Nobody is at anything else, and the books are the same.
LEMMA BooksStay ==
    ASSUME Books, world'.told = world.told, world'.stored = world.stored, world'.unsure = world.unsure,
           Pending("add")' = Pending("add"), Pending("remove")' = Pending("remove")
    PROVE  Books'
BY DEF Books, RightAbout

LEMMA EndedStay ==
    ASSUME Ended, world'.session = world.session, world'.late = world.late,
           \A h \in Hosts : \/ world.session[h] = "there"
                            \/ /\ MayStart(h)' \subseteq MayStart(h)
                               /\ world'.active[h] \subseteq world.active[h] \union MayStart(h)
    PROVE  Ended'
<1> SUFFICES ASSUME NEW h \in Hosts, world.session[h] # "there" PROVE EndedAt(h)'
  BY DEF Ended, EndedAt
<1>1. EndedAt(h)
  BY DEF Ended
<1> QED BY <1>1 DEF EndedAt

-----------------------------------------------------------------------------
(* Forwards of sessions: steps of the page *)

\* The page sends and goes on from calls: nothing changes for the backend.
LEMMA PageKeeps ==
    ASSUME TunnelsInv, page' \in PanelPages, calls' \in Seq(PanelCalls), Busy' = Busy,
           \/ world' = world
           \/ \E used \in SUBSET Rules : world' = [world EXCEPT !.used = used]
    PROVE  TunnelsInv'
<1>1. /\ world' \in PanelWorlds /\ world'.session = world.session /\ world'.opening = world.opening
      /\ world'.stored = world.stored /\ world'.told = world.told /\ world'.unsure = world.unsure
      /\ world'.read = world.read /\ world'.active = world.active /\ world'.late = world.late
  BY DEF TunnelsInv, TunnelsTyped, PanelWorlds
<1>2. Books'
  BY <1>1, BooksStay DEF TunnelsInv, Pending
<1>3. \A h : MayStart(h)' = MayStart(h)
  BY <1>1 DEF MayStart, Tunnels!Means
<1>4. Ended'
  BY <1>1, <1>3, EndedStay DEF TunnelsInv
<1> QED BY <1>1, <1>2, <1>4 DEF TunnelsInv, TunnelsTyped

\* A call that the backend has not seen yet.
LEMMA CallComes ==
    ASSUME NEW s \in Seq(PanelCalls), NEW c \in PanelCalls, c.got = None, calls' = s \o <<c>>,
           ToSet(s) \subseteq ToSet(calls), Busy \subseteq ToSet(s)
    PROVE  calls' \in Seq(PanelCalls) /\ Busy' = Busy
<1>1. calls' \in Seq(PanelCalls) /\ ToSet(calls') = ToSet(s) \union {c}
  BY Joined
<1> QED BY <1>1 DEF Busy

\* A call that has been answered.
LEMMA CallGoes ==
    ASSUME calls \in Seq(PanelCalls), NEW i \in DOMAIN calls, calls[i].st # "sent"
    PROVE  LET t == Tunnels!RemoveAt(calls, i) IN
           /\ t \in Seq(PanelCalls) /\ t \o << >> = t
           /\ ToSet(t) \subseteq ToSet(calls) /\ Busy \subseteq ToSet(t)
<1> DEFINE t == Tunnels!RemoveAt(calls, i)
<1>1. t = RemoveAt(calls, i)
  BY Zenon DEF Tunnels!RemoveAt, RemoveAt
<1> HIDE DEF t
<1>2. /\ t \in Seq(PanelCalls) /\ ToSet(t) \subseteq ToSet(calls) /\ ToSet(calls) \subseteq ToSet(t) \union {calls[i]}
  BY <1>1, Removed
<1>3. Busy \subseteq ToSet(t)
  BY <1>2 DEF Busy
<1>4. t \o << >> = t
  BY <1>2, ConcatEmptySeq
<1> QED BY <1>2, <1>3, <1>4 DEF t

\* The page changes, and may send a call.
LEMMA PanelSends ==
    ASSUME TunnelsInv, page' \in PanelPages, UNCHANGED world,
           calls' = calls \/ \E c \in PanelCalls : c.got = None /\ calls' = calls \o <<c>>
    PROVE  TunnelsInv'
<1>1. calls \in Seq(PanelCalls) /\ Busy \subseteq ToSet(calls)
  BY DEF TunnelsInv, TunnelsTyped, Busy
<1>2. CASE calls' = calls
  BY <1>1, <1>2, PageKeeps DEF Busy
<1>3. CASE \E c \in PanelCalls : c.got = None /\ calls' = calls \o <<c>>
  BY <1>1, <1>3, CallComes, PageKeeps
<1> QED BY <1>2, <1>3

\* The page goes on from an answer, and may send a call.
LEMMA PanelGoesOn ==
    ASSUME TunnelsInv, page' \in PanelPages, UNCHANGED world, NEW i \in DOMAIN calls, calls[i].st # "sent",
           \/ Tunnels!GoOn(i, << >>)
           \/ \E c \in PanelCalls : c.got = None /\ Tunnels!GoOn(i, <<c>>)
    PROVE  TunnelsInv'
<1> DEFINE t == Tunnels!RemoveAt(calls, i)
<1>1. /\ t \in Seq(PanelCalls) /\ t \o << >> = t
      /\ ToSet(t) \subseteq ToSet(calls) /\ Busy \subseteq ToSet(t)
  BY CallGoes DEF TunnelsInv, TunnelsTyped
<1>2. CASE Tunnels!GoOn(i, << >>)
  <2>1. calls' = t
    BY <1>1, <1>2 DEF Tunnels!GoOn
  <2> HIDE DEF t
  <2>2. Busy' = Busy
    BY <1>1, <2>1 DEF Busy
  <2> QED BY <1>1, <2>1, <2>2, PageKeeps
<1>3. CASE \E c \in PanelCalls : c.got = None /\ Tunnels!GoOn(i, <<c>>)
  <2>1. PICK c \in PanelCalls : c.got = None /\ calls' = t \o <<c>>
    BY <1>3 DEF Tunnels!GoOn
  <2> HIDE DEF t
  <2>2. calls' \in Seq(PanelCalls) /\ Busy' = Busy
    BY <1>1, <2>1, CallComes
  <2> QED BY <2>2, PageKeeps
<1> QED BY <1>2, <1>3

\* The calls that the page sends.
LEMMA PanelCallIs ==
    ASSUME page \in PanelPages
    PROVE  /\ Tunnels!List \in PanelCalls /\ Tunnels!List.got = None
           /\ LET c == Tunnels!Call("restart", None) IN c \in PanelCalls /\ c.got = None
           /\ \A op \in {"add", "remove"}, r \in Rules :
                 LET c == Tunnels!Call(op, r) IN c \in PanelCalls /\ c.got = None
           /\ \A h \in Hosts : LET c == [Tunnels!Call("list", 1) EXCEPT !.of = page.n + 1, !.at = h] IN
                 c \in PanelCalls /\ c.got = None
<1>1. page.n \in Nat /\ page.n + 1 \in Nat /\ page.seq + 1 \in Nat /\ page.at \in Hosts
  BY DEF PanelPages
<1>2. \A op \in {"list", "restart"}, x \in Nat \union {None} :
        Tunnels!Call(op, x) \in ListCalls /\ Tunnels!Call(op, x).got = None
  BY <1>1 DEF Tunnels!Call, ListCalls, Answers
<1>3. \A op \in {"add", "remove"}, r \in Rules :
        Tunnels!Call(op, r) \in RuleCalls /\ Tunnels!Call(op, r).got = None
  BY <1>1 DEF Tunnels!Call, RuleCalls, Answers
<1>4. ASSUME NEW h \in Hosts
      PROVE  LET c == [Tunnels!Call("list", 1) EXCEPT !.of = page.n + 1, !.at = h] IN c \in ListCalls /\ c.got = None
  <2> DEFINE d == Tunnels!Call("list", 1)
  <2>1. d \in ListCalls /\ d.got = None
    BY <1>2
  <2> HIDE DEF d
  <2>2. [d EXCEPT !.of = page.n + 1, !.at = h] \in ListCalls /\ [d EXCEPT !.of = page.n + 1, !.at = h].got = None
    BY <1>1, <2>1 DEF ListCalls
  <2> QED BY <2>2 DEF d
<1> QED BY <1>1, <1>2, <1>3, <1>4 DEF Tunnels!List, PanelCalls

LEMMA AskedPage ==
    ASSUME page \in PanelPages
    PROVE  Tunnels!Ask(page) \in PanelPages
<1>1. page.seq + 1 \in Nat
  BY DEF PanelPages
<1>2. Tunnels!Ask(page) = [page EXCEPT !.seq = page.seq + 1, !.loading = TRUE]
  BY DEF Tunnels!Ask, PanelPages
<1> QED BY <1>1, <1>2 DEF PanelPages

\* Clicks and the timer.
LEMMA ClickKeeps ==
    ASSUME TunnelsInv,
           \/ Tunnels!RefreshClicked \/ Tunnels!Restart \/ Tunnels!ArmExpires
           \/ \E r \in Rules : Tunnels!AddTunnel(r) \/ Tunnels!RemoveTunnel(r)
           \/ \E h \in Hosts : Tunnels!Remount(h)
    PROVE  TunnelsInv'
<1>1. page \in PanelPages /\ calls \in Seq(PanelCalls) /\ world \in PanelWorlds
  BY DEF TunnelsInv, TunnelsTyped
<1>2. CASE Tunnels!RefreshClicked
  BY <1>1, <1>2, AskedPage, PanelCallIs, PanelSends DEF Tunnels!RefreshClicked, Tunnels!Send
<1>3. CASE Tunnels!Restart
  BY <1>1, <1>3, PanelCallIs, PanelSends DEF Tunnels!Restart, Tunnels!Send
<1>4. CASE Tunnels!ArmExpires
  <2>1. page' \in PanelPages /\ calls' = calls /\ world' = world
    BY <1>1, <1>4 DEF Tunnels!ArmExpires, PanelPages
  <2> QED BY <2>1, PanelSends
<1>5. ASSUME NEW r \in Rules, Tunnels!AddTunnel(r) PROVE TunnelsInv'
  <2>1. page' = page /\ calls' = calls \o <<Tunnels!Call("add", r)>> /\ world' = [world EXCEPT !.used = @ \cup {r}]
    BY <1>5 DEF Tunnels!AddTunnel, Tunnels!Send
  <2>2. calls' \in Seq(PanelCalls) /\ Busy' = Busy
    <3>1. Busy \subseteq ToSet(calls)
      BY DEF Busy
    <3> QED BY <1>1, <2>1, <3>1, PanelCallIs, CallComes
  <2>3. \E used \in SUBSET Rules : world' = [world EXCEPT !.used = used]
    BY <1>1, <2>1 DEF PanelWorlds
  <2> QED BY <1>1, <2>1, <2>2, <2>3, PageKeeps
<1>6. ASSUME NEW r \in Rules, Tunnels!RemoveTunnel(r) PROVE TunnelsInv'
  <2>1. page' \in PanelPages /\ UNCHANGED world
    BY <1>1, <1>6 DEF Tunnels!RemoveTunnel, PanelPages
  <2>2. calls' = calls \/ calls' = calls \o <<Tunnels!Call("remove", r)>>
    BY <1>6 DEF Tunnels!RemoveTunnel, Tunnels!Send
  <2> QED BY <1>1, <2>1, <2>2, PanelCallIs, PanelSends
<1>7. ASSUME NEW h \in Hosts, Tunnels!Remount(h) PROVE TunnelsInv'
  <2>1. page' \in PanelPages /\ UNCHANGED world
    <3>1. page.n + 1 \in Nat
      BY <1>1 DEF PanelPages
    <3> QED BY <1>7, <3>1 DEF Tunnels!Remount, Tunnels!Fresh, PanelPages, Answers
  <2>2. calls' = calls \o <<[Tunnels!Call("list", 1) EXCEPT !.of = page.n + 1, !.at = h]>>
    BY <1>7 DEF Tunnels!Remount, Tunnels!Send
  <2> QED BY <1>1, <2>1, <2>2, PanelCallIs, PanelSends
<1> QED BY <1>2, <1>3, <1>4, <1>5, <1>6, <1>7

\* The page goes on from an answer, or nobody does.
LEMMA AnswerKeeps ==
    ASSUME TunnelsInv,
           \/ Tunnels!ListAnswered \/ Tunnels!RestartAnswered \/ Tunnels!AddAnswered
           \/ Tunnels!RemoveAnswered \/ Tunnels!Unheard({})
    PROVE  TunnelsInv'
<1>1. page \in PanelPages /\ calls \in Seq(PanelCalls) /\ world \in PanelWorlds
  BY DEF TunnelsInv, TunnelsTyped
<1>2. \A i \in DOMAIN calls : calls[i] \in PanelCalls /\ calls[i].got \in Answers
  BY <1>1 DEF PanelCalls, ListCalls, RuleCalls
<1>3. CASE Tunnels!ListAnswered
  <2>1. PICK i \in DOMAIN calls :
          /\ Tunnels!Back(i, "list") /\ Tunnels!GoOn(i, << >>) /\ UNCHANGED <<world, acts>>
          /\ page' = IF calls[i].x # page.seq THEN page
                     ELSE [page EXCEPT !.loading = FALSE, !.list = IF calls[i].st = "ok" THEN calls[i].got ELSE @]
    BY <1>3 DEF Tunnels!ListAnswered
  <2>2. page' \in PanelPages
    BY <1>1, <1>2, <2>1 DEF PanelPages
  <2> QED BY <2>1, <2>2, PanelGoesOn DEF Tunnels!Back
<1>4. CASE Tunnels!RestartAnswered
  <2>1. PICK i \in DOMAIN calls :
          /\ Tunnels!Back(i, "restart") /\ Tunnels!GoOn(i, << >>) /\ UNCHANGED <<world, acts>>
          /\ page' = IF calls[i].st = "ok" THEN [page EXCEPT !.list = calls[i].got] ELSE page
    BY <1>4 DEF Tunnels!RestartAnswered
  <2>2. page' \in PanelPages
    BY <1>1, <1>2, <2>1 DEF PanelPages
  <2> QED BY <2>1, <2>2, PanelGoesOn DEF Tunnels!Back
<1>5. CASE Tunnels!AddAnswered \/ Tunnels!RemoveAnswered
  <2>1. PICK i \in DOMAIN calls :
          /\ calls[i].st # "sent" /\ world' = world
          /\ \/ page' = Tunnels!Ask(page) /\ Tunnels!GoOn(i, <<Tunnels!List>>)
             \/ page' = page /\ Tunnels!GoOn(i, << >>)
    BY <1>5 DEF Tunnels!AddAnswered, Tunnels!RemoveAnswered, Tunnels!Back
  <2>2. page' \in PanelPages
    BY <1>1, <2>1, AskedPage
  <2> QED BY <1>1, <2>1, <2>2, PanelCallIs, PanelGoesOn
<1>6. CASE Tunnels!Unheard({})
  BY <1>1, <1>6, PanelGoesOn DEF Tunnels!Unheard
<1> QED BY <1>3, <1>4, <1>5, <1>6

-----------------------------------------------------------------------------
(* Forwards of sessions: steps of the backend *)

\* The backend goes on with one call.
LEMMA Turns ==
    ASSUME calls \in Seq(PanelCalls), NEW i \in DOMAIN calls, NEW e \in PanelCalls, calls' = [calls EXCEPT ![i] = e]
    PROVE  /\ calls' \in Seq(PanelCalls)
           /\ Busy' \subseteq Busy \union {e} /\ Busy \subseteq Busy' \union {calls[i]}
           /\ e \in Busy' <=> e.st = "sent" /\ e.got # None
<1>1. /\ calls' \in Seq(PanelCalls) /\ e \in ToSet(calls')
      /\ ToSet(calls') \subseteq ToSet(calls) \union {e} /\ ToSet(calls) \subseteq ToSet(calls') \union {calls[i]}
  BY Replaced
<1> QED BY <1>1 DEF Busy

LEMMA AnsweredIs ==
    ASSUME calls \in Seq(PanelCalls), NEW i \in DOMAIN calls, NEW got \in Answers,
           Tunnels!Served(i, got) \/ Tunnels!Failed(i, got)
    PROVE  \E e \in PanelCalls : calls' = [calls EXCEPT ![i] = e] /\ e.st # "sent"
<1>1. calls[i] \in ListCalls \union RuleCalls
  BY DEF PanelCalls
<1>2. ASSUME NEW st \in {"ok", "failed"}, calls' = [calls EXCEPT ![i].st = st, ![i].got = got]
      PROVE  \E e \in PanelCalls : calls' = [calls EXCEPT ![i] = e] /\ e.st # "sent"
  <2> DEFINE c == calls[i]
             e == [c EXCEPT !.st = st, !.got = got]
  <2>1. e \in ListCalls \union RuleCalls /\ e.st = st
    <3> HIDE DEF c
    <3> QED BY <1>1 DEF c, ListCalls, RuleCalls
  <2>2. calls' = [calls EXCEPT ![i] = e]
    BY <1>2, Zenon
  <2> HIDE DEF e
  <2> QED BY <2>1, <2>2 DEF PanelCalls
<1> QED BY <1>2 DEF Tunnels!Served, Tunnels!Failed

LEMMA StepIs ==
    ASSUME calls \in Seq(PanelCalls), NEW i \in DOMAIN calls, calls[i].st = "sent",
           NEW step \in {"profile", "client", "stopped", "started"}, NEW rules \in SUBSET Rules,
           Tunnels!Step(i, step, rules)
    PROVE  \E e \in PanelCalls : /\ calls' = [calls EXCEPT ![i] = e]
                                 /\ e.st = "sent" /\ e.op = calls[i].op /\ e.at = calls[i].at /\ e.x = calls[i].x
                                 /\ e.got # None /\ e.got.step = step /\ e.got.rules = rules
<1> DEFINE c == calls[i]
           g == [step |-> step, rules |-> rules]
           e == [c EXCEPT !.got = g]
<1>1. c \in ListCalls \union RuleCalls
  BY DEF PanelCalls
<1>2. g \in BackendSteps /\ g \in Answers /\ g # None /\ g.step = step /\ g.rules = rules
  BY NoneAssumption DEF BackendSteps, Answers
<1>3. calls' = [calls EXCEPT ![i] = e]
  BY Zenon DEF Tunnels!Step
<1>4. /\ e \in ListCalls \union RuleCalls
      /\ e.st = c.st /\ e.op = c.op /\ e.at = c.at /\ e.x = c.x /\ e.got = g
  <2> HIDE DEF c, g
  <2> QED BY <1>1, <1>2 DEF ListCalls, RuleCalls
<1> HIDE DEF e, g
<1> QED BY <1>2, <1>3, <1>4 DEF PanelCalls

\* A call that the backend is at, and one that it has not looked at.
LEMMA BusyIs ==
    ASSUME calls \in Seq(PanelCalls)
    PROVE  /\ \A c \in Busy : /\ c \in PanelCalls /\ c.st = "sent" /\ c.got \in BackendSteps
                              /\ c.got.rules \in SUBSET Rules /\ c.at \in Hosts
                              /\ c.op \in {"add", "remove"} => c.x \in Rules
           /\ \A i \in DOMAIN calls : calls[i] \in PanelCalls /\ calls[i].at \in Hosts
           /\ \A i \in DOMAIN calls : \A op : Tunnels!Begin(i, op) =>
                 calls[i].st = "sent" /\ calls[i].op = op /\ calls[i] \notin Busy
<1>1. \A i \in DOMAIN calls : calls[i] \in PanelCalls /\ calls[i].at \in Hosts
  BY DEF PanelCalls, ListCalls, RuleCalls
<1>2. ASSUME NEW c \in Busy
      PROVE  /\ c \in PanelCalls /\ c.st = "sent" /\ c.got \in BackendSteps
             /\ c.got.rules \in SUBSET Rules /\ c.at \in Hosts
             /\ c.op \in {"add", "remove"} => c.x \in Rules
  <2>1. c \in PanelCalls /\ c.st = "sent" /\ c.got # None
    BY <1>1, InCalls DEF Busy
  <2>2. c.got \in BackendSteps
    BY <2>1 DEF PanelCalls
  <2>3. c.got.rules \in SUBSET Rules
    BY <2>2 DEF BackendSteps
  <2> QED BY <2>1, <2>2, <2>3 DEF PanelCalls, ListCalls, RuleCalls
<1> QED BY <1>1, <1>2 DEF Busy, Tunnels!Begin, Tunnels!Sent

LEMMA MayStartRules ==
    ASSUME TunnelsTyped, NEW h \in Hosts
    PROVE  MayStart(h) \in SUBSET Rules
<1>1. calls \in Seq(PanelCalls) /\ world.read \in SUBSET Rules
  BY DEF TunnelsTyped, PanelWorlds
<1>2. \A c \in Busy : Holds(c) => Tunnels!Means(c) \in SUBSET Rules
  BY <1>1, BusyIs DEF Holds, Tunnels!Means
<1> QED BY <1>1, <1>2 DEF MayStart

\* What somebody may start at a session, from whom it comes.
LEMMA MayStartFrom ==
    ASSUME NEW h \in Hosts, world'.opening[h] = "looked" => world'.read \subseteq MayStart(h),
           \A c \in Busy' : c.at = h /\ Holds(c) => Tunnels!Means(c) \subseteq MayStart(h)
    PROVE  MayStart(h)' \subseteq MayStart(h)
<1> DEFINE M == MayStart(h)
<1>1. MayStart(h)' = (IF world'.opening[h] = "looked" THEN world'.read ELSE {})
                     \union UNION {Tunnels!Means(c) : c \in {d \in Busy' : d.at = h /\ Holds(d)}}
  BY DEF MayStart, Holds, Tunnels!Means
<1>2. world'.opening[h] = "looked" => world'.read \subseteq M
  OBVIOUS
<1>3. \A c \in Busy' : c.at = h /\ Holds(c) => Tunnels!Means(c) \subseteq M
  OBVIOUS
<1> HIDE DEF M
<1>4. MayStart(h)' \subseteq M
  BY <1>1, <1>2, <1>3
<1> QED BY <1>4 DEF M

\* Who may start something.
LEMMA Starters ==
    /\ \A h : world.opening[h] = "looked" => world.read \subseteq MayStart(h)
    /\ \A c \in Busy : Holds(c) => Tunnels!Means(c) \subseteq MayStart(c.at)
BY DEF MayStart

\* One call goes on; who looks up the client of a session finds it there.
LEMMA TurnStarts ==
    ASSUME NEW i, NEW e, Busy' \subseteq Busy \union {e}, NEW h \in Hosts,
           world'.opening[h] = world.opening[h], world'.read = world.read,
           e \in Busy' /\ e.at = h /\ Holds(e) => Tunnels!Means(e) \subseteq MayStart(h)
    PROVE  MayStart(h)' \subseteq MayStart(h)
<1>1. \A c \in Busy' : c.at = h /\ Holds(c) => Tunnels!Means(c) \subseteq MayStart(h)
  BY Starters
<1> QED BY <1>1, Starters, MayStartFrom

\* One call goes on, from no write and to none, and nothing is started but by
\* who may.
LEMMA LooksKeep ==
    ASSUME TunnelsInv, page' = page, NEW i \in DOMAIN calls, NEW e \in PanelCalls, calls' = [calls EXCEPT ![i] = e],
           calls[i] \in Busy => calls[i].got.step # "started",
           e.st = "sent" /\ e.got # None =>
               /\ e.at = calls[i].at /\ e.got.step # "started"
               /\ \/ world.session[e.at] = "there"
                  \/ calls[i] \in Busy /\ Holds(calls[i]) /\ Tunnels!Means(e) \subseteq Tunnels!Means(calls[i]),
           NEW active \in [Hosts -> SUBSET Rules], world' = [world EXCEPT !.active = active],
           \A h \in Hosts : active[h] \subseteq world.active[h] \union MayStart(h)
    PROVE  TunnelsInv'
<1>1. calls \in Seq(PanelCalls) /\ page \in PanelPages /\ world \in PanelWorlds
  BY DEF TunnelsInv, TunnelsTyped
<1>2. /\ world' \in PanelWorlds /\ world'.session = world.session /\ world'.opening = world.opening
      /\ world'.stored = world.stored /\ world'.told = world.told /\ world'.unsure = world.unsure
      /\ world'.read = world.read /\ world'.active = active /\ world'.late = world.late
  BY <1>1 DEF PanelWorlds
<1>3. /\ calls' \in Seq(PanelCalls)
      /\ Busy' \subseteq Busy \union {e} /\ Busy \subseteq Busy' \union {calls[i]}
      /\ e \in Busy' <=> e.st = "sent" /\ e.got # None
  BY <1>1, Turns
<1>4. \A op : Pending(op)' = Pending(op)
  BY <1>3 DEF Pending
<1>5. Books'
  BY <1>2, <1>4, BooksStay DEF TunnelsInv
<1>6. ASSUME NEW h \in Hosts, world.session[h] # "there" PROVE MayStart(h)' \subseteq MayStart(h)
  <2>1. e \in Busy' /\ e.at = h /\ Holds(e) => Tunnels!Means(e) \subseteq MayStart(h)
    BY <1>3, <1>6, Starters
  <2> QED BY <1>2, <1>3, <2>1, TurnStarts
<1>7. Ended'
  BY <1>2, <1>6, EndedStay DEF TunnelsInv
<1> QED BY <1>1, <1>2, <1>3, <1>5, <1>7 DEF TunnelsInv, TunnelsTyped

\* The same, when nothing is started or stopped.
LEMMA OnlyLooks ==
    ASSUME TunnelsInv, page' = page, world' = world,
           NEW i \in DOMAIN calls, NEW e \in PanelCalls, calls' = [calls EXCEPT ![i] = e],
           calls[i] \in Busy => calls[i].got.step # "started",
           e.st = "sent" /\ e.got # None =>
               /\ e.at = calls[i].at /\ e.got.step # "started" /\ world.session[e.at] = "there"
    PROVE  TunnelsInv'
<1> DEFINE active == world.active
<1>1. world \in PanelWorlds
  BY DEF TunnelsInv, TunnelsTyped
<1>2. active \in [Hosts -> SUBSET Rules] /\ world' = [world EXCEPT !.active = active]
  BY <1>1 DEF PanelWorlds
<1>3. \A h \in Hosts : active[h] \subseteq world.active[h] \union MayStart(h)
  OBVIOUS
<1> HIDE DEF active
<1> QED BY <1>2, <1>3, LooksKeep

\* Calls that look around, that end at once, or that restart the forwards.
LEMMA LookupsKeep ==
    ASSUME TunnelsInv,
           \/ Tunnels!ListStatus \/ Tunnels!Refuse \/ Tunnels!RestartReads \/ Tunnels!RestartLooks
           \/ Tunnels!RestartStops \/ Tunnels!RestartStarts \/ Tunnels!AddLooks
    PROVE  TunnelsInv'
<1>1. calls \in Seq(PanelCalls) /\ page \in PanelPages /\ world \in PanelWorlds
  BY DEF TunnelsInv, TunnelsTyped
<1>2. /\ world.stored \in SUBSET Rules /\ world.active \in [Hosts -> SUBSET Rules]
      /\ None \in Answers /\ SUBSET Rules \subseteq Answers
  BY <1>1 DEF PanelWorlds, Answers
<1>3. CASE Tunnels!ListStatus \/ Tunnels!Refuse
  <2>1. PICK i \in DOMAIN calls :
          /\ page' = page /\ world' = world
          /\ \/ Tunnels!At(i, "restart", "profile") \/ Tunnels!Begin(i, "list") \/ Tunnels!Begin(i, "restart")
             \/ Tunnels!Begin(i, "add") \/ Tunnels!Begin(i, "remove")
          /\ Tunnels!Served(i, world.active[calls[i].at]) \/ Tunnels!Failed(i, None)
    BY <1>3 DEF Tunnels!ListStatus, Tunnels!Refuse, Tunnels!Backend
  <2>2. world.active[calls[i].at] \in Answers
    BY <1>1, <1>2, BusyIs
  <2>3. PICK e \in PanelCalls : calls' = [calls EXCEPT ![i] = e] /\ e.st # "sent"
    BY <1>1, <1>2, <2>1, <2>2, AnsweredIs
  <2>4. calls[i] \in Busy => calls[i].got.step # "started"
    BY <1>1, <2>1, BusyIs, AtIs
  <2> QED BY <2>1, <2>3, <2>4, OnlyLooks
<1>4. CASE Tunnels!RestartReads
  <2>1. PICK i \in DOMAIN calls :
          /\ page' = page /\ world' = world /\ Tunnels!Begin(i, "restart") /\ world.session[calls[i].at] = "there"
          /\ Tunnels!Step(i, "profile", world.stored)
    BY <1>4 DEF Tunnels!RestartReads, Tunnels!Backend, Tunnels!There
  <2>2. calls[i].st = "sent" /\ calls[i] \notin Busy
    BY <1>1, <2>1, BusyIs
  <2>3. PICK e \in PanelCalls : calls' = [calls EXCEPT ![i] = e] /\ e.at = calls[i].at /\ e.got.step = "profile"
    BY <1>1, <1>2, <2>1, <2>2, StepIs
  <2> QED BY <2>1, <2>2, <2>3, OnlyLooks
<1>5. CASE Tunnels!RestartLooks
  <2>1. PICK i \in DOMAIN calls :
          /\ page' = page /\ world' = world /\ Tunnels!At(i, "restart", "profile")
          /\ world.session[calls[i].at] = "there" /\ Tunnels!Step(i, "client", calls[i].got.rules)
    BY <1>5 DEF Tunnels!RestartLooks, Tunnels!Backend, Tunnels!There
  <2>2. calls[i].got.step = "profile" /\ calls[i].st = "sent" /\ calls[i].got.rules \in SUBSET Rules
    BY <1>1, <2>1, BusyIs, AtIs
  <2>3. PICK e \in PanelCalls : calls' = [calls EXCEPT ![i] = e] /\ e.at = calls[i].at /\ e.got.step = "client"
    BY <1>1, <2>1, <2>2, StepIs
  <2> QED BY <2>1, <2>2, <2>3, OnlyLooks
<1>6. CASE Tunnels!RestartStops
  <2>1. PICK i \in DOMAIN calls :
          /\ page' = page /\ Tunnels!At(i, "restart", "client") /\ Tunnels!Step(i, "stopped", calls[i].got.rules)
          /\ world' = [world EXCEPT !.active[calls[i].at] = {}]
    BY <1>6 DEF Tunnels!RestartStops, Tunnels!Backend
  <2>2. /\ calls[i] \in Busy /\ calls[i].op = "restart" /\ calls[i].got.step = "client" /\ calls[i].st = "sent"
        /\ calls[i].got.rules \in SUBSET Rules /\ calls[i].at \in Hosts
    BY <1>1, <2>1, BusyIs, AtIs
  <2>3. PICK e \in PanelCalls :
          /\ calls' = [calls EXCEPT ![i] = e]
          /\ e.at = calls[i].at /\ e.op = "restart" /\ e.got.step = "stopped" /\ e.got.rules = calls[i].got.rules
    BY <1>1, <2>1, <2>2, StepIs
  <2>4. Holds(calls[i]) /\ Tunnels!Means(e) \subseteq Tunnels!Means(calls[i])
    BY <2>2, <2>3 DEF Holds, Tunnels!Means
  <2> DEFINE active == [world.active EXCEPT ![calls[i].at] = {}]
  <2>5. active \in [Hosts -> SUBSET Rules] /\ world' = [world EXCEPT !.active = active]
    BY <1>1, <1>2, <2>1, <2>2 DEF PanelWorlds
  <2>6. \A h \in Hosts : active[h] \subseteq world.active[h] \union MayStart(h)
    BY <1>2, <2>2
  <2> HIDE DEF active
  <2> QED BY <2>1, <2>2, <2>3, <2>4, <2>5, <2>6, LooksKeep
<1>7. CASE Tunnels!RestartStarts
  <2>0. PICK i \in DOMAIN calls : \E ok \in SUBSET calls[i].got.rules :
          /\ page' = page /\ Tunnels!At(i, "restart", "stopped") /\ Tunnels!Served(i, calls[i].got.rules)
          /\ world' = [world EXCEPT !.active[calls[i].at] = ok]
    BY <1>7 DEF Tunnels!RestartStarts, Tunnels!Backend
  <2>1. PICK ok \in SUBSET calls[i].got.rules :
          /\ page' = page /\ Tunnels!At(i, "restart", "stopped") /\ Tunnels!Served(i, calls[i].got.rules)
          /\ world' = [world EXCEPT !.active[calls[i].at] = ok]
    BY <2>0
  <2>2. /\ calls[i] \in Busy /\ calls[i].op = "restart" /\ calls[i].got.step = "stopped"
        /\ calls[i].got.rules \in SUBSET Rules /\ calls[i].at \in Hosts
    BY <1>1, <2>1, BusyIs, AtIs
  <2>3. PICK e \in PanelCalls : calls' = [calls EXCEPT ![i] = e] /\ e.st # "sent"
    BY <1>1, <1>2, <2>1, <2>2, AnsweredIs
  <2>4. ok \in SUBSET Rules /\ ok \subseteq MayStart(calls[i].at)
    BY <2>1, <2>2, Starters DEF Holds, Tunnels!Means
  <2> DEFINE active == [world.active EXCEPT ![calls[i].at] = ok]
  <2>5. active \in [Hosts -> SUBSET Rules] /\ world' = [world EXCEPT !.active = active]
    BY <1>1, <1>2, <2>1, <2>2, <2>4 DEF PanelWorlds
  <2>6. \A h \in Hosts : active[h] \subseteq world.active[h] \union MayStart(h)
    BY <1>2, <2>2, <2>4
  <2> HIDE DEF active
  <2> QED BY <2>1, <2>2, <2>3, <2>5, <2>6, LooksKeep
<1>8. CASE Tunnels!AddLooks
  <2>1. PICK i \in DOMAIN calls :
          /\ page' = page /\ world' = world /\ Tunnels!Begin(i, "add") /\ world.session[calls[i].at] = "there"
          /\ Tunnels!Step(i, "client", {})
    BY <1>8 DEF Tunnels!AddLooks, Tunnels!Backend, Tunnels!There
  <2>2. calls[i].st = "sent" /\ calls[i] \notin Busy
    BY <1>1, <2>1, BusyIs
  <2>3. PICK e \in PanelCalls : calls' = [calls EXCEPT ![i] = e] /\ e.at = calls[i].at /\ e.got.step = "client"
    BY <1>1, <2>1, <2>2, StepIs
  <2> QED BY <2>1, <2>2, <2>3, OnlyLooks
<1> QED BY <1>3, <1>4, <1>5, <1>6, <1>7, <1>8

\* A forward is started for a rule that is added.
LEMMA AddStartsKeeps ==
    ASSUME TunnelsInv, Tunnels!AddStarts
    PROVE  TunnelsInv'
<1>1. calls \in Seq(PanelCalls) /\ page \in PanelPages /\ world \in PanelWorlds
  BY DEF TunnelsInv, TunnelsTyped
<1>2. PICK i \in DOMAIN calls :
        /\ Tunnels!At(i, "add", "client") /\ page' = page
        /\ \/ Tunnels!Served(i, None) /\ world' = world
           \/ /\ Tunnels!Step(i, "started", {})
              /\ world' = [world EXCEPT !.active[calls[i].at] = @ \cup {calls[i].x}, !.told = @ \cup {calls[i].x},
                                        !.unsure = @ \cup ({calls[i].x} \cap Tunnels!Coming("remove"))]
  BY DEF Tunnels!AddStarts, Tunnels!Backend
<1>3. /\ calls[i] \in Busy /\ calls[i].op = "add" /\ calls[i].got.step = "client" /\ calls[i].st = "sent"
      /\ calls[i].at \in Hosts /\ calls[i].x \in Rules
  BY <1>1, <1>2, BusyIs, AtIs
<1>4. CASE Tunnels!Served(i, None) /\ world' = world
  <2>1. PICK e \in PanelCalls : calls' = [calls EXCEPT ![i] = e] /\ e.st # "sent"
    BY <1>1, <1>4, AnsweredIs DEF Answers
  <2> QED BY <1>2, <1>3, <1>4, <2>1, OnlyLooks
<1>5. CASE /\ Tunnels!Step(i, "started", {})
           /\ world' = [world EXCEPT !.active[calls[i].at] = @ \cup {calls[i].x}, !.told = @ \cup {calls[i].x},
                                     !.unsure = @ \cup ({calls[i].x} \cap Tunnels!Coming("remove"))]
  <2> DEFINE r == calls[i].x
             h == calls[i].at
  <2>1. PICK e \in PanelCalls :
          /\ calls' = [calls EXCEPT ![i] = e]
          /\ e.st = "sent" /\ e.op = "add" /\ e.at = h /\ e.x = r /\ e.got # None /\ e.got.step = "started"
    BY <1>1, <1>3, <1>5, StepIs
  <2>2. /\ world' \in PanelWorlds /\ world'.session = world.session /\ world'.opening = world.opening
        /\ world'.stored = world.stored /\ world'.read = world.read /\ world'.late = world.late
        /\ world'.told = world.told \union {r} /\ world'.active = [world.active EXCEPT ![h] = @ \union {r}]
        /\ world'.unsure = world.unsure \union ({r} \cap Pending("remove"))
    <3>1. world.unsure \union ({r} \cap Pending("remove")) \in SUBSET Rules /\ Tunnels!Coming("remove") = Pending("remove")
      BY <1>1, <1>3, ComingIs DEF PanelWorlds
    <3> QED BY <1>1, <1>3, <1>5, <3>1 DEF PanelWorlds
  <2>3. /\ calls' \in Seq(PanelCalls)
        /\ Busy' \subseteq Busy \union {e} /\ Busy \subseteq Busy' \union {calls[i]} /\ e \in Busy'
    BY <1>1, <2>1, Turns
  <2>4. Pending("add")' = Pending("add") \union {r} /\ Pending("remove")' = Pending("remove")
    <3>1. \A c \in Busy : c.got.step = "started" => c \in Busy'
      BY <1>3, <2>3
    <3>2. \A c \in Busy' : c.op = "remove" => c \in Busy
      BY <2>1, <2>3
    <3> QED BY <2>1, <2>3, <3>1, <3>2 DEF Pending
  <2>5. Books'
    <3> HIDE DEF r
    <3> QED BY <2>2, <2>4 DEF TunnelsInv, Books, RightAbout
  <2>6. \A k \in Hosts : MayStart(k)' \subseteq MayStart(k)
    BY <2>1, <2>2, <2>3, TurnStarts DEF Holds
  <2>7. \A k \in Hosts : world'.active[k] \subseteq world.active[k] \union MayStart(k)
    <3>1. r \in MayStart(h)
      BY <1>3, Starters DEF Holds, Tunnels!Means
    <3>2. world.active \in [Hosts -> SUBSET Rules]
      BY <1>1 DEF PanelWorlds
    <3> HIDE DEF r, h
    <3> QED BY <2>2, <3>1, <3>2
  <2>8. Ended'
    BY <2>2, <2>6, <2>7, EndedStay DEF TunnelsInv
  <2> QED BY <1>1, <1>2, <2>2, <2>3, <2>5, <2>8 DEF TunnelsInv, TunnelsTyped
<1> QED BY <1>2, <1>4, <1>5

\* The forward of a rule that is removed is stopped.
LEMMA RemoveStopsKeeps ==
    ASSUME TunnelsInv, Tunnels!RemoveStops
    PROVE  TunnelsInv'
<1>1. calls \in Seq(PanelCalls) /\ page \in PanelPages /\ world \in PanelWorlds
  BY DEF TunnelsInv, TunnelsTyped
<1>2. PICK i \in DOMAIN calls :
        /\ Tunnels!Begin(i, "remove") /\ page' = page /\ Tunnels!Step(i, "started", {})
        /\ world' = [world EXCEPT !.active[calls[i].at] = @ \ {calls[i].x}, !.told = @ \ {calls[i].x},
                                  !.unsure = @ \cup ({calls[i].x} \cap Tunnels!Coming("add"))]
  BY DEF Tunnels!RemoveStops, Tunnels!Backend
<1> DEFINE r == calls[i].x
           h == calls[i].at
<1>3. calls[i].st = "sent" /\ calls[i].op = "remove" /\ calls[i] \notin Busy /\ calls[i] \in PanelCalls /\ h \in Hosts
  BY <1>1, <1>2, BusyIs
<1>4. r \in Rules
  BY <1>3 DEF PanelCalls, ListCalls, RuleCalls
<1>5. PICK e \in PanelCalls :
        /\ calls' = [calls EXCEPT ![i] = e]
        /\ e.st = "sent" /\ e.op = "remove" /\ e.at = h /\ e.x = r /\ e.got # None /\ e.got.step = "started"
  BY <1>1, <1>2, <1>3, StepIs
<1>6. /\ world' \in PanelWorlds /\ world'.session = world.session /\ world'.opening = world.opening
      /\ world'.stored = world.stored /\ world'.read = world.read /\ world'.late = world.late
      /\ world'.told = world.told \ {r} /\ world'.active = [world.active EXCEPT ![h] = @ \ {r}]
      /\ world'.unsure = world.unsure \union ({r} \cap Pending("add"))
  <2>1. world.unsure \union ({r} \cap Pending("add")) \in SUBSET Rules /\ Tunnels!Coming("add") = Pending("add")
    BY <1>1, <1>4, ComingIs DEF PanelWorlds
  <2> QED BY <1>1, <1>2, <1>3, <2>1 DEF PanelWorlds
<1>7. /\ calls' \in Seq(PanelCalls)
      /\ Busy' \subseteq Busy \union {e} /\ Busy \subseteq Busy' \union {calls[i]} /\ e \in Busy'
  BY <1>1, <1>5, Turns
<1>8. Pending("remove")' = Pending("remove") \union {r} /\ Pending("add")' = Pending("add")
  <2>1. Busy \subseteq Busy'
    BY <1>3, <1>7
  <2>2. \A c \in Busy' : c.op = "add" => c \in Busy
    BY <1>5, <1>7
  <2> QED BY <1>5, <1>7, <2>1, <2>2 DEF Pending
<1>9. Books'
  <2> HIDE DEF r
  <2> QED BY <1>6, <1>8 DEF TunnelsInv, Books, RightAbout
<1>10. \A k \in Hosts : MayStart(k)' \subseteq MayStart(k)
  BY <1>5, <1>6, <1>7, TurnStarts DEF Holds
<1>11. \A k \in Hosts : world'.active[k] \subseteq world.active[k]
  <2>1. world.active \in [Hosts -> SUBSET Rules]
    BY <1>1 DEF PanelWorlds
  <2> HIDE DEF r, h
  <2> QED BY <1>6, <2>1
<1>12. Ended'
  BY <1>6, <1>10, <1>11, EndedStay DEF TunnelsInv
<1> QED BY <1>1, <1>2, <1>6, <1>7, <1>9, <1>12 DEF TunnelsInv, TunnelsTyped

\* The profile is written, or not.
LEMMA StoreKeeps ==
    ASSUME TunnelsInv, Tunnels!Store
    PROVE  TunnelsInv'
<1>1. calls \in Seq(PanelCalls) /\ page \in PanelPages /\ world \in PanelWorlds
  BY DEF TunnelsInv, TunnelsTyped
<1>2. PICK i \in DOMAIN calls :
        /\ Tunnels!At(i, "add", "started") \/ Tunnels!At(i, "remove", "started")
        /\ Tunnels!Served(i, None) /\ page' = page
        /\ \/ world' = [world EXCEPT !.stored = Tunnels!Written(calls[i], @),
                                     !.had = @ \cup Tunnels!Written(calls[i], world.stored)]
           \/ world' = [world EXCEPT !.unsure = @ \cup {calls[i].x}]
  BY DEF Tunnels!Store, Tunnels!Backend
<1> DEFINE c == calls[i]
           r == c.x
<1>3. c \in Busy /\ c.op \in {"add", "remove"} /\ c.got.step = "started" /\ r \in Rules
  BY <1>1, <1>2, BusyIs, AtIs
<1>4. PICK e \in PanelCalls : calls' = [calls EXCEPT ![i] = e] /\ e.st # "sent"
  BY <1>1, <1>2, AnsweredIs DEF Answers
<1>5. /\ calls' \in Seq(PanelCalls)
      /\ Busy' \subseteq Busy \union {e} /\ Busy \subseteq Busy' \union {c} /\ e \notin Busy'
  BY <1>1, <1>4, Turns
<1>6. /\ world' \in PanelWorlds /\ world'.session = world.session /\ world'.opening = world.opening
      /\ world'.read = world.read /\ world'.late = world.late /\ world'.told = world.told
      /\ world'.active = world.active
      /\ \/ world'.stored = Tunnels!Written(c, world.stored) /\ world'.unsure = world.unsure
         \/ world'.stored = world.stored /\ world'.unsure = world.unsure \union {r}
  <2>1. \A rules \in SUBSET Rules : Tunnels!Written(c, rules) \in SUBSET Rules
    BY <1>3 DEF Tunnels!Written
  <2> DEFINE W == Tunnels!Written(c, world.stored)
             U == world.unsure \union {r}
  <2>2. W \in SUBSET Rules /\ U \in SUBSET Rules /\ world.had \union W \in SUBSET Rules
    BY <1>1, <1>3, <2>1 DEF PanelWorlds
  <2>3. \/ world' = [world EXCEPT !.stored = W, !.had = world.had \union W]
        \/ world' = [world EXCEPT !.unsure = U]
    BY <1>1, <1>2 DEF PanelWorlds
  <2> HIDE DEF W, U
  <2>4. CASE world' = [world EXCEPT !.stored = W, !.had = world.had \union W]
    <3>1. /\ world' \in PanelWorlds /\ world'.session = world.session /\ world'.opening = world.opening
          /\ world'.read = world.read /\ world'.late = world.late /\ world'.told = world.told
          /\ world'.active = world.active /\ world'.stored = W /\ world'.unsure = world.unsure
      BY <1>1, <2>2, <2>4 DEF PanelWorlds
    <3> QED BY <3>1 DEF W
  <2>5. CASE world' = [world EXCEPT !.unsure = U]
    <3>1. /\ world' \in PanelWorlds /\ world'.session = world.session /\ world'.opening = world.opening
          /\ world'.read = world.read /\ world'.late = world.late /\ world'.told = world.told
          /\ world'.active = world.active /\ world'.stored = world.stored /\ world'.unsure = U
      BY <1>1, <2>2, <2>5 DEF PanelWorlds
    <3> QED BY <3>1 DEF U
  <2> QED BY <2>3, <2>4, <2>5
<1>7. /\ Pending("add")' \subseteq Pending("add") /\ Pending("remove")' \subseteq Pending("remove")
      /\ c.op = "add" => r \in Pending("add") /\ Pending("remove")' = Pending("remove")
                         /\ Pending("add") \subseteq Pending("add")' \union {r}
      /\ c.op = "remove" => r \in Pending("remove") /\ Pending("add")' = Pending("add")
                            /\ Pending("remove") \subseteq Pending("remove")' \union {r}
  <2> HIDE DEF c
  <2> QED BY <1>3, <1>5 DEF Pending
<1>8. Books'
  <2> HIDE DEF c, r
  <2> SUFFICES ASSUME NEW s, s \notin world'.unsure PROVE RightAbout(s)'
    BY DEF Books
  <2>1. RightAbout(s)
    BY <1>6 DEF TunnelsInv, Books
  <2>2. CASE s # r
    BY <1>3, <1>6, <1>7, <2>1, <2>2 DEF RightAbout, Tunnels!Written, r
  <2>3. CASE s = r
    BY <1>3, <1>6, <1>7, <2>1, <2>3 DEF RightAbout, Tunnels!Written, r
  <2> QED BY <2>2, <2>3
<1>9. \A k \in Hosts : MayStart(k)' \subseteq MayStart(k)
  BY <1>5, <1>6, TurnStarts
<1>10. Ended'
  BY <1>6, <1>9, EndedStay DEF TunnelsInv
<1> QED BY <1>1, <1>2, <1>5, <1>6, <1>8, <1>10 DEF TunnelsInv, TunnelsTyped

\* The page's copy of the profile is saved.
LEMMA SaveKeeps ==
    ASSUME TunnelsInv, NEW rules \in SUBSET Rules, Tunnels!SaveProfile(rules)
    PROVE  TunnelsInv'
<1>1. calls \in Seq(PanelCalls) /\ page \in PanelPages /\ world \in PanelWorlds
  BY DEF TunnelsInv, TunnelsTyped
<1>2. page' = page /\ calls' = calls
  BY DEF Tunnels!SaveProfile
<1>3. \A op : Pending(op)' = Pending(op) /\ Tunnels!Coming(op) = Pending(op)
  BY <1>2, ComingIs DEF Pending, Busy
<1>4. Pending("add") \subseteq Rules
  BY <1>1, BusyIs DEF Pending
<1>5. /\ world' \in PanelWorlds /\ world'.session = world.session /\ world'.opening = world.opening
      /\ world'.read = world.read /\ world'.late = world.late /\ world'.active = world.active
      /\ world'.stored = rules /\ world'.unsure = world.unsure
      /\ world'.told = (rules \union Pending("add")) \ Pending("remove")
  BY <1>1, <1>3, <1>4 DEF Tunnels!SaveProfile, PanelWorlds
<1>6. Books'
  BY <1>3, <1>5 DEF TunnelsInv, Books, RightAbout
<1>7. \A k \in Hosts : MayStart(k)' = MayStart(k)
  BY <1>2, <1>5 DEF MayStart, Busy, Holds, Tunnels!Means
<1>8. Ended'
  BY <1>5, <1>7, EndedStay DEF TunnelsInv
<1> QED BY <1>1, <1>2, <1>5, <1>6, <1>8 DEF TunnelsInv, TunnelsTyped

\* A session is connected or ends.
LEMMA SessionKeeps ==
    ASSUME TunnelsInv, NEW h \in Hosts,
           Tunnels!ConnectLooks(h) \/ Tunnels!ConnectStarts(h) \/ Tunnels!Ends(h) \/ Tunnels!OnClosed(h)
    PROVE  TunnelsInv'
<1>1. calls \in Seq(PanelCalls) /\ page \in PanelPages /\ world \in PanelWorlds
  BY DEF TunnelsInv, TunnelsTyped
<1>2. page' = page /\ calls' = calls
  BY DEF Tunnels!ConnectLooks, Tunnels!ConnectStarts, Tunnels!Ends, Tunnels!OnClosed
<1>3. Busy' = Busy /\ \A op : Pending(op)' = Pending(op)
  BY <1>2 DEF Pending, Busy
<1>4. MayStart(h) \in SUBSET Rules /\ Tunnels!Looked(h) = MayStart(h)
  BY MayStartRules, LookedIs DEF TunnelsInv
<1>5. /\ world.session \in [Hosts -> {"there", "ended", "closed"}]
      /\ world.opening \in [Hosts -> {"waits", "looked", "done"}]
      /\ world.active \in [Hosts -> SUBSET Rules] /\ world.late \in [Hosts -> SUBSET Rules]
      /\ world.read \in SUBSET Rules
  BY <1>1 DEF PanelWorlds
<1>6. /\ world' \in PanelWorlds
      /\ world'.stored = world.stored /\ world'.told = world.told /\ world'.unsure = world.unsure
      /\ world'.read = world.read
      /\ \A k \in Hosts \ {h} : /\ world'.session[k] = world.session[k] /\ world'.opening[k] = world.opening[k]
                                /\ world'.late[k] = world.late[k] /\ world'.active[k] = world.active[k]
  <2>1. CASE Tunnels!ConnectLooks(h)
    BY <1>1, <2>1 DEF Tunnels!ConnectLooks, PanelWorlds
  <2>2. CASE Tunnels!ConnectStarts(h)
    <3>0. PICK ok \in SUBSET world.read : world' = [world EXCEPT !.active[h] = ok, !.opening[h] = "done"]
      BY <2>2 DEF Tunnels!ConnectStarts
    <3> DEFINE opening == [world.opening EXCEPT ![h] = "done"]
               active == [world.active EXCEPT ![h] = ok]
    <3>1. world' = [world EXCEPT !.opening = opening, !.active = active]
      BY <1>1, <3>0 DEF PanelWorlds
    <3>2. /\ opening \in [Hosts -> {"waits", "looked", "done"}] /\ active \in [Hosts -> SUBSET Rules]
          /\ \A k \in Hosts \ {h} : opening[k] = world.opening[k] /\ active[k] = world.active[k]
      BY <1>5, <3>0
    <3> HIDE DEF opening, active
    <3> QED BY <1>1, <3>1, <3>2 DEF PanelWorlds
  <2>3. CASE Tunnels!Ends(h)
    <3> DEFINE session == [world.session EXCEPT ![h] = "ended"]
               late == [world.late EXCEPT ![h] = MayStart(h)]
    <3>1. world' = [world EXCEPT !.session = session, !.late = late]
      BY <1>1, <1>4, <2>3 DEF Tunnels!Ends, PanelWorlds
    <3>2. /\ session \in [Hosts -> {"there", "ended", "closed"}] /\ late \in [Hosts -> SUBSET Rules]
          /\ \A k \in Hosts \ {h} : session[k] = world.session[k] /\ late[k] = world.late[k]
      BY <1>4, <1>5
    <3> HIDE DEF session, late
    <3> QED BY <1>1, <3>1, <3>2 DEF PanelWorlds
  <2>4. CASE Tunnels!OnClosed(h)
    <3> DEFINE session == [world.session EXCEPT ![h] = "closed"]
               active == [world.active EXCEPT ![h] = {}]
    <3>1. world' = [world EXCEPT !.session = session, !.active = active]
      BY <1>1, <2>4 DEF Tunnels!OnClosed, PanelWorlds
    <3>2. /\ session \in [Hosts -> {"there", "ended", "closed"}] /\ active \in [Hosts -> SUBSET Rules]
          /\ \A k \in Hosts \ {h} : session[k] = world.session[k] /\ active[k] = world.active[k]
      BY <1>5
    <3> HIDE DEF session, active
    <3> QED BY <1>1, <3>1, <3>2 DEF PanelWorlds
  <2> QED BY <2>1, <2>2, <2>3, <2>4
<1>7. Books'
  BY <1>3, <1>6, BooksStay DEF TunnelsInv
<1>8. ASSUME NEW k \in Hosts, world'.opening[k] = "looked" => world.opening[k] = "looked" PROVE MayStart(k)' \subseteq MayStart(k)
  BY <1>3, <1>6, <1>8, Starters, MayStartFrom
<1>9. ASSUME NEW k \in Hosts, k # h PROVE EndedAt(k)'
  <2>1. EndedAt(k) /\ MayStart(k)' \subseteq MayStart(k)
    BY <1>6, <1>8, <1>9 DEF TunnelsInv, Ended
  <2> QED BY <1>6, <1>9, <2>1 DEF EndedAt
<1>10. EndedAt(h)'
  <2>0. EndedAt(h)
    BY DEF TunnelsInv, Ended
  <2>1. CASE Tunnels!ConnectLooks(h)
    <3>1. /\ world'.session[h] = world.session[h] /\ world'.late[h] = world.late[h] /\ world'.active[h] = world.active[h]
          /\ world.session[h] # "there" => world'.opening[h] = "done"
      BY <1>1, <1>5, <2>1 DEF Tunnels!ConnectLooks, Tunnels!There, PanelWorlds
    <3> QED BY <1>8, <2>0, <3>1 DEF EndedAt
  <2>2. CASE Tunnels!ConnectStarts(h)
    <3>1. PICK ok \in SUBSET world.read :
            /\ world.opening[h] = "looked" /\ world' = [world EXCEPT !.active[h] = ok, !.opening[h] = "done"]
      BY <2>2 DEF Tunnels!ConnectStarts
    <3>2. /\ world'.session[h] = world.session[h] /\ world'.late[h] = world.late[h]
          /\ world'.active[h] = ok /\ world'.opening[h] = "done"
      BY <1>1, <1>5, <3>1 DEF PanelWorlds
    <3>3. ok \subseteq MayStart(h) /\ MayStart(h)' \subseteq MayStart(h)
      BY <1>8, <3>1, <3>2, Starters
    <3> QED BY <2>0, <3>2, <3>3 DEF EndedAt
  <2>3. CASE Tunnels!Ends(h)
    <3>1. /\ world'.session[h] = "ended" /\ world'.late[h] = MayStart(h) /\ world'.opening[h] = world.opening[h]
      BY <1>1, <1>4, <1>5, <2>3 DEF Tunnels!Ends, PanelWorlds
    <3> QED BY <1>8, <3>1 DEF EndedAt
  <2>4. CASE Tunnels!OnClosed(h)
    <3>1. /\ world.session[h] = "ended" /\ world'.active[h] = {} /\ world'.late[h] = world.late[h]
          /\ world'.opening[h] = world.opening[h]
      BY <1>1, <1>5, <2>4 DEF Tunnels!OnClosed, PanelWorlds
    <3> QED BY <1>8, <2>0, <3>1 DEF EndedAt
  <2> QED BY <2>1, <2>2, <2>3, <2>4
<1> QED BY <1>1, <1>2, <1>6, <1>7, <1>9, <1>10 DEF TunnelsInv, TunnelsTyped, Ended

-----------------------------------------------------------------------------
(* Forwards of sessions: the theorem *)

LEMMA TunnelsStart ==
    ASSUME Tunnels!Init
    PROVE  TunnelsInv
<1>1. PICK h \in Hosts, first \in Hosts, rules \in SUBSET Rules :
        /\ page = Tunnels!Fresh(1, h)
        /\ calls = <<[of |-> 1, at |-> h, op |-> "list", x |-> 1, st |-> "sent", got |-> None]>>
        /\ \E ok \in SUBSET rules :
             world = [session |-> [k \in Hosts |-> "there"],
                      opening |-> [k \in Hosts |-> IF k = first /\ k # h /\ rules # {} THEN "waits" ELSE "done"],
                      stored |-> rules, read |-> rules, had |-> rules, told |-> rules, used |-> rules, unsure |-> {},
                      active |-> [k \in Hosts |-> IF k = first /\ k = h THEN ok ELSE {}],
                      late |-> [k \in Hosts |-> {}]]
  BY DEF Tunnels!Init
<1> DEFINE c == [of |-> 1, at |-> h, op |-> "list", x |-> 1, st |-> "sent", got |-> None]
<1>2. c \in PanelCalls /\ c.got = None
  BY DEF PanelCalls, ListCalls, Answers
<1>3. page \in PanelPages
  BY <1>1 DEF Tunnels!Fresh, PanelPages, Answers
<1>4. /\ world \in PanelWorlds /\ world.stored = world.told
      /\ \A k \in Hosts : world.session[k] = "there"
  BY <1>1 DEF PanelWorlds
<1> HIDE DEF c
<1>5. calls = <<c>>
  BY <1>1 DEF c
<1>6. calls \in Seq(PanelCalls) /\ ToSet(calls) = {c}
  BY <1>2, <1>5 DEF ToSet
<1>7. Busy = {}
  BY <1>2, <1>6 DEF Busy
<1>8. Books
  BY <1>4, <1>7 DEF Books, RightAbout, Pending
<1>9. Ended
  BY <1>4 DEF Ended, EndedAt
<1> QED BY <1>3, <1>4, <1>6, <1>8, <1>9 DEF TunnelsInv, TunnelsTyped

LEMMA TunnelsStep ==
    ASSUME TunnelsInv, Tunnels!Next
    PROVE  TunnelsInv'
<1>1. CASE \E rules \in SUBSET (world.had \cup (Rules \ world.used)) : Tunnels!SaveProfile(rules)
  <2>1. world.had \subseteq Rules
    BY DEF TunnelsInv, TunnelsTyped, PanelWorlds
  <2> QED BY <1>1, <2>1, SaveKeeps
<1> QED BY <1>1, ClickKeeps, AnswerKeeps, LookupsKeep, AddStartsKeeps, RemoveStopsKeeps, StoreKeeps, SessionKeeps
       DEF Tunnels!Next

\* When nothing is under way, what was asked for is what is stored.
LEMMA TunnelsKept ==
    ASSUME TunnelsInv
    PROVE  Tunnels!EndWithTheirSession /\ Tunnels!RulesKept
<1>1. Tunnels!EndWithTheirSession
  BY DEF TunnelsInv, Ended, EndedAt, Tunnels!EndWithTheirSession
<1>2. ASSUME Tunnels!Quiet PROVE world.stored \ world.unsure = world.told \ world.unsure
  <2>1. ToSet(calls) = {}
    BY <1>2 DEF Tunnels!Quiet, ToSet
  <2>2. \A op : Pending(op) = {}
    BY <2>1 DEF Pending, Busy
  <2> QED BY <2>2 DEF TunnelsInv, Books, RightAbout
<1> QED BY <1>1, <1>2 DEF Tunnels!RulesKept

\* The component that is mounted stays it.
LEMMA SameShown == WorkNext => shown' = shown
BY DEF WorkNext

ForwardsInv == shown = "tunnels" => TunnelsInv

\* A session that was cleaned up forwards nothing but what somebody who had
\* looked up its client before it ended started; and once nothing is under way
\* the profile has the rules that were added or saved last and not the removed
\* ones, whatever other calls, saves and sessions of the profile came between.
THEOREM ForwardsAreKept == WorkSpec => []ForwardsKept
<1>1. WorkInit => ForwardsInv
  BY TunnelsStart DEF WorkInit, ForwardsInv
<1>2. ForwardsInv /\ [WorkNext]_<<page, calls, world, acts, shown>> => ForwardsInv'
  <2> SUFFICES ASSUME ForwardsInv, [WorkNext]_<<page, calls, world, acts, shown>>, shown' = "tunnels"
               PROVE  TunnelsInv'
    BY DEF ForwardsInv
  <2>1. CASE WorkNext
    <3>1. shown = "tunnels"
      BY <2>1, SameShown
    <3>2. Tunnels!Next
      BY <2>1, <3>1 DEF WorkNext
    <3> QED BY <3>1, <3>2, TunnelsStep DEF ForwardsInv
  <2>2. CASE UNCHANGED <<page, calls, world, acts, shown>>
    <3>1. TunnelsInv
      BY <2>2 DEF ForwardsInv
    <3>2. page' \in PanelPages
      BY <2>2, <3>1 DEF TunnelsInv, TunnelsTyped
    <3> QED BY <2>2, <3>1, <3>2, PanelSends
  <2> QED BY <2>1, <2>2
<1>3. ForwardsInv => ForwardsKept
  BY TunnelsKept DEF ForwardsInv, ForwardsKept
<1> QED BY <1>1, <1>2, <1>3, PTL DEF WorkSpec

-----------------------------------------------------------------------------
(* Transfers of files: the invariant *)

Maps(S) == UNION {[D -> S] : D \in SUBSET Nat}
JobStatuses == {"started", "progress", "paused"} \union Moves!Over
Transferring == [st : {"started", "stopping"} \union Moves!Over, seq : Nat, paused : BOOLEAN]
EventCalls == [of : {1}, at : {None}, op : {"event"}, x : [job : Nat, seq : Nat, status : JobStatuses],
               st : {"sent", "ok"}, got : {None} \union BOOLEAN]
AskedCalls == [of : {1}, at : {None}, op : {"pause", "resume", "cancel", "retry"}, x : [job : Nat],
               st : {"sent", "ok"}, got : {None}]
MoveCalls == EventCalls \union AskedCalls
Shows == [seq : Nat, paused : BOOLEAN]
Entries == [job : Nat, st : Moves!Over]
MovePages == [n : {1}, at : {None}, transfers : Maps(Shows), last : Maps(Nat),
              ended : Seq(Nat), history : Seq(Entries)]
MoveWorlds == [jobs : Seq(Transferring), cleared : SUBSET Nat]

MovesTyped == /\ page \in MovePages /\ calls \in Seq(MoveCalls) /\ world \in MoveWorlds
              /\ Len(world.jobs) <= MaxJobs

IsOver(j) == world.jobs[j].st \in Moves!Over
IsEnd(c) == c.x.status \in Moves!Over
EventsOf(j) == {c \in ToSet(calls) : c.op = "event" /\ c.x.job = j}
EndedJobs == ToSet(page.ended)

\* An event has a number that the backend has claimed; the last one of a
\* transfer, and no other, says how it ended.
EventTrue(c) ==
    /\ c.x.seq \in 1..world.jobs[c.x.job].seq
    /\ IsOver(c.x.job) => /\ IsEnd(c) <=> c.x.seq = world.jobs[c.x.job].seq
                          /\ IsEnd(c) => c.x.status = world.jobs[c.x.job].st
    /\ IsEnd(c) => IsOver(c.x.job)
    /\ c.x.job \in DOMAIN page.last => page.last[c.x.job] # c.x.seq
    /\ c.st = "ok" => c.got \in BOOLEAN
EventsDiffer(s) == \A i, k \in DOMAIN s :
    s[i].op = "event" /\ s[k].op = "event" /\ s[i].x.job = s[k].x.job /\ s[i].x.seq = s[k].x.seq => i = k
CallTrue(c) == c.x.job \in DOMAIN world.jobs /\ (c.op = "event" => EventTrue(c))
CallsTrue == (\A c \in ToSet(calls) : CallTrue(c)) /\ EventsDiffer(calls)

\* What the page knows of a transfer is not ahead of the backend.
LastTrue(j) ==
    /\ j \in DOMAIN world.jobs /\ page.last[j] <= world.jobs[j].seq
    /\ IsOver(j) /\ page.last[j] = world.jobs[j].seq => j \in EndedJobs
    /\ ~IsOver(j) => j \in DOMAIN page.transfers
OneByOne(s) == \A i, k \in DOMAIN s : s[i] = s[k] => i = k
PageTrue ==
    /\ \A j \in EndedJobs : j \in DOMAIN world.jobs /\ IsOver(j)
    /\ OneByOne(page.ended)
    /\ \A j \in DOMAIN page.transfers : j \in DOMAIN world.jobs /\ j \notin EndedJobs
    /\ \A j \in DOMAIN page.last : LastTrue(j)

\* An ended transfer stands in the history once, or did.
HistoryTrue ==
    /\ \A i \in DOMAIN page.history :
          page.history[i].job \in EndedJobs /\ page.history[i].st = world.jobs[page.history[i].job].st
    /\ \A i, k \in DOMAIN page.history : page.history[i].job = page.history[k].job => i = k
    /\ Len(page.history) <= HistoryKept
    /\ \A j \in EndedJobs : Moves!InHistory(page, j) \/ j \in world.cleared \/ Len(page.history) = HistoryKept

\* What the page does not know yet, an event on its way will tell.
PauseTold(j) ==
    \/ \E c \in ToSet(calls) : c.op = "pause" /\ c.x.job = j /\ c.st = "ok"
    \/ \E c \in EventsOf(j) : c.x.seq = world.jobs[j].seq /\ (c.st = "sent" \/ c.got = TRUE)
    \/ j \in DOMAIN page.last /\ page.last[j] = world.jobs[j].seq /\ page.transfers[j].paused
ToldOf(j) ==
    /\ IsOver(j) /\ j \notin EndedJobs => \E c \in EventsOf(j) : IsEnd(c)
    /\ ~IsOver(j) /\ j \notin DOMAIN page.last => EventsOf(j) # {}
    /\ ~IsOver(j) /\ world.jobs[j].paused => PauseTold(j)
Told == \A j \in DOMAIN world.jobs : ToldOf(j)

MovesInv == MovesTyped /\ CallsTrue /\ PageTrue /\ HistoryTrue /\ Told

-----------------------------------------------------------------------------
(* Transfers of files: calls that come and go *)

\* The sequence t has the calls of s, or some of them; no two events of it are
\* the same.
Fewer(t, s) == t \in Seq(MoveCalls) /\ EventsDiffer(t) /\ ToSet(t) \subseteq ToSet(s)

LEMMA MoveGoes ==
    ASSUME NEW s \in Seq(MoveCalls), EventsDiffer(s), NEW i \in DOMAIN s
    PROVE  LET t == Moves!RemoveAt(s, i) IN
           /\ Fewer(t, s) /\ t \o << >> = t
           /\ \A c \in ToSet(s) : c \in ToSet(t) \/ c = s[i]
           /\ s[i].op = "event" =>
                 \A c \in ToSet(t) : ~(c.op = "event" /\ c.x.job = s[i].x.job /\ c.x.seq = s[i].x.seq)
<1> DEFINE t == Moves!RemoveAt(s, i)
           Old(k) == IF k < i THEN k ELSE k + 1
<1>1. t = RemoveAt(s, i)
  BY Zenon DEF Moves!RemoveAt, RemoveAt
<1> HIDE DEF t
<1>2. /\ t \in Seq(MoveCalls) /\ Len(t) = Len(s) - 1
      /\ \A k \in DOMAIN t : Old(k) \in DOMAIN s \ {i} /\ t[k] = s[Old(k)]
      /\ ToSet(t) \subseteq ToSet(s) /\ ToSet(s) \subseteq ToSet(t) \union {s[i]}
  BY SMTT(40), <1>1, Removed
<1>3. DOMAIN t \subseteq Int /\ i \in Int
  BY <1>2, LenProperties
<1>4. \A j, k \in DOMAIN t : Old(j) = Old(k) => j = k
  BY <1>3
<1> HIDE DEF Old
<1>5. EventsDiffer(t)
  BY SMTT(40), <1>2, <1>4 DEF EventsDiffer
<1>6. ASSUME s[i].op = "event", NEW c \in ToSet(t), c.op = "event", c.x.job = s[i].x.job, c.x.seq = s[i].x.seq
      PROVE  FALSE
  <2>1. PICK k \in DOMAIN t : t[k] = c
    BY DEF ToSet
  <2>2. Old(k) \in DOMAIN s /\ Old(k) # i /\ s[Old(k)] = c
    BY <1>2, <2>1
  <2> QED BY <1>6, <2>2 DEF EventsDiffer
<1>7. t \o << >> = t
  BY SMTT(40), <1>2, ConcatEmptySeq
<1> QED BY SMTT(40), <1>2, <1>5, <1>6, <1>7 DEF t, Fewer

LEMMA MoveJoins ==
    ASSUME NEW s \in Seq(MoveCalls), EventsDiffer(s), NEW e \in MoveCalls,
           \A c \in ToSet(s) : ~(c.op = "event" /\ e.op = "event" /\ c.x.job = e.x.job /\ c.x.seq = e.x.seq)
    PROVE  LET t == s \o <<e>> IN
           t \in Seq(MoveCalls) /\ EventsDiffer(t) /\ ToSet(t) = ToSet(s) \union {e} /\ Append(s, e) = t
<1> DEFINE t == s \o <<e>>
<1>1. /\ t \in Seq(MoveCalls) /\ Len(t) = Len(s) + 1
      /\ \A k \in DOMAIN t : t[k] = IF k = Len(s) + 1 THEN e ELSE s[k]
      /\ \A k \in DOMAIN t : k # Len(s) + 1 => k \in DOMAIN s
      /\ ToSet(t) = ToSet(s) \union {e}
  BY Joined
<1>2. Append(s, e) = t
  BY AppendIsConcat
<1> HIDE DEF t
<1>3. \A k \in DOMAIN s : s[k] \in ToSet(s)
  BY DEF ToSet
<1>4. EventsDiffer(t)
  <2> SUFFICES ASSUME NEW j \in DOMAIN t, NEW k \in DOMAIN t, t[j].op = "event", t[k].op = "event",
                      t[j].x.job = t[k].x.job, t[j].x.seq = t[k].x.seq
               PROVE  j = k
    BY DEF EventsDiffer
  <2>1. CASE j = Len(s) + 1 /\ k # Len(s) + 1
    BY <1>1, <1>3, <2>1
  <2>2. CASE k = Len(s) + 1 /\ j # Len(s) + 1
    BY <1>1, <1>3, <2>2
  <2>3. CASE j # Len(s) + 1 /\ k # Len(s) + 1
    BY SMTT(40), <1>1, <2>3 DEF EventsDiffer
  <2>4. CASE j = Len(s) + 1 /\ k = Len(s) + 1
    BY <2>4
  <2> QED BY SMTT(40), <2>1, <2>2, <2>3, <2>4
<1> QED BY SMTT(40), <1>1, <1>2, <1>4 DEF t

\* A call is gone on with: it becomes another that is of the same kind and of
\* the same event.
LEMMA MoveTurns ==
    ASSUME NEW s \in Seq(MoveCalls), EventsDiffer(s), NEW i \in DOMAIN s, NEW e \in MoveCalls,
           e.op = s[i].op, e.x = s[i].x
    PROVE  LET t == [s EXCEPT ![i] = e] IN
           /\ t \in Seq(MoveCalls) /\ EventsDiffer(t) /\ e \in ToSet(t)
           /\ \A c \in ToSet(t) : c \in ToSet(s) \/ c = e
           /\ \A c \in ToSet(s) : c \in ToSet(t) \/ c = s[i]
<1> DEFINE t == [s EXCEPT ![i] = e]
<1>1. /\ t \in Seq(MoveCalls) /\ DOMAIN t = DOMAIN s
      /\ \A k \in DOMAIN s : t[k] = IF k = i THEN e ELSE s[k]
      /\ e \in ToSet(t)
      /\ ToSet(t) \subseteq ToSet(s) \union {e}
      /\ ToSet(s) \subseteq ToSet(t) \union {s[i]}
  BY Zenon, Replaced
<1> HIDE DEF t
<1>2. \A k \in DOMAIN t : t[k].op = s[k].op /\ t[k].x = s[k].x
  BY <1>1
<1>3. EventsDiffer(t)
  BY <1>1, <1>2 DEF EventsDiffer
<1> QED BY Zenon, <1>1, <1>3 DEF t

-----------------------------------------------------------------------------
(* Transfers of files: steps of the backend *)

AllEvents == {c \in ToSet(calls) : c.op = "event"}

LEMMA MovesFields ==
    ASSUME MovesTyped
    PROVE  /\ page.last \in [DOMAIN page.last -> Nat] /\ DOMAIN page.last \subseteq Nat
           /\ page.transfers \in [DOMAIN page.transfers -> Shows]
           /\ DOMAIN page.transfers \subseteq Nat
           /\ page.ended \in Seq(Nat) /\ page.history \in Seq(Entries)
           /\ page.n = 1 /\ page.at = None
           /\ world.jobs \in Seq(Transferring) /\ Len(world.jobs) \in Nat
           /\ DOMAIN world.jobs = 1..Len(world.jobs)
           /\ \A j \in DOMAIN world.jobs : world.jobs[j] \in Transferring
           /\ calls \in Seq(MoveCalls) /\ \A c \in ToSet(calls) : c \in MoveCalls
<1>1. page.last \in Maps(Nat) /\ page.transfers \in Maps(Shows)
  BY DEF MovesTyped, MovePages
<1>2. page.last \in [DOMAIN page.last -> Nat] /\ DOMAIN page.last \subseteq Nat
  BY Zenon, <1>1 DEF Maps
<1>3. /\ page.transfers \in [DOMAIN page.transfers -> Shows]
      /\ DOMAIN page.transfers \subseteq Nat
  BY Zenon, <1>1 DEF Maps
<1>4. page.ended \in Seq(Nat) /\ page.history \in Seq(Entries) /\ page.n = 1 /\ page.at = None
  BY DEF MovesTyped, MovePages
<1>5. world.jobs \in Seq(Transferring)
  BY DEF MovesTyped, MoveWorlds
<1>6. Len(world.jobs) \in Nat /\ DOMAIN world.jobs = 1..Len(world.jobs)
      /\ \A j \in DOMAIN world.jobs : world.jobs[j] \in Transferring
  BY <1>5, LenProperties
<1>7. calls \in Seq(MoveCalls) /\ \A c \in ToSet(calls) : c \in MoveCalls
  BY SMTT(40), LenProperties DEF MovesTyped, ToSet
<1> QED BY SMTT(40), <1>2, <1>3, <1>4, <1>5, <1>6, <1>7

LEMMA HistoryStays ==
    ASSUME PageTrue, HistoryTrue, page'.history = page.history, page'.ended = page.ended,
           world'.cleared = world.cleared,
           \A j \in DOMAIN world.jobs : IsOver(j) => world'.jobs[j].st = world.jobs[j].st
    PROVE  HistoryTrue'
<1>1. EndedJobs' = EndedJobs
  BY DEF EndedJobs
<1>2. \A j : Moves!InHistory(page, j)' <=> Moves!InHistory(page, j)
  BY DEF Moves!InHistory
<1> QED BY <1>1, <1>2 DEF PageTrue, HistoryTrue

\* The calls of the user and what the backend does at once: no event comes or
\* goes, and no transfer ends.
LEMMA AskKeeps ==
    ASSUME MovesInv, UNCHANGED page, world' \in MoveWorlds, world'.cleared = world.cleared,
           DOMAIN world'.jobs = DOMAIN world.jobs, Len(world'.jobs) = Len(world.jobs),
           \A j \in DOMAIN world.jobs : /\ world'.jobs[j].seq = world.jobs[j].seq
                                        /\ world'.jobs[j].st \in Moves!Over <=> IsOver(j)
                                        /\ IsOver(j) => world'.jobs[j].st = world.jobs[j].st,
           calls' \in Seq(MoveCalls), EventsDiffer(calls'), AllEvents' = AllEvents,
           \A c \in ToSet(calls') : c.x.job \in DOMAIN world.jobs,
           \A j \in DOMAIN world.jobs : world'.jobs[j].paused =>
              \/ IsOver(j)
              \/ \E c \in ToSet(calls') : c.op = "pause" /\ c.x.job = j /\ c.st = "ok"
              \/ /\ world.jobs[j].paused
                 /\ \A c \in ToSet(calls) : c.op = "pause" /\ c.x.job = j /\ c.st = "ok" => c \in ToSet(calls')
    PROVE  MovesInv'
<1>1. /\ \A j : EventsOf(j)' = EventsOf(j)
      /\ \A j \in DOMAIN world.jobs : IsOver(j)' <=> IsOver(j)
      /\ EndedJobs' = EndedJobs
  BY DEF AllEvents, EventsOf, IsOver, EndedJobs
<1>2. MovesTyped'
  BY DEF MovesInv, MovesTyped
<1>3. CallsTrue'
  <2>1. ASSUME NEW c \in ToSet(calls'), c.op = "event" PROVE EventTrue(c)'
    <3>1. c \in ToSet(calls) /\ c.x.job \in DOMAIN world.jobs /\ EventTrue(c)
      BY <2>1 DEF AllEvents, MovesInv, CallsTrue, CallTrue
    <3> QED BY SMTT(40), <1>1, <3>1 DEF EventTrue
  <2> QED BY SMTT(40), <2>1 DEF CallsTrue, CallTrue
<1>4. PageTrue'
  BY <1>1 DEF MovesInv, PageTrue, LastTrue
<1>5. HistoryTrue'
  BY SMTT(40), HistoryStays DEF MovesInv
<1>6. Told'
  <2> SUFFICES ASSUME NEW j \in DOMAIN world.jobs PROVE ToldOf(j)'
    BY DEF Told
  <2>1. ToldOf(j)
    BY DEF MovesInv, Told
  <2>2. ASSUME ~IsOver(j), world'.jobs[j].paused PROVE PauseTold(j)'
    <3>1. CASE \E c \in ToSet(calls') : c.op = "pause" /\ c.x.job = j /\ c.st = "ok"
      BY SMTT(40), <3>1 DEF PauseTold
    <3>2. CASE /\ world.jobs[j].paused
               /\ \A c \in ToSet(calls) : c.op = "pause" /\ c.x.job = j /\ c.st = "ok" => c \in ToSet(calls')
      <4>1. PauseTold(j)
        BY SMTT(40), <2>1, <2>2, <3>2 DEF ToldOf
      <4> QED BY SMTT(40), <1>1, <3>2, <4>1 DEF PauseTold
    <3> QED BY SMTT(40), <2>2, <3>1, <3>2
  <2> QED BY SMTT(40), <1>1, <2>1, <2>2 DEF ToldOf
<1> QED BY SMTT(40), <1>2, <1>3, <1>4, <1>5, <1>6 DEF MovesInv

\* An event is sent: whether the transfer is paused was read before.
LEMMA EventSent ==
    ASSUME MovesInv, UNCHANGED <<page, world>>, NEW i \in DOMAIN calls, NEW e \in MoveCalls,
           calls[i].op = "event", calls[i].st = "sent",
           e.op = "event", e.x = calls[i].x, e.st = "ok", e.got \in BOOLEAN,
           world.jobs[e.x.job].paused => e.got = TRUE,
           calls' = [calls EXCEPT ![i] = e]
    PROVE  MovesInv'
<1>1. /\ calls' \in Seq(MoveCalls) /\ EventsDiffer(calls') /\ e \in ToSet(calls')
      /\ \A c \in ToSet(calls') : c \in ToSet(calls) \/ c = e
      /\ \A c \in ToSet(calls) : c \in ToSet(calls') \/ c = calls[i]
  BY Zenon, MoveTurns DEF MovesInv, MovesTyped, CallsTrue
<1>2. MovesTyped'
  BY <1>1 DEF MovesInv, MovesTyped
<1>3. calls[i] \in ToSet(calls)
  BY DEF ToSet
<1>4. CallTrue(calls[i])
  BY SMTT(40), <1>3 DEF MovesInv, CallsTrue
<1>5. CallTrue(e)'
  BY SMTT(40), <1>4 DEF CallTrue, EventTrue, IsOver, IsEnd
<1>6. ASSUME NEW c \in ToSet(calls') PROVE CallTrue(c)'
  <2>1. CASE c = e
    BY <1>5, <2>1
  <2>2. CASE c \in ToSet(calls)
    <3>1. CallTrue(c)
      BY SMTT(40), <2>2 DEF MovesInv, CallsTrue
    <3> QED BY SMTT(40), <3>1 DEF CallTrue, EventTrue, IsOver, IsEnd
  <2> QED BY Zenon, <1>1, <2>1, <2>2
<1>7. CallsTrue'
  BY Zenon, <1>1, <1>6 DEF CallsTrue
<1>8. PageTrue'
  BY DEF MovesInv, PageTrue, LastTrue, IsOver, EndedJobs
<1>9. HistoryTrue'
  BY SMTT(40), HistoryStays DEF MovesInv
<1>10. Told'
  <2> SUFFICES ASSUME NEW j \in DOMAIN world.jobs PROVE ToldOf(j)'
    BY DEF Told
  <2>1. ToldOf(j)
    BY DEF MovesInv, Told
  <2>2. \A c \in EventsOf(j) : c \in EventsOf(j)' \/ (c = calls[i] /\ e \in EventsOf(j)')
    BY Zenon, <1>1 DEF EventsOf
  <2>3. IsEnd(calls[i]) => IsEnd(e)
    BY DEF IsEnd
  <2>4. PauseTold(j) /\ world.jobs[j].paused => PauseTold(j)'
    <3>1. ASSUME NEW c \in ToSet(calls), c.op = "pause", c.x.job = j, c.st = "ok"
          PROVE  c \in ToSet(calls')
      BY Zenon, <1>1, <3>1
    <3>2. ASSUME NEW c \in EventsOf(j), c.x.seq = world.jobs[j].seq, c.st = "sent" \/ c.got = TRUE, world.jobs[j].paused
          PROVE  \E d \in EventsOf(j)' : d.x.seq = world.jobs[j].seq /\ (d.st = "sent" \/ d.got = TRUE)
      <4>1. CASE c \in EventsOf(j)'
        BY <3>2, <4>1
      <4>2. CASE c = calls[i] /\ e \in EventsOf(j)'
        <5>1. e.x.job = j /\ e.x.seq = world.jobs[j].seq
          BY SMTT(40), <3>2, <4>2 DEF EventsOf
        <5> QED BY SMTT(40), <3>2, <4>2, <5>1
      <4> QED BY Zenon, <2>2, <4>1, <4>2
    <3> QED BY Zenon, <3>1, <3>2 DEF PauseTold
  <2> QED BY SMTT(40), <2>1, <2>2, <2>3, <2>4 DEF ToldOf, IsOver, EndedJobs
<1> QED BY SMTT(40), <1>2, <1>7, <1>8, <1>9, <1>10 DEF MovesInv

\* The event that tells a step of a transfer, and what it leaves alone.
LEMMA MovesTold ==
    ASSUME MovesInv, UNCHANGED page, world' \in MoveWorlds, world'.cleared = world.cleared,
           Len(world'.jobs) <= MaxJobs, NEW j \in DOMAIN world'.jobs, NEW e \in MoveCalls, NEW rest,
           Fewer(rest, calls), AllEvents \subseteq ToSet(rest),
           \A c \in ToSet(calls) : c \in ToSet(rest) \/ c.x.job = j \/ c.op = "retry",
           calls' = Append(rest, e), e.op = "event", e.st = "sent", e.x.job = j,
           e.x.seq = world'.jobs[j].seq, e.x.seq \in Nat \ {0},
           IsEnd(e) <=> world'.jobs[j].st \in Moves!Over, IsEnd(e) => e.x.status = world'.jobs[j].st,
           DOMAIN world'.jobs = DOMAIN world.jobs \union {j},
           \A k \in DOMAIN world.jobs : k # j => world'.jobs[k] = world.jobs[k],
           j \in DOMAIN world.jobs => ~IsOver(j) /\ world'.jobs[j].seq = world.jobs[j].seq + 1
    PROVE  MovesInv'
<1>1. MovesTyped /\ CallsTrue /\ PageTrue /\ HistoryTrue /\ Told
  BY SMTT(40) DEF MovesInv
<1>2. \A k \in DOMAIN world.jobs : world.jobs[k].seq \in Nat
  BY SMTT(40), <1>1, MovesFields DEF Transferring
<1>3. \A k \in DOMAIN world.jobs : k # j => (IsOver(k)' <=> IsOver(k))
  BY DEF IsOver
<1>4. EndedJobs' = EndedJobs /\ j \notin EndedJobs
  BY SMTT(40), <1>1 DEF EndedJobs, PageTrue
<1>5. \A c \in ToSet(rest) : c \in ToSet(calls) /\ CallTrue(c)
  BY SMTT(40), <1>1 DEF Fewer, CallsTrue
<1>6. \A c \in ToSet(rest) : ~(c.op = "event" /\ c.x.job = j /\ c.x.seq = e.x.seq)
  <2> SUFFICES ASSUME NEW c \in ToSet(rest), c.op = "event", c.x.job = j, c.x.seq = e.x.seq
               PROVE  FALSE
    BY SMTT(40)
  <2>1. j \in DOMAIN world.jobs /\ c.x.seq \in 1..world.jobs[j].seq
    BY SMTT(40), <1>5 DEF CallTrue, EventTrue
  <2>2. e.x.seq = world.jobs[j].seq + 1
    BY SMTT(40), <2>1
  <2> QED BY SMTT(40), <1>2, <2>1, <2>2
<1>7. calls' \in Seq(MoveCalls) /\ EventsDiffer(calls') /\ ToSet(calls') = ToSet(rest) \union {e}
  BY ZenonT(40), <1>6, MoveJoins DEF Fewer
<1>8. MovesTyped'
  BY <1>1, <1>7 DEF MovesTyped
<1>9. \A k \in DOMAIN page.last : page.last[k] \in Nat /\ LastTrue(k)
  BY <1>1, MovesFields DEF PageTrue
<1>10. ASSUME NEW c \in ToSet(calls') PROVE CallTrue(c)'
  <2>1. CASE c = e
    <3>1. ASSUME j \in DOMAIN page.last PROVE page.last[j] # e.x.seq
      <4>1. /\ j \in DOMAIN world.jobs /\ page.last[j] <= world.jobs[j].seq
            /\ e.x.seq = world.jobs[j].seq + 1 /\ page.last[j] \in Nat
        BY SMTT(40), <1>9, <3>1 DEF LastTrue
      <4> QED BY SMTT(40), <1>2, <4>1
    <3>2. EventTrue(e)'
      BY SMTT(40), <3>1 DEF EventTrue, IsOver, IsEnd
    <3> QED BY SMTT(40), <2>1, <3>2 DEF CallTrue
  <2>2. CASE c \in ToSet(rest) /\ c.op = "event" /\ c.x.job = j
    <3>1. /\ j \in DOMAIN world.jobs /\ EventTrue(c) /\ ~IsOver(j)
          /\ world'.jobs[j].seq = world.jobs[j].seq + 1 /\ world.jobs[j].seq \in Nat
      BY SMTT(40), <1>2, <1>5, <2>2 DEF CallTrue
    <3>2. /\ c.x.seq \in 1..world'.jobs[j].seq /\ c.x.seq # world'.jobs[j].seq /\ ~IsEnd(c)
          /\ c.st = "ok" => c.got \in BOOLEAN
          /\ j \in DOMAIN page.last => page.last[j] # c.x.seq
      BY SMTT(40), <2>2, <3>1 DEF EventTrue
    <3>3. EventTrue(c)'
      BY SMTT(40), <2>2, <3>2 DEF EventTrue, IsEnd
    <3> QED BY SMTT(40), <2>2, <3>3 DEF CallTrue
  <2>3. CASE c \in ToSet(rest) /\ ~(c.op = "event" /\ c.x.job = j)
    <3>1. CallTrue(c)
      BY <1>5, <2>3
    <3> QED BY SMTT(40), <1>3, <2>3, <3>1 DEF CallTrue, EventTrue, IsEnd
  <2> QED BY SMTT(40), <1>7, <2>1, <2>2, <2>3
<1>11. CallsTrue'
  BY SMTT(40), <1>7, <1>10 DEF CallsTrue
<1>12. PageTrue'
  <2>1. \A k \in EndedJobs : k \in DOMAIN world'.jobs /\ IsOver(k)'
    BY SMTT(40), <1>1, <1>3, <1>4 DEF PageTrue
  <2>2. ASSUME NEW k \in DOMAIN page.last PROVE LastTrue(k)'
    <3>1. LastTrue(k) /\ page.last[k] \in Nat
      BY SMTT(40), <1>9
    <3>2. CASE k # j
      BY SMTT(40), <1>3, <1>4, <3>1, <3>2 DEF LastTrue
    <3>3. CASE k = j
      <4>1. /\ ~IsOver(j) /\ world'.jobs[j].seq = world.jobs[j].seq + 1 /\ world.jobs[j].seq \in Nat
            /\ page.last[j] <= world.jobs[j].seq /\ j \in DOMAIN page.transfers
        BY SMTT(40), <1>2, <3>1, <3>3 DEF LastTrue
      <4>2. page.last[j] <= world'.jobs[j].seq /\ page.last[j] # world'.jobs[j].seq
        BY SMTT(40), <3>1, <3>3, <4>1
      <4> QED BY SMTT(40), <3>3, <4>1, <4>2 DEF LastTrue
    <3> QED BY <3>2, <3>3
  <2> QED BY SMTT(40), <1>1, <1>4, <2>1, <2>2 DEF PageTrue
<1>13. HistoryTrue'
  <2>1. \A k \in DOMAIN world.jobs : IsOver(k) => world'.jobs[k].st = world.jobs[k].st
    BY Zenon
  <2> QED BY SMTT(40), <1>1, <2>1, HistoryStays
<1>14. ASSUME NEW k \in DOMAIN world'.jobs PROVE ToldOf(k)'
  <2>1. e \in ToSet(calls') /\ \A c \in AllEvents : c \in ToSet(calls')
    BY <1>7
  <2>2. CASE k = j
    <3>1. e \in EventsOf(j)'
      BY SMTT(40), <2>1 DEF EventsOf
    <3> QED BY SMTT(40), <2>2, <3>1 DEF ToldOf, PauseTold, IsOver, IsEnd
  <2>3. CASE k # j
    <3>1. ToldOf(k) /\ k \in DOMAIN world.jobs
      BY SMTT(40), <1>1, <2>3 DEF Told
    <3>2. \A c \in EventsOf(k) : c \in EventsOf(k)'
      BY <2>1 DEF EventsOf, AllEvents
    <3>3. \A c \in ToSet(calls) : c.op = "pause" /\ c.x.job = k => c \in ToSet(calls')
      BY SMTT(40), <1>7, <2>3
    <3>4. PauseTold(k) => PauseTold(k)'
      BY SMTT(40), <2>3, <3>1, <3>2, <3>3 DEF PauseTold
    <3> QED BY SMTT(40), <1>3, <1>4, <2>3, <3>1, <3>2, <3>4 DEF ToldOf, IsEnd
  <2> QED BY <2>2, <2>3
<1>15. Told'
  BY <1>14 DEF Told
<1> QED BY SMTT(40), <1>8, <1>11, <1>12, <1>13, <1>15 DEF MovesInv

\* The event as it is claimed.
LEMMA EventIs ==
    ASSUME MovesTyped, NEW j \in Nat, NEW q \in Nat, NEW status \in JobStatuses
    PROVE  LET e == Moves!Call("event", [job |-> j, seq |-> q, status |-> status]) IN
           /\ e \in MoveCalls /\ e.op = "event" /\ e.st = "sent"
           /\ e.x.job = j /\ e.x.seq = q /\ e.x.status = status
<1> DEFINE e == Moves!Call("event", [job |-> j, seq |-> q, status |-> status])
<1>1. page.n = 1 /\ page.at = None
  BY MovesFields
<1>2. e = [of |-> 1, at |-> None, op |-> "event", x |-> [job |-> j, seq |-> q, status |-> status], st |-> "sent", got |-> None]
  BY <1>1 DEF Moves!Call
<1>3. e \in EventCalls
  BY ONLY SMTT(40), <1>2, j \in Nat, q \in Nat, status \in JobStatuses DEF EventCalls
<1> QED BY SMTT(40), <1>2, <1>3 DEF MoveCalls

\* The transfers are written anew.
LEMMA TransfersWritten ==
    ASSUME NEW w \in MoveWorlds, NEW s \in Seq(Transferring), NEW v, v = [w EXCEPT !.jobs = s]
    PROVE  v \in MoveWorlds /\ v.jobs = s /\ v.cleared = w.cleared
BY SMTT(40) DEF MoveWorlds

\* What the backend knows when one transfer is changed: all of it, its number,
\* or whether it is paused.
JobAnew(w, j, u) == [w EXCEPT !.jobs = [@ EXCEPT ![j] = u]]
Numbered(w, j, b, a) == [w EXCEPT !.jobs[j].seq = b, !.jobs[j].st = a]
Standing(w, j, a, b) == [w EXCEPT !.jobs[j].st = a, !.jobs[j].paused = b]

\* One transfer of those that the backend knows is changed.
LEMMA JobSet ==
    ASSUME NEW w \in MoveWorlds, NEW j \in DOMAIN w.jobs, NEW u \in Transferring,
           NEW v, v = JobAnew(w, j, u)
    PROVE  /\ v \in MoveWorlds /\ v.cleared = w.cleared
           /\ DOMAIN v.jobs = DOMAIN w.jobs /\ Len(v.jobs) = Len(w.jobs) /\ v.jobs[j] = u
           /\ \A k \in DOMAIN w.jobs : k # j => v.jobs[k] = w.jobs[k]
<1>1. w.jobs \in Seq(Transferring)
  BY DEF MoveWorlds
<1> DEFINE s == [w.jobs EXCEPT ![j] = u]
<1>2. /\ s \in Seq(Transferring) /\ DOMAIN s = DOMAIN w.jobs
      /\ \A k \in DOMAIN w.jobs : s[k] = IF k = j THEN u ELSE w.jobs[k]
  BY <1>1, Replaced
<1>3. v = [w EXCEPT !.jobs = s]
  BY DEF JobAnew
<1> HIDE DEF s
<1>4. Len(s) = Len(w.jobs)
  BY <1>1, <1>2, LenProperties
<1>5. v \in MoveWorlds /\ v.jobs = s /\ v.cleared = w.cleared
  BY <1>2, <1>3, TransfersWritten
<1> QED BY <1>2, <1>4, <1>5

\* One transfer goes on to another number, or another state.
LEMMA NumberSet ==
    ASSUME NEW w \in MoveWorlds, NEW j \in DOMAIN w.jobs, NEW a \in {"started", "stopping"} \union Moves!Over,
           NEW b \in Nat, NEW v, v = Numbered(w, j, b, a)
    PROVE  /\ v \in MoveWorlds /\ v.cleared = w.cleared
           /\ DOMAIN v.jobs = DOMAIN w.jobs /\ Len(v.jobs) = Len(w.jobs)
           /\ v.jobs[j].seq = b /\ v.jobs[j].st = a
           /\ \A k \in DOMAIN w.jobs : k # j => v.jobs[k] = w.jobs[k]
<1>1. w.jobs \in Seq(Transferring)
  BY DEF MoveWorlds
<1>2. PICK r \in Transferring : r = w.jobs[j]
  BY <1>1, LenProperties
<1>3. PICK u : u = [[r EXCEPT !.seq = b] EXCEPT !.st = a]
  OBVIOUS
<1>4. u \in Transferring /\ u.st = a /\ u.seq = b
  BY Zenon, <1>2, <1>3 DEF Transferring
<1>5. v = JobAnew(w, j, u)
  BY Zenon, <1>2, <1>3 DEF MoveWorlds, JobAnew, Numbered
<1>6. /\ v \in MoveWorlds /\ v.cleared = w.cleared
      /\ DOMAIN v.jobs = DOMAIN w.jobs /\ Len(v.jobs) = Len(w.jobs) /\ v.jobs[j] = u
      /\ \A k \in DOMAIN w.jobs : k # j => v.jobs[k] = w.jobs[k]
  BY <1>4, <1>5, JobSet
<1> QED BY <1>4, <1>6

LEMMA ClaimSets ==
    ASSUME NEW w \in MoveWorlds, NEW j \in DOMAIN w.jobs, w.jobs[j].st \notin Moves!Over,
           NEW status \in JobStatuses, NEW rest, Moves!Claim(j, status, w, rest)
    PROVE  /\ calls' = Append(rest, Moves!Call("event", [job |-> j, seq |-> w.jobs[j].seq + 1, status |-> status]))
           /\ world' \in MoveWorlds /\ world'.cleared = w.cleared
           /\ DOMAIN world'.jobs = DOMAIN w.jobs /\ Len(world'.jobs) = Len(w.jobs)
           /\ \A k \in DOMAIN w.jobs : k # j => world'.jobs[k] = w.jobs[k]
           /\ world'.jobs[j].seq = w.jobs[j].seq + 1
           /\ world'.jobs[j].st = IF status \in Moves!Over THEN status ELSE w.jobs[j].st
<1>1. w.jobs \in Seq(Transferring)
  BY DEF MoveWorlds
<1>2. w.jobs[j] \in Transferring
  BY <1>1, LenProperties
<1>3. PICK a \in {"started", "stopping"} \union Moves!Over : a = IF status \in Moves!Over THEN status ELSE w.jobs[j].st
  BY Zenon, <1>2 DEF Transferring
<1>4. PICK b \in Nat : b = w.jobs[j].seq + 1
  BY <1>2 DEF Transferring
<1>5. /\ world' = [w EXCEPT !.jobs[j].seq = @ + 1, !.jobs[j].st = IF status \in Moves!Over THEN status ELSE @]
      /\ calls' = Append(rest, Moves!Call("event", [job |-> j, seq |-> w.jobs[j].seq + 1, status |-> status]))
  BY DEF Moves!Claim
<1>6. world' = Numbered(w, j, b, a)
  BY SMTT(40), <1>2, <1>3, <1>4, <1>5 DEF MoveWorlds, Transferring, Numbered
<1>7. /\ world' \in MoveWorlds /\ world'.cleared = w.cleared
      /\ DOMAIN world'.jobs = DOMAIN w.jobs /\ Len(world'.jobs) = Len(w.jobs)
      /\ world'.jobs[j].seq = b /\ world'.jobs[j].st = a
      /\ \A k \in DOMAIN w.jobs : k # j => world'.jobs[k] = w.jobs[k]
  BY <1>6, NumberSet
<1> QED BY SMTT(40), <1>3, <1>4, <1>5, <1>7

\* A transfer claims an event, or is over already.
LEMMA ClaimKeeps ==
    ASSUME MovesInv, UNCHANGED page, NEW j \in DOMAIN world.jobs, NEW status \in JobStatuses, NEW rest,
           Fewer(rest, calls), AllEvents \subseteq ToSet(rest),
           \A c \in ToSet(calls) : c \in ToSet(rest) \/ c.x.job = j,
           Moves!Claim(j, status, world, rest)
    PROVE  MovesInv'
<1>1. MovesTyped /\ CallsTrue
  BY DEF MovesInv
<1>2. CASE IsOver(j)
  <2>1. world' = world /\ calls' = rest
    BY <1>2 DEF Moves!Claim, IsOver
  <2>2. AllEvents' = AllEvents
    BY <2>1 DEF Fewer, AllEvents
  <2>3. \A c \in ToSet(calls') : c.x.job \in DOMAIN world.jobs
    BY SMTT(40), <1>1, <2>1 DEF Fewer, CallsTrue, CallTrue
  <2>4. \A k \in DOMAIN world.jobs : k = j \/ \A c \in ToSet(calls) : c.x.job = k => c \in ToSet(calls')
    BY <2>1
  <2>5. world' \in MoveWorlds /\ calls' \in Seq(MoveCalls) /\ EventsDiffer(calls')
    BY SMTT(40), <1>1, <2>1 DEF MovesTyped, Fewer
  <2> QED BY SMTT(40), <1>2, <2>1, <2>2, <2>3, <2>4, <2>5, AskKeeps DEF IsOver
<1>3. CASE ~IsOver(j)
  <2> DEFINE e == Moves!Call("event", [job |-> j, seq |-> world.jobs[j].seq + 1, status |-> status])
  <2>1. world.jobs[j] \in Transferring /\ j \in Nat /\ world \in MoveWorlds /\ Len(world.jobs) <= MaxJobs
    BY <1>1, MovesFields DEF MovesTyped
  <2>2. /\ calls' = Append(rest, e)
        /\ world' \in MoveWorlds /\ world'.cleared = world.cleared
        /\ DOMAIN world'.jobs = DOMAIN world.jobs /\ Len(world'.jobs) = Len(world.jobs)
        /\ \A k \in DOMAIN world.jobs : k # j => world'.jobs[k] = world.jobs[k]
        /\ world'.jobs[j].seq = world.jobs[j].seq + 1
        /\ world'.jobs[j].st = IF status \in Moves!Over THEN status ELSE world.jobs[j].st
    BY SMTT(40), <1>3, <2>1, ClaimSets DEF IsOver
  <2>3. world.jobs[j].seq + 1 \in Nat \ {0}
    BY SMTT(40), <2>1 DEF Transferring
  <2>4. /\ e \in MoveCalls /\ e.op = "event" /\ e.st = "sent"
        /\ e.x.job = j /\ e.x.seq = world.jobs[j].seq + 1 /\ e.x.status = status
    BY SMTT(40), <1>1, <2>1, <2>3, EventIs
  <2> HIDE DEF e
  <2>5. (IsEnd(e) <=> world'.jobs[j].st \in Moves!Over) /\ (IsEnd(e) => e.x.status = world'.jobs[j].st)
    BY SMTT(40), <1>3, <2>2, <2>4 DEF IsEnd, IsOver
  <2>6. /\ j \in DOMAIN world'.jobs /\ DOMAIN world'.jobs = DOMAIN world.jobs \union {j}
        /\ Len(world'.jobs) <= MaxJobs /\ e.x.seq = world'.jobs[j].seq /\ e.x.seq \in Nat \ {0}
    BY SMTT(40), <2>1, <2>2, <2>3, <2>4
  <2>7. \A c \in ToSet(calls) : c \in ToSet(rest) \/ c.x.job = j \/ c.op = "retry"
    BY SMTT(40)
  <2> QED BY Zenon, <1>3, <2>2, <2>4, <2>5, <2>6, <2>7, MovesTold
<1> QED BY <1>2, <1>3

\* A transfer is started, or retried under another number.
LEMMA JobBegins ==
    ASSUME MovesInv, UNCHANGED page, NEW rest, Fewer(rest, calls), AllEvents \subseteq ToSet(rest),
           \A c \in ToSet(calls) : c \in ToSet(rest) \/ c.op = "retry", Len(world.jobs) < MaxJobs,
           Moves!Claim(Len(Moves!NewJob(world).jobs), "started", Moves!NewJob(world), rest)
    PROVE  MovesInv'
<1> DEFINE w == Moves!NewJob(world)
           n == Len(world.jobs) + 1
           e == Moves!Call("event", [job |-> n, seq |-> 1, status |-> "started"])
<1>1. MovesTyped
  BY DEF MovesInv
<1>2. /\ world.jobs \in Seq(Transferring) /\ Len(world.jobs) \in Nat /\ n \in Nat
      /\ DOMAIN world.jobs = 1..Len(world.jobs) /\ world \in MoveWorlds
  BY SMTT(40), <1>1, MovesFields DEF MovesTyped
<1>3. PICK fresh : fresh = [st |-> "started", seq |-> 0, paused |-> FALSE]
  BY Zenon
<1>30. fresh \in Transferring /\ fresh.st = "started" /\ fresh.seq = 0
  BY <1>3 DEF Transferring
<1>4. w = [world EXCEPT !.jobs = Append(@, fresh)]
  BY <1>3 DEF Moves!NewJob
<1> HIDE DEF w
<1>5. PICK s : s = Append(world.jobs, fresh)
  BY Zenon
<1>50. /\ s \in Seq(Transferring) /\ Len(s) = n /\ s[n] = fresh
       /\ \A k \in 1..Len(world.jobs) : s[k] = world.jobs[k]
  BY <1>2, <1>30, <1>5, AppendProperties
<1>6. w \in MoveWorlds /\ w.jobs = s /\ w.cleared = world.cleared
  <2>1. w = [world EXCEPT !.jobs = s]
    BY SMTT(40), <1>4, <1>5
  <2> QED BY SMTT(40), <1>2, <1>50, <2>1, TransfersWritten
<1>7. n \in DOMAIN w.jobs /\ DOMAIN w.jobs = 1..n
  BY SMTT(40), <1>2, <1>50, <1>6, LenProperties
<1>8. "started" \notin Moves!Over /\ "started" \in JobStatuses
  BY DEF Moves!Over, JobStatuses
<1>9. Moves!Claim(n, "started", w, rest)
  BY SMTT(40), <1>50, <1>6 DEF w
<1>10. /\ calls' = Append(rest, Moves!Call("event", [job |-> n, seq |-> w.jobs[n].seq + 1, status |-> "started"]))
       /\ world' \in MoveWorlds /\ world'.cleared = w.cleared
       /\ DOMAIN world'.jobs = DOMAIN w.jobs /\ Len(world'.jobs) = Len(w.jobs)
       /\ \A k \in DOMAIN w.jobs : k # n => world'.jobs[k] = w.jobs[k]
       /\ world'.jobs[n].seq = w.jobs[n].seq + 1
       /\ world'.jobs[n].st = IF "started" \in Moves!Over THEN "started" ELSE w.jobs[n].st
  <2>1. w.jobs[n].st \notin Moves!Over
    BY <1>30, <1>50, <1>6, <1>8
  <2> QED BY Zenon, <1>6, <1>7, <1>8, <1>9, <2>1, ClaimSets
<1>11. w.jobs[n].seq + 1 = 1 /\ w.jobs[n].st = "started"
  BY SMTT(40), <1>30, <1>50, <1>6
<1>12. calls' = Append(rest, e) /\ world'.jobs[n].seq = 1 /\ world'.jobs[n].st = "started"
  BY SMTT(40), <1>8, <1>10, <1>11
<1>13. /\ e \in MoveCalls /\ e.op = "event" /\ e.st = "sent"
       /\ e.x.job = n /\ e.x.seq = 1 /\ e.x.status = "started"
  BY SMTT(40), <1>1, <1>2, <1>8, EventIs
<1> HIDE DEF e
<1>14. ~IsEnd(e) /\ world'.jobs[n].st \notin Moves!Over /\ e.x.seq \in Nat \ {0} /\ e.x.seq = world'.jobs[n].seq
  BY SMTT(40), <1>8, <1>12, <1>13 DEF IsEnd
<1>15. /\ n \in DOMAIN world'.jobs /\ DOMAIN world'.jobs = DOMAIN world.jobs \union {n}
       /\ n \notin DOMAIN world.jobs
  BY SMTT(40), <1>2, <1>7, <1>10
<1>16. Len(world'.jobs) <= MaxJobs
  BY SMTT(40), <1>2, <1>50, <1>6, <1>10, AmountsAssumption
<1>17. \A k \in DOMAIN world.jobs : k # n => world'.jobs[k] = world.jobs[k]
  BY SMTT(40), <1>2, <1>50, <1>6, <1>7, <1>10
<1>18. \A c \in ToSet(calls) : c \in ToSet(rest) \/ c.x.job = n \/ c.op = "retry"
  OBVIOUS
<1> HIDE DEF n
<1> QED BY ZenonT(40), <1>6, <1>10, <1>12, <1>13, <1>14, <1>15, <1>16, <1>17, <1>18, MovesTold

-----------------------------------------------------------------------------
(* Transfers of files: steps of the page *)

LEMMA EventGoes ==
    ASSUME MovesInv, NEW i \in DOMAIN calls, calls[i].op = "event", calls[i].st # "sent",
           calls' = Moves!RemoveAt(calls, i) \o << >>
    PROVE  LET c == calls[i] IN
           /\ c \in ToSet(calls) /\ CallTrue(c) /\ c.op = "event" /\ c.got \in BOOLEAN
           /\ c.x.job \in Nat /\ c.x.seq \in Nat /\ c.x.status \in JobStatuses
           /\ calls' \in Seq(MoveCalls) /\ EventsDiffer(calls') /\ ToSet(calls') \subseteq ToSet(calls)
           /\ \A d \in ToSet(calls) : d \in ToSet(calls') \/ d = c
           /\ \A d \in ToSet(calls') : ~(d.op = "event" /\ d.x.job = c.x.job /\ d.x.seq = c.x.seq)
<1> DEFINE c == calls[i]
<1>1. MovesTyped /\ CallsTrue /\ calls \in Seq(MoveCalls)
  BY DEF MovesInv, MovesTyped
<1>2. c \in ToSet(calls)
  BY DEF ToSet
<1>3. CallTrue(c) /\ c \in MoveCalls
  BY <1>1, <1>2, MovesFields DEF CallsTrue
<1>4. c \in EventCalls
  BY <1>3 DEF MoveCalls, AskedCalls
<1>5. c.st = "ok" /\ c.x.job \in Nat /\ c.x.seq \in Nat /\ c.x.status \in JobStatuses
  BY SMTT(40), <1>4 DEF EventCalls
<1>6. c.got \in BOOLEAN
  BY SMTT(40), <1>3, <1>5 DEF CallTrue, EventTrue
<1>7. /\ Fewer(calls', calls)
      /\ \A d \in ToSet(calls) : d \in ToSet(calls') \/ d = c
      /\ \A d \in ToSet(calls') : ~(d.op = "event" /\ d.x.job = c.x.job /\ d.x.seq = c.x.seq)
  BY SMTT(40), <1>1, MoveGoes DEF CallsTrue
<1> QED BY SMTT(40), <1>2, <1>3, <1>5, <1>6, <1>7 DEF Fewer

\* An event that is known is dropped: it was not the last to come.
LEMMA KnownKeeps ==
    ASSUME MovesInv, UNCHANGED <<page, world>>, NEW i \in DOMAIN calls, calls[i].op = "event", calls[i].st # "sent",
           calls' = Moves!RemoveAt(calls, i) \o << >>, Moves!Known(page, calls[i].x)
    PROVE  MovesInv'
<1> DEFINE c == calls[i]
<1>1. /\ c \in ToSet(calls) /\ CallTrue(c) /\ c.op = "event" /\ c.x.seq \in Nat
      /\ calls' \in Seq(MoveCalls) /\ EventsDiffer(calls') /\ ToSet(calls') \subseteq ToSet(calls)
      /\ \A d \in ToSet(calls) : d \in ToSet(calls') \/ d = c
  BY EventGoes
<1>2. MovesTyped /\ CallsTrue /\ PageTrue /\ HistoryTrue /\ Told
  BY DEF MovesInv
<1>3. c.x.job \in EndedJobs \/ (c.x.job \in DOMAIN page.last /\ c.x.seq <= page.last[c.x.job])
  BY Zenon DEF Moves!Known, Moves!ToSet, ToSet, EndedJobs
<1> HIDE DEF c
<1>4. \A j : /\ IsOver(j)' <=> IsOver(j)
             /\ \A d \in EventsOf(j) : d \in EventsOf(j)' \/ d = c
  BY <1>1 DEF IsOver, EventsOf
<1>5. EndedJobs' = EndedJobs
  BY DEF EndedJobs
<1>6. MovesTyped'
  BY SMTT(40), <1>1, <1>2 DEF MovesTyped
<1>7. CallsTrue'
  BY <1>1, <1>2 DEF CallsTrue, CallTrue, EventTrue, IsOver, IsEnd
<1>8. PageTrue'
  BY <1>2, <1>4, <1>5 DEF PageTrue, LastTrue
<1>9. HistoryTrue'
  BY SMTT(40), <1>2, HistoryStays
<1>10. ASSUME c.x.job \notin EndedJobs
       PROVE  /\ c.x.job \in DOMAIN page.last
              /\ c.x.seq < world.jobs[c.x.job].seq
  <2>1. c.x.job \in DOMAIN page.last /\ c.x.seq <= page.last[c.x.job]
    BY SMTT(40), <1>3, <1>10
  <2>2. /\ page.last[c.x.job] \in Nat /\ page.last[c.x.job] <= world.jobs[c.x.job].seq
        /\ c.x.job \in DOMAIN world.jobs
    BY SMTT(40), <1>2, <2>1, MovesFields DEF PageTrue, LastTrue
  <2>3. page.last[c.x.job] # c.x.seq
    BY <1>1, <2>1 DEF CallTrue, EventTrue
  <2>4. world.jobs[c.x.job].seq \in Nat
    BY SMTT(40), <1>2, <2>2, MovesFields DEF Transferring
  <2> QED BY SMTT(40), <1>1, <2>1, <2>2, <2>3, <2>4
<1>11. ASSUME NEW j \in DOMAIN world.jobs PROVE ToldOf(j)'
  <2>1. ToldOf(j) /\ (j \in EndedJobs => IsOver(j)) /\ world.jobs[j].seq \in Nat
    BY SMTT(40), <1>2, MovesFields DEF Told, PageTrue, Transferring
  <2>2. CASE c.x.job # j
    <3>1. \A d \in EventsOf(j) : d \in EventsOf(j)'
      BY <1>4, <2>2 DEF EventsOf
    <3>2. \A d \in ToSet(calls) : d.op = "pause" => d \in ToSet(calls')
      BY <1>1
    <3>3. PauseTold(j) => PauseTold(j)'
      BY <3>1, <3>2 DEF PauseTold
    <3> QED BY <1>4, <1>5, <2>1, <3>1, <3>3 DEF ToldOf
  <2>3. CASE c.x.job = j /\ j \in EndedJobs
    BY SMTT(40), <1>4, <1>5, <2>1, <2>3 DEF ToldOf
  <2>4. CASE c.x.job = j /\ j \notin EndedJobs
    <3>1. j \in DOMAIN page.last /\ c.x.seq # world.jobs[j].seq
      BY SMTT(40), <1>1, <1>10, <2>1, <2>4
    <3>2. IsOver(j) => ~IsEnd(c)
      BY SMTT(40), <1>1, <2>4, <3>1 DEF CallTrue, EventTrue
    <3>3. \A d \in ToSet(calls) : d.op = "pause" => d \in ToSet(calls')
      BY <1>1
    <3>4. PauseTold(j) => PauseTold(j)'
      BY <1>4, <3>1, <3>3 DEF PauseTold
    <3>5. IsOver(j) => \E d \in EventsOf(j)' : IsEnd(d)
      BY <1>4, <2>1, <2>4, <3>2 DEF ToldOf
    <3> QED BY SMTT(40), <1>4, <1>5, <2>1, <3>1, <3>4, <3>5 DEF ToldOf, IsEnd
  <2> QED BY <2>2, <2>3, <2>4
<1>12. Told'
  BY <1>11 DEF Told
<1> QED BY SMTT(40), <1>6, <1>7, <1>8, <1>9, <1>12 DEF MovesInv

\* A function that is known at one more place.
LEMMA PutIn ==
    ASSUME NEW S, NEW f \in Maps(S), NEW j \in Nat, NEW v \in S, NEW g, g = Moves!Put(f, j, v)
    PROVE  g \in Maps(S)
<1>1. DOMAIN f \subseteq Nat /\ f \in [DOMAIN f -> S]
  BY Zenon DEF Maps
<1>2. g \in [DOMAIN f \union {j} -> S]
  BY <1>1 DEF Moves!Put
<1>3. DOMAIN f \union {j} \in SUBSET Nat
  BY <1>1
<1> QED BY SMTT(40), <1>2, <1>3 DEF Maps

\* News of a transfer under way.
LEMMA NewsKeeps ==
    ASSUME MovesInv, UNCHANGED world, NEW i \in DOMAIN calls, calls[i].op = "event", calls[i].st # "sent",
           calls' = Moves!RemoveAt(calls, i) \o << >>, ~Moves!Known(page, calls[i].x), ~IsEnd(calls[i]),
           page' = [page EXCEPT !.last = Moves!Put(@, calls[i].x.job, calls[i].x.seq),
                                !.transfers = Moves!Put(@, calls[i].x.job, [seq |-> calls[i].x.seq, paused |-> calls[i].got])]
    PROVE  MovesInv'
<1>0. PICK c, j, q : c = calls[i] /\ j = c.x.job /\ q = c.x.seq
  BY SMTT(40)
<1>1. /\ c \in ToSet(calls) /\ CallTrue(c) /\ c.op = "event" /\ c.got \in BOOLEAN /\ j \in Nat /\ q \in Nat
      /\ calls' \in Seq(MoveCalls) /\ EventsDiffer(calls') /\ ToSet(calls') \subseteq ToSet(calls)
      /\ \A d \in ToSet(calls) : d \in ToSet(calls') \/ d = c
      /\ \A d \in ToSet(calls') : ~(d.op = "event" /\ d.x.job = j /\ d.x.seq = q)
  BY SMTT(40), <1>0, EventGoes
<1>2. MovesTyped /\ CallsTrue /\ PageTrue /\ HistoryTrue /\ Told /\ page \in MovePages
  BY DEF MovesInv, MovesTyped
<1>3. j \notin EndedJobs /\ (j \in DOMAIN page.last => ~(q <= page.last[j]))
  BY <1>0, Zenon DEF Moves!Known, Moves!ToSet, ToSet, EndedJobs
<1>4. PICK v : v = [seq |-> q, paused |-> c.got]
  BY Zenon
<1>40. v \in Shows /\ v.paused = c.got
  BY <1>1, <1>4 DEF Shows
<1>5. page' = [page EXCEPT !.last = Moves!Put(@, j, q), !.transfers = Moves!Put(@, j, v)]
  BY <1>0, <1>4
<1>51. page.last \in Maps(Nat) /\ page.transfers \in Maps(Shows)
  BY <1>2 DEF MovePages
<1>52. PICK l, t : l = Moves!Put(page.last, j, q) /\ t = Moves!Put(page.transfers, j, v)
  OBVIOUS
<1>6. DOMAIN l = DOMAIN page.last \union {j} /\ l[j] = q /\ \A k \in DOMAIN page.last : k # j => l[k] = page.last[k]
  BY ONLY <1>52 DEF Moves!Put
<1>60. /\ DOMAIN t = DOMAIN page.transfers \union {j} /\ t[j] = v
       /\ \A k \in DOMAIN page.transfers : k # j => t[k] = page.transfers[k]
  BY ONLY <1>52 DEF Moves!Put
<1>61. l \in Maps(Nat) /\ t \in Maps(Shows)
  <2>1. j \in Nat /\ q \in Nat /\ v \in Shows
    BY <1>1, <1>40
  <2> QED BY ONLY SMTT(40), <1>51, <1>52, <2>1, PutIn
<1>62. page' = [page EXCEPT !.last = l, !.transfers = t]
  BY <1>5, <1>52
<1>63. /\ page' \in MovePages /\ page'.ended = page.ended /\ page'.history = page.history
       /\ page'.last = l /\ page'.transfers = t
  <2>1. page \in MovePages /\ l \in Maps(Nat) /\ t \in Maps(Shows)
    BY <1>2, <1>61
  <2> QED BY ONLY Zenon, <1>62, <2>1 DEF MovePages
<1>7. /\ DOMAIN page'.last = DOMAIN page.last \union {j}
      /\ page'.last[j] = q /\ \A k \in DOMAIN page.last : k # j => page'.last[k] = page.last[k]
  BY <1>6, <1>63
<1>8. /\ DOMAIN page'.transfers = DOMAIN page.transfers \union {j}
      /\ page'.transfers[j] = v /\ \A k \in DOMAIN page.transfers : k # j => page'.transfers[k] = page.transfers[k]
  BY <1>60, <1>63
<1>10. MovesTyped'
  BY SMTT(40), <1>1, <1>2, <1>63 DEF MovesTyped
<1>11. /\ j \in DOMAIN world.jobs /\ q \in 1..world.jobs[j].seq
       /\ IsOver(j) => q # world.jobs[j].seq
  <2>1. ~IsEnd(c)
    BY <1>0
  <2> QED BY <1>0, <1>1, <2>1 DEF CallTrue, EventTrue
<1>12. world.jobs[j].seq \in Nat
  BY SMTT(40), <1>2, <1>11, MovesFields DEF Transferring
<1>13. EndedJobs' = EndedJobs /\ \A k : IsOver(k)' <=> IsOver(k)
  BY <1>63 DEF EndedJobs, IsOver
<1>14. CallsTrue'
  <2>1. ASSUME NEW d \in ToSet(calls') PROVE CallTrue(d)'
    <3>1. CallTrue(d)
      BY SMTT(40), <1>1, <1>2 DEF CallsTrue
    <3>2. ASSUME d.op = "event", d.x.job \in DOMAIN page'.last PROVE page'.last[d.x.job] # d.x.seq
      <4>1. CASE d.x.job = j
        BY SMTT(40), <1>1, <1>7, <3>2, <4>1
      <4>2. CASE d.x.job # j
        BY SMTT(40), <1>7, <3>1, <3>2, <4>2 DEF CallTrue, EventTrue
      <4> QED BY SMTT(40), <4>1, <4>2
    <3> QED BY SMTT(40), <1>13, <3>1, <3>2 DEF CallTrue, EventTrue, IsEnd
  <2> QED BY SMTT(40), <1>1, <2>1 DEF CallsTrue
<1>15. PageTrue'
  <2>1. ASSUME NEW k \in DOMAIN page'.last PROVE LastTrue(k)'
    <3>1. CASE k = j
      BY SMTT(40), <1>7, <1>8, <1>11, <1>12, <1>13, <3>1 DEF LastTrue
    <3>2. CASE k # j
      <4>1. LastTrue(k) /\ page'.last[k] = page.last[k]
        BY SMTT(40), <1>2, <1>7, <3>2 DEF PageTrue
      <4> QED BY SMTT(40), <1>8, <1>13, <4>1 DEF LastTrue
    <3> QED BY SMTT(40), <3>1, <3>2
  <2>2. \A k \in DOMAIN page'.transfers : k \in DOMAIN world.jobs /\ k \notin EndedJobs
    BY SMTT(40), <1>2, <1>3, <1>8, <1>11 DEF PageTrue
  <2> QED BY SMTT(40), <1>2, <1>63, <1>13, <2>1, <2>2 DEF PageTrue
<1>16. HistoryTrue'
  BY SMTT(40), <1>2, <1>63, HistoryStays
<1>17. ASSUME NEW k \in DOMAIN world.jobs PROVE ToldOf(k)'
  <2>1. ToldOf(k)
    BY <1>2 DEF Told
  <2>2. \A d \in EventsOf(k) : d \in EventsOf(k)' \/ d = c
    BY <1>1 DEF EventsOf
  <2>3. \A d \in ToSet(calls) : d.op = "pause" => d \in ToSet(calls')
    BY <1>1
  <2>4. CASE k # j
    <3>1. c \notin EventsOf(k)
      BY SMTT(40), <1>0, <2>4 DEF EventsOf
    <3>2. k \in DOMAIN page'.last <=> k \in DOMAIN page.last
      BY SMTT(40), <1>7, <2>4
    <3>3. k \in DOMAIN page.last /\ ~IsOver(k) => page'.last[k] = page.last[k] /\ page'.transfers[k] = page.transfers[k]
      BY SMTT(40), <1>2, <1>7, <1>8, <2>4 DEF PageTrue, LastTrue
    <3>4. PauseTold(k) /\ ~IsOver(k) => PauseTold(k)'
      BY SMTT(40), <2>2, <2>3, <3>1, <3>2, <3>3 DEF PauseTold
    <3> QED BY SMTT(40), <1>13, <2>1, <2>2, <3>1, <3>2, <3>4 DEF ToldOf, IsEnd
  <2>5. CASE k = j
    <3>1. IsOver(j) => ~IsEnd(c)
      BY <1>0
    <3>2. IsOver(j) /\ j \notin EndedJobs => \E d \in EventsOf(j)' : IsEnd(d)
      BY SMTT(40), <2>1, <2>2, <2>5, <3>1 DEF ToldOf
    <3>3. PauseTold(j) => PauseTold(j)'
      <4>1. ASSUME q = world.jobs[j].seq, c.got = TRUE
            PROVE  page'.last[j] = world.jobs[j].seq /\ page'.transfers[j].paused
        BY <1>40, <1>7, <1>8, <4>1
      <4>2. ~(j \in DOMAIN page.last /\ page.last[j] = world.jobs[j].seq)
        BY <1>3, <1>11, <1>12
      <4>3. c.st # "sent"
        BY <1>0
      <4> QED BY ZenonT(40), <1>0, <1>7, <2>2, <2>3, <2>5, <4>1, <4>2, <4>3 DEF PauseTold
    <3> QED BY SMTT(40), <1>7, <1>13, <2>1, <2>5, <3>2, <3>3 DEF ToldOf, IsEnd
  <2> QED BY <2>4, <2>5
<1>18. Told'
  BY <1>17 DEF Told
<1> QED BY SMTT(40), <1>10, <1>14, <1>15, <1>16, <1>18 DEF MovesInv

\* As many transfers cannot have ended as were never started.
LEMMA EndedFit ==
    ASSUME NEW n \in Nat, NEW s \in Seq(1..n), OneByOne(s)
    PROVE  Len(s) <= n
<1>1. Len(s) \in Nat /\ s \in [1..Len(s) -> 1..n] /\ DOMAIN s = 1..Len(s)
  BY LenProperties
<1>2. /\ IsFiniteSet(1..Len(s)) /\ Cardinality(1..Len(s)) = Len(s)
      /\ IsFiniteSet(1..n) /\ Cardinality(1..n) = n
  <2>1. \A m \in Nat : IsFiniteSet(1..m) /\ Cardinality(1..m) = m
    <3> TAKE m \in Nat
    <3>1. IsFiniteSet(1..m) /\ Cardinality(1..m) = IF 1 > m THEN 0 ELSE m - 1 + 1
      BY FS_Interval
    <3> QED BY <3>1
  <2> QED BY <1>1, <2>1
<1>3. ASSUME n < Len(s) PROVE FALSE
  <2>1. \E x, y \in 1..Len(s) : x # y /\ s[x] = s[y]
    BY ZenonT(40), <1>1, <1>2, <1>3, FS_PigeonHole
  <2> QED BY Zenon, <1>1, <2>1 DEF OneByOne
<1> QED BY <1>1, <1>3

\* The history with one more entry, in front.
LEMMA EntryIs ==
    ASSUME NEW S, NEW h \in Seq(S), NEW v \in S, Len(h) <= HistoryKept
    PROVE  LET m == IF Len(h) < HistoryKept THEN Len(h) + 1 ELSE HistoryKept
               t == SubSeq(<<v>> \o h, 1, m) IN
           /\ t \in Seq(S) /\ Len(t) = m /\ DOMAIN t = 1..m
           /\ \A k \in 1..m : t[k] = IF k = 1 THEN v ELSE h[k - 1]
           /\ \A k \in 1..m : k # 1 => k - 1 \in DOMAIN h
<1> DEFINE m == IF Len(h) < HistoryKept THEN Len(h) + 1 ELSE HistoryKept
           u == <<v>> \o h
           t == SubSeq(u, 1, m)
<1>1. Len(h) \in Nat /\ DOMAIN h = 1..Len(h) /\ HistoryKept \in Nat
  BY LenProperties, AmountsAssumption
<1>2. <<v>> \in Seq(S) /\ Len(<<v>>) = 1 /\ <<v>>[1] = v
  OBVIOUS
<1>3. /\ u \in Seq(S) /\ Len(u) = 1 + Len(h)
      /\ \A k \in 1..(1 + Len(h)) : u[k] = IF k <= 1 THEN <<v>>[k] ELSE h[k - 1]
  BY <1>2, ConcatProperties
<1>4. \A k \in 1..(1 + Len(h)) : u[k] = IF k = 1 THEN v ELSE h[k - 1]
  BY SMTT(40), <1>1, <1>2, <1>3
<1>5. \A k \in 1..(1 + Len(h)) : u[k] \in S
  BY SMTT(40), <1>1, <1>3, LenProperties
<1>6. m \in Nat /\ m <= 1 + Len(h)
  BY <1>1
<1> HIDE DEF u, m
<1>7. /\ t \in Seq(S) /\ Len(t) = IF 1 <= m THEN m - 1 + 1 ELSE 0
      /\ \A k \in 1..(m - 1 + 1) : t[k] = u[1 + k - 1]
  <2>1. \A k \in 1..m : u[k] \in S
    BY SMTT(40), <1>1, <1>5, <1>6
  <2> QED BY SMTT(40), <1>6, <2>1, SubSeqProperties
<1> HIDE DEF t
<1>8. Len(t) = m /\ \A k \in 1..m : t[k] = u[k]
  BY <1>6, <1>7
<1>9. DOMAIN t = 1..m
  BY SMTT(40), <1>7, <1>8, LenProperties
<1>10. \A k \in 1..m : t[k] = IF k = 1 THEN v ELSE h[k - 1]
  BY SMTT(40), <1>1, <1>4, <1>6, <1>8
<1>11. \A k \in 1..m : k # 1 => k - 1 \in DOMAIN h
  BY SMTT(40), <1>1, <1>6
<1> QED BY SMTT(40), <1>7, <1>8, <1>9, <1>10, <1>11 DEF t, u, m

\* The last event of a transfer.
LEMMA EndKeepsHistory ==
    ASSUME MovesTyped, PageTrue, HistoryTrue, UNCHANGED world, NEW j \in DOMAIN world.jobs, IsOver(j),
           j \notin EndedJobs, EndedJobs' = EndedJobs \union {j},
           NEW v \in Entries, v.job = j, v.st = world.jobs[j].st,
           page'.history = SubSeq(<<v>> \o page.history, 1,
                                  IF Len(page.history) < HistoryKept THEN Len(page.history) + 1 ELSE HistoryKept)
    PROVE  page'.history \in Seq(Entries) /\ HistoryTrue'
<1> DEFINE h == page.history
           m == IF Len(h) < HistoryKept THEN Len(h) + 1 ELSE HistoryKept
<1>1. /\ h \in Seq(Entries) /\ Len(h) \in Nat /\ DOMAIN h = 1..Len(h)
      /\ HistoryKept \in Nat /\ Len(h) <= HistoryKept
  BY MovesFields, LenProperties, AmountsAssumption DEF HistoryTrue
<1>2. /\ page'.history \in Seq(Entries) /\ Len(page'.history) = m /\ DOMAIN page'.history = 1..m
      /\ \A k \in 1..m : page'.history[k] = IF k = 1 THEN v ELSE h[k - 1]
      /\ \A k \in 1..m : k # 1 => k - 1 \in DOMAIN h
  BY SMTT(40), <1>1, EntryIs
<1>3. m \in Nat /\ m <= HistoryKept /\ (Len(h) = HistoryKept => m = HistoryKept) /\ (Len(h) # HistoryKept => m = Len(h) + 1)
  BY SMTT(40), <1>1
<1>4. \A k \in DOMAIN h : h[k].job \in EndedJobs /\ h[k].st = world.jobs[h[k].job].st
  BY SMTT(40) DEF HistoryTrue
<1> HIDE DEF m, h
<1>5. \A k \in DOMAIN page'.history : page'.history[k].job \in EndedJobs' /\ page'.history[k].st = world.jobs[page'.history[k].job].st
  <2>1. EndedJobs' = EndedJobs \union {j} /\ UNCHANGED world /\ v.job = j /\ v.st = world.jobs[j].st
    OBVIOUS
  <2> QED BY ONLY SMTT(40), <1>2, <1>4, <2>1
<1>6. ASSUME NEW i \in DOMAIN page'.history, NEW k \in DOMAIN page'.history, page'.history[i].job = page'.history[k].job
      PROVE  i = k
  <2>0. v.job \notin EndedJobs /\ DOMAIN page'.history = 1..m
    BY SMTT(40), <1>2
  <2>1. CASE i = 1 \/ k = 1
    <3>1. ASSUME NEW a \in 1..m, a # 1 PROVE page'.history[a].job \in EndedJobs
      <4>1. page'.history[a] = h[a - 1] /\ a - 1 \in DOMAIN h
        BY Zenon, <1>2, <3>1
      <4> QED BY Zenon, <1>4, <4>1
    <3>2. \A a \in 1..m : a = 1 => page'.history[a] = v
      BY <1>2
    <3>3. i # 1 => k = 1 /\ page'.history[k].job = v.job
      BY Zenon, <2>0, <2>1, <3>2
    <3>4. k # 1 => i = 1 /\ page'.history[i].job = v.job
      BY Zenon, <2>0, <2>1, <3>2
    <3> QED BY Zenon, <1>6, <2>0, <3>1, <3>3, <3>4
  <2>2. CASE i # 1 /\ k # 1
    <3>1. /\ i - 1 \in DOMAIN h /\ k - 1 \in DOMAIN h /\ h[i - 1].job = h[k - 1].job
      BY Zenon, <1>2, <1>6, <2>2
    <3>2. i - 1 = k - 1
      BY <3>1 DEF HistoryTrue, h
    <3>3. i \in Int /\ k \in Int
      BY <1>2
    <3> QED BY <3>2, <3>3
  <2> QED BY <2>1, <2>2
<1>60. Len(h) # HistoryKept => 1 \in 1..m /\ \A i \in DOMAIN h : i + 1 \in 1..m /\ i + 1 # 1 /\ (i + 1) - 1 = i
  <2>1. PICK l : l = Len(h)
    BY Zenon
  <2>2. l \in Nat /\ DOMAIN h = 1..l /\ m \in Nat /\ (l # HistoryKept => m = l + 1)
    BY Zenon, <1>1, <1>3, <2>1
  <2>3. l # HistoryKept => 1 \in 1..m /\ \A i \in DOMAIN h : i + 1 \in 1..m /\ i + 1 # 1 /\ (i + 1) - 1 = i
    BY ONLY <2>2
  <2> QED BY ONLY SMTT(40), <2>1, <2>3
<1>7. ASSUME NEW k \in EndedJobs'
      PROVE  Moves!InHistory(page, k)' \/ k \in world.cleared \/ Len(page'.history) = HistoryKept
  <2>1. CASE Len(h) = HistoryKept
    BY <1>2, <1>3, <2>1
  <2>2. CASE k = j /\ Len(h) # HistoryKept
    <3>0. 1 \in 1..m
      BY <1>60, <2>2
    <3>1. 1 \in DOMAIN page'.history /\ page'.history[1].job = j
      BY <1>2, <3>0
    <3> QED BY Zenon, <2>2, <3>1 DEF Moves!InHistory
  <2>3. CASE k # j /\ Len(h) # HistoryKept
    <3>1. k \in EndedJobs
      BY <2>3
    <3>2. CASE k \in world.cleared
      BY <3>2
    <3>3. CASE Moves!InHistory(page, k)
      <4>1. PICK i \in DOMAIN h : h[i].job = k
        BY <3>3 DEF Moves!InHistory, h
      <4>2. i + 1 \in 1..m /\ i + 1 # 1 /\ (i + 1) - 1 = i
        BY <1>60, <2>3, <4>1
      <4>3. i + 1 \in DOMAIN page'.history /\ page'.history[i + 1].job = k
        BY Zenon, <1>2, <4>1, <4>2
      <4> QED BY Zenon, <4>3 DEF Moves!InHistory
    <3> QED BY Zenon, <2>3, <3>1, <3>2, <3>3 DEF HistoryTrue, h
  <2> QED BY Zenon, <2>1, <2>2, <2>3
<1> QED BY Zenon, <1>2, <1>3, <1>5, <1>6, <1>7 DEF HistoryTrue

LEMMA LastEventKeeps ==
    ASSUME MovesInv, MaxJobs <= Fence, UNCHANGED world, NEW i \in DOMAIN calls,
           calls[i].op = "event", calls[i].st # "sent", calls' = Moves!RemoveAt(calls, i) \o << >>,
           ~Moves!Known(page, calls[i].x), IsEnd(calls[i]),
           page' = Moves!Ended([page EXCEPT !.last = Moves!Put(@, calls[i].x.job, calls[i].x.seq)],
                               calls[i].x.job, calls[i].x.status)
    PROVE  MovesInv'
<1> DEFINE c == calls[i]
           j == c.x.job
           v == [job |-> j, st |-> c.x.status]
<1>1. /\ c \in ToSet(calls) /\ CallTrue(c) /\ c.op = "event" /\ j \in Nat /\ c.x.seq \in Nat
      /\ calls' \in Seq(MoveCalls) /\ EventsDiffer(calls') /\ ToSet(calls') \subseteq ToSet(calls)
      /\ \A d \in ToSet(calls) : d \in ToSet(calls') \/ d = c
      /\ \A d \in ToSet(calls') : ~(d.op = "event" /\ d.x.job = j /\ d.x.seq = c.x.seq)
  BY EventGoes
<1>2. MovesTyped /\ CallsTrue /\ PageTrue /\ HistoryTrue /\ Told /\ page \in MovePages
  BY DEF MovesInv, MovesTyped
<1>3. j \notin EndedJobs
  BY Zenon DEF Moves!Known, Moves!ToSet, ToSet, EndedJobs
<1>4. IsOver(j) /\ j \in DOMAIN world.jobs /\ c.x.status = world.jobs[j].st /\ c.x.status \in Moves!Over
  BY <1>1 DEF CallTrue, EventTrue, IsEnd
<1>30. PICK l, p : l = Moves!Put(page.last, j, c.x.seq) /\ p = [page EXCEPT !.last = l]
  OBVIOUS
<1>31. page' = Moves!Ended(p, j, c.x.status)
  BY SMTT(40), <1>30
<1>32. c.x.seq = world.jobs[j].seq
  BY SMTT(40), <1>1, <1>4 DEF CallTrue, EventTrue
<1> HIDE DEF c
<1>33. DOMAIN l = DOMAIN page.last \union {j} /\ l[j] = c.x.seq /\ \A k \in DOMAIN page.last : k # j => l[k] = page.last[k]
  BY ONLY SMTT(40), <1>30 DEF Moves!Put
<1>34. l \in Maps(Nat)
  <2>1. page.last \in Maps(Nat) /\ j \in Nat /\ c.x.seq \in Nat
    BY SMTT(40), <1>1, <1>2 DEF MovePages
  <2> QED BY ONLY SMTT(40), <1>30, <2>1, PutIn
<1>35. p \in MovePages /\ p.last = l /\ p.ended = page.ended /\ p.history = page.history /\ p.transfers = page.transfers
  <2>1. page \in MovePages
    BY <1>2
  <2> QED BY ONLY Zenon, <1>30, <1>34, <2>1 DEF MovePages
<1> DEFINE e == Append(p.ended, j)
<1>5. page.ended \in Seq(Nat) /\ DOMAIN page.ended = 1..Len(page.ended) /\ Len(page.ended) \in Nat
  BY SMTT(40), <1>2, MovesFields, LenProperties
<1>6. /\ e \in Seq(Nat) /\ DOMAIN e = 1..(Len(page.ended) + 1) /\ Len(e) = Len(page.ended) + 1
      /\ \A k \in 1..Len(page.ended) : e[k] = page.ended[k]
      /\ e[Len(page.ended) + 1] = j
  <2>1. /\ e \in Seq(Nat) /\ Len(e) = Len(page.ended) + 1 /\ e[Len(page.ended) + 1] = j
        /\ \A k \in 1..Len(page.ended) : e[k] = page.ended[k]
    BY SMTT(40), <1>1, <1>5, <1>35, AppendProperties
  <2> QED BY SMTT(40), <2>1, LenProperties
<1> HIDE DEF e
<1>7. \A k \in DOMAIN page.ended : page.ended[k] \in EndedJobs
  BY DEF EndedJobs, ToSet
<1>70. /\ DOMAIN page.ended \subseteq DOMAIN e
       /\ \A k \in DOMAIN e : k \notin DOMAIN page.ended => k = Len(page.ended) + 1
       /\ \A k \in DOMAIN e : e[k] = IF k \in DOMAIN page.ended THEN page.ended[k] ELSE j
  BY ONLY SMTT(40), <1>5, <1>6
<1>71. \A k \in DOMAIN e : e[k] = j \/ e[k] \in EndedJobs
  BY <1>7, <1>70
<1>8. OneByOne(e)
  <2> SUFFICES ASSUME NEW a \in DOMAIN e, NEW b \in DOMAIN e, e[a] = e[b]
               PROVE  a = b
    BY DEF OneByOne
  <2>1. CASE a \in DOMAIN page.ended /\ b \in DOMAIN page.ended
    BY SMTT(40), <1>2, <1>70, <2>1 DEF PageTrue, OneByOne
  <2>2. CASE a \notin DOMAIN page.ended /\ b \in DOMAIN page.ended
    <3>1. e[a] = j /\ e[b] = page.ended[b] /\ page.ended[b] \in EndedJobs
      BY <1>7, <1>70, <2>2
    <3> QED BY Zenon, <1>3, <3>1
  <2>3. CASE a \in DOMAIN page.ended /\ b \notin DOMAIN page.ended
    <3>1. e[b] = j /\ e[a] = page.ended[a] /\ page.ended[a] \in EndedJobs
      BY SMTT(40), <1>7, <1>70, <2>3
    <3> QED BY SMTT(40), <1>3, <3>1
  <2>4. CASE a \notin DOMAIN page.ended /\ b \notin DOMAIN page.ended
    BY SMTT(40), <1>70, <2>4
  <2> QED BY <2>1, <2>2, <2>3, <2>4
<1>9. ToSet(e) = EndedJobs \union {j}
  <2>1. \A k \in DOMAIN e : e[k] \in EndedJobs \union {j}
    BY <1>71
  <2>2. \A x \in EndedJobs : \E k \in DOMAIN e : e[k] = x
    BY SMTT(40), <1>5, <1>6 DEF EndedJobs, ToSet
  <2>3. \E k \in DOMAIN e : e[k] = j
    <3>1. PICK m : m = Len(page.ended)
      BY Zenon
    <3>2. m \in Nat /\ DOMAIN e = 1..(m + 1) /\ e[m + 1] = j
      BY SMTT(40), <1>5, <1>6, <3>1
    <3> QED BY ONLY <3>2
  <2> QED BY SMTT(40), <2>1, <2>2, <2>3 DEF ToSet
<1>10. ~(Len(e) > Fence)
  <2>1. Len(world.jobs) \in Nat /\ DOMAIN world.jobs = 1..Len(world.jobs) /\ Len(world.jobs) <= MaxJobs
    BY SMTT(40), <1>2, MovesFields DEF MovesTyped
  <2>2. \A k \in DOMAIN e : e[k] \in 1..Len(world.jobs)
    <3>1. j \in 1..Len(world.jobs) /\ \A x \in EndedJobs : x \in 1..Len(world.jobs)
      BY SMTT(40), <1>2, <1>4, <2>1 DEF PageTrue
    <3> QED BY SMTT(40), <1>71, <3>1
  <2>3. e \in Seq(1..Len(world.jobs))
    BY SMTT(40), <1>6, <2>2
  <2>4. Len(e) <= Len(world.jobs)
    BY SMTT(40), <1>8, <2>1, <2>3, EndedFit
  <2> QED BY SMTT(40), <1>5, <1>6, <2>1, <2>4, AmountsAssumption
<1>11. ~Moves!InHistory(p, j)
  BY <1>2, <1>3, <1>35 DEF Moves!InHistory, HistoryTrue
<1>12. /\ page'.n = 1 /\ page'.at = None /\ page'.ended = e /\ page'.last = l
       /\ page'.transfers = [k \in DOMAIN page.transfers \ {j} |-> page.transfers[k]]
       /\ page'.history = SubSeq(<<v>> \o page.history, 1,
                                 IF Len(page.history) < HistoryKept THEN Len(page.history) + 1 ELSE HistoryKept)
       /\ page' = [n |-> page'.n, at |-> page'.at, transfers |-> page'.transfers, last |-> page'.last,
                   ended |-> page'.ended, history |-> page'.history]
  <2>1. page' = [p EXCEPT !.ended = e, !.last = @,
                             !.transfers = [k \in DOMAIN @ \ {j} |-> @[k]],
                             !.history = SubSeq(<<v>> \o @, 1, IF Len(@) < HistoryKept THEN Len(@) + 1 ELSE HistoryKept)]
    BY <1>10, <1>11, <1>31, Zenon DEF Moves!Ended, Moves!Restrict, e
  <2>2. p \in MovePages /\ p.last = l /\ p.transfers = page.transfers /\ p.history = page.history
    BY SMTT(40), <1>35
  <2> QED BY ONLY Zenon, <2>1, <2>2 DEF MovePages
<1>120. page'.ended = e /\ page'.last = l /\ UNCHANGED world
  BY Zenon, <1>12
<1>13. EndedJobs' = EndedJobs \union {j}
  BY ONLY SMTT(40), <1>9, <1>120 DEF EndedJobs
<1>14. v \in Entries /\ v.job = j /\ v.st = world.jobs[j].st
  BY SMTT(40), <1>1, <1>4 DEF Entries
<1>15. page'.history \in Seq(Entries) /\ HistoryTrue'
  BY Zenon, <1>2, <1>3, <1>4, <1>12, <1>13, <1>14, EndKeepsHistory
<1> HIDE DEF v
<1>16. /\ page'.transfers \in Maps(Shows)
       /\ DOMAIN page'.transfers = DOMAIN page.transfers \ {j}
       /\ \A k \in DOMAIN page.transfers : k # j => page'.transfers[k] = page.transfers[k]
  <2>1. /\ page.transfers \in [DOMAIN page.transfers -> Shows]
        /\ DOMAIN page.transfers \ {j} \in SUBSET Nat
    BY <1>2, MovesFields
  <2>2. page'.transfers \in [DOMAIN page.transfers \ {j} -> Shows]
    BY Zenon, <1>12, <2>1
  <2> QED BY ZenonT(40), <1>12, <2>1, <2>2 DEF Maps
<1>17. MovesTyped'
  <2>1. page' \in MovePages
    BY Zenon, <1>2, <1>6, <1>12, <1>15, <1>16, <1>34 DEF MovePages
  <2> QED BY <1>1, <1>2, <2>1 DEF MovesTyped
<1>18. \A k : IsOver(k)' <=> IsOver(k)
  BY DEF IsOver
<1>19. CallsTrue'
  <2>1. ASSUME NEW d \in ToSet(calls') PROVE CallTrue(d)'
    <3>1. CallTrue(d)
      BY <1>1, <1>2 DEF CallsTrue
    <3>2. ASSUME d.op = "event", d.x.job \in DOMAIN l PROVE l[d.x.job] # d.x.seq
      <4>1. CASE d.x.job = j
        BY SMTT(40), <1>1, <1>33, <3>2, <4>1
      <4>2. CASE d.x.job # j
        BY SMTT(40), <1>33, <3>1, <3>2, <4>2 DEF CallTrue, EventTrue
      <4> QED BY SMTT(40), <4>1, <4>2
    <3> QED BY ONLY SMTT(40), <1>120, <1>18, <3>1, <3>2 DEF CallTrue, EventTrue, IsEnd
  <2> QED BY SMTT(40), <1>1, <2>1 DEF CallsTrue
<1>20. PageTrue'
  <2>1. ASSUME NEW k \in DOMAIN l PROVE LastTrue(k)'
    <3>1. CASE k = j
      <4>1. world.jobs[j].seq \in Nat
        BY SMTT(40), <1>2, <1>4, MovesFields DEF Transferring
      <4> QED BY ONLY SMTT(40), <1>4, <1>120, <1>13, <1>18, <1>32, <1>33, <3>1, <4>1 DEF LastTrue
    <3>2. CASE k # j
      <4>1. LastTrue(k) /\ l[k] = page.last[k]
        BY SMTT(40), <1>2, <1>33, <3>2 DEF PageTrue
      <4> QED BY ONLY SMTT(40), <1>120, <1>13, <1>16, <1>18, <3>2, <4>1 DEF LastTrue
    <3> QED BY <3>1, <3>2
  <2> QED BY Zenon, <1>2, <1>4, <1>8, <1>12, <1>13, <1>16, <1>18, <2>1 DEF PageTrue
<1>21. ASSUME NEW k \in DOMAIN world.jobs PROVE ToldOf(k)'
  <2>1. CASE k = j
    BY SMTT(40), <1>4, <1>13, <1>18, <2>1 DEF ToldOf
  <2>2. CASE k # j
    <3>1. ToldOf(k) /\ \A d \in EventsOf(k) : d \in EventsOf(k)'
      BY <1>1, <1>2, <2>2 DEF Told, EventsOf
    <3>2. \A d \in ToSet(calls) : d.op = "pause" => d \in ToSet(calls')
      BY SMTT(40), <1>1
    <3>3. ~IsOver(k) /\ k \in DOMAIN page.last => page'.transfers[k] = page.transfers[k]
      BY SMTT(40), <1>2, <1>16, <2>2 DEF PageTrue, LastTrue
    <3>4. PauseTold(k) /\ ~IsOver(k) => PauseTold(k)'
      BY ONLY SMTT(40), <1>120, <1>33, <2>2, <3>1, <3>2, <3>3 DEF PauseTold
    <3> QED BY ONLY SMTT(40), <1>120, <1>13, <1>18, <1>33, <2>2, <3>1, <3>4 DEF ToldOf, IsEnd
  <2> QED BY SMTT(40), <2>1, <2>2
<1>22. Told'
  BY <1>21 DEF Told
<1> QED BY <1>15, <1>17, <1>19, <1>20, <1>22 DEF MovesInv

-----------------------------------------------------------------------------
(* Transfers of files: the actions *)

LEMMA CallsFewer ==
    ASSUME MovesInv
    PROVE  Fewer(calls, calls) /\ AllEvents \subseteq ToSet(calls)
BY DEF MovesInv, MovesTyped, CallsTrue, Fewer, AllEvents

\* Calls of the user come or go, the transfers stay as they are.
LEMMA AsksChange ==
    ASSUME MovesInv, UNCHANGED <<page, world>>, calls' \in Seq(MoveCalls), EventsDiffer(calls'),
           AllEvents' = AllEvents, \A c \in ToSet(calls') : c.x.job \in DOMAIN world.jobs,
           \A c \in ToSet(calls) : c.op = "pause" /\ c.st = "ok" => c \in ToSet(calls')
    PROVE  MovesInv'
<1>1. world' \in MoveWorlds
  BY DEF MovesInv, MovesTyped
<1> QED BY <1>1, AskKeeps DEF IsOver

LEMMA MovesStay ==
    ASSUME MovesInv, UNCHANGED <<page, calls, world>>
    PROVE  MovesInv'
<1>1. /\ calls' \in Seq(MoveCalls) /\ EventsDiffer(calls') /\ AllEvents' = AllEvents
      /\ \A c \in ToSet(calls') : c.x.job \in DOMAIN world.jobs
  BY DEF MovesInv, MovesTyped, CallsTrue, CallTrue, AllEvents
<1> QED BY <1>1, AsksChange

\* One transfer is changed, but for its number and for whether it is over.
LEMMA JobIs ==
    ASSUME MovesTyped, NEW j \in DOMAIN world.jobs, NEW st \in {"started", "stopping"} \union Moves!Over,
           NEW paused \in BOOLEAN, world' = [world EXCEPT !.jobs[j].st = st, !.jobs[j].paused = paused]
    PROVE  /\ world' \in MoveWorlds /\ world'.cleared = world.cleared
           /\ DOMAIN world'.jobs = DOMAIN world.jobs /\ Len(world'.jobs) = Len(world.jobs)
           /\ world'.jobs[j].seq = world.jobs[j].seq /\ world'.jobs[j].st = st /\ world'.jobs[j].paused = paused
           /\ \A k \in DOMAIN world.jobs : k # j => world'.jobs[k] = world.jobs[k]
<1>1. /\ world \in MoveWorlds /\ world.jobs \in Seq(Transferring)
      /\ world' = Standing(world, j, st, paused)
  BY DEF MovesTyped, MoveWorlds, Standing
<1>2. PICK r \in Transferring : r = world.jobs[j]
  BY <1>1, LenProperties
<1>3. PICK u : u = [[r EXCEPT !.st = st] EXCEPT !.paused = paused]
  OBVIOUS
<1>4. u \in Transferring /\ u.st = st /\ u.seq = r.seq /\ u.paused = paused
  BY Zenon, <1>2, <1>3 DEF Transferring
<1>5. world' = JobAnew(world, j, u)
  BY ZenonT(40), <1>1, <1>2, <1>3 DEF MoveWorlds, JobAnew, Standing
<1>6. /\ world' \in MoveWorlds /\ world'.cleared = world.cleared
      /\ DOMAIN world'.jobs = DOMAIN world.jobs /\ Len(world'.jobs) = Len(world.jobs) /\ world'.jobs[j] = u
      /\ \A k \in DOMAIN world.jobs : k # j => world'.jobs[k] = world.jobs[k]
  <2>1. j \in DOMAIN world.jobs
    OBVIOUS
  <2> QED BY ONLY SMTT(40), <1>1, <1>4, <1>5, <2>1, JobSet
<1> QED BY SMTT(40), <1>2, <1>4, <1>6

\* The context of a transfer is ended, and its gate is opened.
LEMMA StopKeeps ==
    ASSUME MovesInv, UNCHANGED page, NEW j \in DOMAIN world.jobs, ~IsOver(j), world' = Moves!Stopped(j),
           calls' \in Seq(MoveCalls), EventsDiffer(calls'), AllEvents' = AllEvents,
           \A c \in ToSet(calls') : c.x.job \in DOMAIN world.jobs,
           \A c \in ToSet(calls) : c.op = "pause" /\ c.st = "ok" => c \in ToSet(calls')
    PROVE  MovesInv'
<1>1. /\ world' \in MoveWorlds /\ world'.cleared = world.cleared
      /\ DOMAIN world'.jobs = DOMAIN world.jobs /\ Len(world'.jobs) = Len(world.jobs)
      /\ world'.jobs[j].seq = world.jobs[j].seq /\ world'.jobs[j].st = "stopping" /\ world'.jobs[j].paused = FALSE
      /\ \A k \in DOMAIN world.jobs : k # j => world'.jobs[k] = world.jobs[k]
  <2>1. "stopping" \in {"started", "stopping"} \union Moves!Over /\ MovesTyped
    BY DEF MovesInv
  <2>2. world' = [world EXCEPT !.jobs[j].st = "stopping", !.jobs[j].paused = FALSE]
    BY Zenon DEF Moves!Stopped
  <2> QED BY Zenon, <2>1, <2>2, JobIs
<1>2. "stopping" \notin Moves!Over
  BY DEF Moves!Over
<1>3. ASSUME NEW k \in DOMAIN world.jobs
      PROVE  /\ world'.jobs[k].seq = world.jobs[k].seq
             /\ world'.jobs[k].st \in Moves!Over <=> IsOver(k)
             /\ IsOver(k) => world'.jobs[k].st = world.jobs[k].st
             /\ world'.jobs[k].paused => world.jobs[k].paused
  <2>1. CASE k = j
    BY <1>1, <1>2, <2>1 DEF IsOver
  <2>2. CASE k # j
    <3>1. world'.jobs[k] = world.jobs[k]
      BY <1>1, <2>2
    <3> QED BY <3>1 DEF IsOver
  <2> QED BY <2>1, <2>2
<1> QED BY ZenonT(40), <1>1, <1>3, AskKeeps

LEMMA RunKeeps ==
    ASSUME MovesInv, Moves!Start \/ \E j \in 1..MaxJobs : Moves!Copied(j) \/ Moves!Finishes(j) \/ Moves!Ends(j)
    PROVE  MovesInv'
<1>1. Fewer(calls, calls) /\ AllEvents \subseteq ToSet(calls)
  BY CallsFewer
<1>2. CASE Moves!Start
  <2>1. /\ UNCHANGED page /\ Len(world.jobs) < MaxJobs
        /\ Moves!Claim(Len(Moves!NewJob(world).jobs), "started", Moves!NewJob(world), calls)
    BY <1>2, Zenon DEF Moves!Start
  <2> QED BY SMTT(40), <1>1, <2>1, JobBegins
<1>3. ASSUME NEW j \in 1..MaxJobs, Moves!Copied(j) PROVE MovesInv'
  <2>1. /\ UNCHANGED page /\ j \in DOMAIN world.jobs /\ Moves!Claim(j, "progress", world, calls)
    BY <1>3 DEF Moves!Copied, Moves!Live, Moves!Started
  <2>2. "progress" \in JobStatuses
    BY DEF JobStatuses
  <2> QED BY SMTT(40), <1>1, <2>1, <2>2, ClaimKeeps
<1>4. ASSUME NEW j \in 1..MaxJobs, Moves!Ends(j) PROVE MovesInv'
  <2>1. UNCHANGED page /\ j \in DOMAIN world.jobs
    BY <1>4 DEF Moves!Ends, Moves!Live, Moves!Started
  <2>2. PICK st \in JobStatuses : Moves!Claim(j, st, world, calls)
    <3>1. PICK st \in Moves!Over : Moves!Claim(j, st, world, calls)
      BY <1>4, Zenon DEF Moves!Ends
    <3>2. st \in JobStatuses
      BY <3>1 DEF JobStatuses, Moves!Over
    <3> QED BY <3>1, <3>2
  <2> QED BY SMTT(40), <1>1, <2>1, <2>2, ClaimKeeps
<1>5. ASSUME NEW j \in 1..MaxJobs, Moves!Finishes(j) PROVE MovesInv'
  <2>1. j \in DOMAIN world.jobs /\ ~IsOver(j) /\ world' = Moves!Stopped(j) /\ UNCHANGED <<page, acts, calls>>
    BY <1>5 DEF Moves!Finishes, Moves!Live, Moves!Started, IsOver
  <2>2. /\ calls' \in Seq(MoveCalls) /\ EventsDiffer(calls') /\ AllEvents' = AllEvents
        /\ \A d \in ToSet(calls') : d.x.job \in DOMAIN world.jobs
    BY <2>1 DEF MovesInv, MovesTyped, CallsTrue, CallTrue, AllEvents
  <2>3. \A d \in ToSet(calls) : d.st = "ok" => d \in ToSet(calls')
    BY <2>1
  <2> QED BY <2>1, <2>2, <2>3, StopKeeps
<1> QED BY SMTT(40), <1>2, <1>3, <1>4, <1>5

\* A call that was not of an event is no longer there.
LEMMA AskGone ==
    ASSUME MovesInv, NEW i \in DOMAIN calls, calls[i].op # "event"
    PROVE  LET t == Moves!RemoveAt(calls, i) IN
           /\ Fewer(t, calls) /\ AllEvents \subseteq ToSet(t) /\ {c \in ToSet(t) : c.op = "event"} = AllEvents
           /\ \A c \in ToSet(calls) : c \in ToSet(t) \/ c = calls[i]
           /\ \A c \in ToSet(t) : c.x.job \in DOMAIN world.jobs
<1> DEFINE t == Moves!RemoveAt(calls, i)
<1>1. calls \in Seq(MoveCalls) /\ EventsDiffer(calls) /\ \A c \in ToSet(calls) : c.x.job \in DOMAIN world.jobs
  BY DEF MovesInv, MovesTyped, CallsTrue, CallTrue
<1>2. Fewer(t, calls) /\ \A c \in ToSet(calls) : c \in ToSet(t) \/ c = calls[i]
  BY SMTT(40), <1>1, MoveGoes
<1> HIDE DEF t
<1> QED BY SMTT(40), <1>1, <1>2 DEF Fewer, AllEvents, t

\* A call of the user is answered: what it asked for is done.
LEMMA AskAnswered ==
    ASSUME MovesInv, NEW i \in DOMAIN calls, calls[i].op \in {"pause", "resume", "cancel", "retry"}
    PROVE  LET e == [calls[i] EXCEPT !.st = "ok", !.got = None]
               t == [calls EXCEPT ![i] = e] IN
           /\ e \in MoveCalls /\ e.op = calls[i].op /\ e.x = calls[i].x /\ e.st = "ok"
           /\ t = [calls EXCEPT ![i].st = "ok", ![i].got = None]
           /\ t \in Seq(MoveCalls) /\ EventsDiffer(t) /\ {c \in ToSet(t) : c.op = "event"} = AllEvents
           /\ e \in ToSet(t) /\ \A c \in ToSet(t) : c.x.job \in DOMAIN world.jobs
           /\ \A c \in ToSet(calls) : c \in ToSet(t) \/ c = calls[i]
<1> DEFINE e == [calls[i] EXCEPT !.st = "ok", !.got = None]
           t == [calls EXCEPT ![i] = e]
<1>1. /\ calls \in Seq(MoveCalls) /\ EventsDiffer(calls) /\ calls[i] \in ToSet(calls)
      /\ \A c \in ToSet(calls) : c \in MoveCalls /\ c.x.job \in DOMAIN world.jobs
  BY Zenon, MovesFields DEF MovesInv, MovesTyped, CallsTrue, CallTrue, ToSet
<1>2. calls[i] \in AskedCalls
  BY <1>1 DEF MoveCalls, EventCalls
<1>3. e \in AskedCalls /\ e.op = calls[i].op /\ e.x = calls[i].x /\ e.st = "ok"
  BY Zenon, <1>2 DEF AskedCalls
<1>4. t = [calls EXCEPT ![i].st = "ok", ![i].got = None]
  BY Zenon
<1> HIDE DEF e
<1>5. e \in MoveCalls
  BY <1>3 DEF MoveCalls
<1>6. /\ t \in Seq(MoveCalls) /\ EventsDiffer(t) /\ e \in ToSet(t)
      /\ \A c \in ToSet(t) : c \in ToSet(calls) \/ c = e
      /\ \A c \in ToSet(calls) : c \in ToSet(t) \/ c = calls[i]
  BY Zenon, <1>1, <1>3, <1>5, MoveTurns
<1> HIDE DEF t
<1>7. {c \in ToSet(t) : c.op = "event"} = AllEvents
  BY <1>3, <1>6 DEF AllEvents
<1>8. \A c \in ToSet(t) : c.x.job \in DOMAIN world.jobs
  BY SMTT(40), <1>1, <1>3, <1>6
<1> QED BY Zenon, <1>3, <1>4, <1>5, <1>6, <1>7, <1>8 DEF e, t

LEMMA ServeKeeps ==
    ASSUME MovesInv, Moves!Serve
    PROVE  MovesInv'
<1>1. PICK i \in DOMAIN calls :
        /\ calls[i].st = "sent" /\ UNCHANGED <<page, acts>>
        /\ LET c == calls[i]  j == c.x.job  rest == Moves!RemoveAt(calls, i) IN
           CASE c.op = "event" ->
                Moves!Served(i, c.x.status = "paused" \/ world.jobs[j].paused) /\ UNCHANGED world
             [] c.op = "pause" ->
                IF world.jobs[j].st # "started" \/ world.jobs[j].paused THEN calls' = rest /\ UNCHANGED world
                ELSE Moves!Served(i, None) /\ world' = [world EXCEPT !.jobs[j].paused = TRUE]
             [] c.op = "resume" ->
                IF ~Moves!Live(j) \/ ~world.jobs[j].paused THEN calls' = rest /\ UNCHANGED world
                ELSE Moves!Served(i, None) /\ world' = [world EXCEPT !.jobs[j].paused = FALSE]
             [] c.op = "cancel" ->
                /\ calls' = rest
                /\ world' = IF Moves!Live(j) THEN Moves!Stopped(j) ELSE world
             [] c.op = "retry" ->
                IF Len(world.jobs) = MaxJobs THEN calls' = rest /\ UNCHANGED world
                ELSE LET w == Moves!NewJob(world) IN Moves!Claim(Len(w.jobs), "started", w, rest)
  BY Zenon DEF Moves!Serve
<1> DEFINE c == calls[i]
           j == c.x.job
           rest == Moves!RemoveAt(calls, i)
<1>2. /\ MovesTyped /\ c \in MoveCalls /\ j \in DOMAIN world.jobs /\ c \in ToSet(calls)
      /\ world.jobs[j] \in Transferring
  BY MovesFields DEF MovesInv, MovesTyped, CallsTrue, CallTrue, ToSet
<1>3. c.op \in {"event", "pause", "resume", "cancel", "retry"}
  BY <1>2 DEF MoveCalls, EventCalls, AskedCalls
<1>4. c.op # "event" =>
        /\ Fewer(rest, calls) /\ AllEvents \subseteq ToSet(rest) /\ {d \in ToSet(rest) : d.op = "event"} = AllEvents
        /\ \A d \in ToSet(calls) : d \in ToSet(rest) \/ d = c
        /\ \A d \in ToSet(rest) : d.x.job \in DOMAIN world.jobs
  BY SMTT(40), AskGone
<1>5. CASE c.op = "event"
  <2>1. PICK g \in BOOLEAN : g <=> (c.x.status = "paused" \/ world.jobs[j].paused)
    BY Zenon
  <2>2. (c.x.status = "paused" \/ world.jobs[j].paused) \in BOOLEAN /\ (c.x.status = "paused" \/ world.jobs[j].paused) = g
    BY <2>1
  <2>3. calls' = [calls EXCEPT ![i].st = "ok", ![i].got = c.x.status = "paused" \/ world.jobs[j].paused] /\ UNCHANGED world
    BY SMTT(40), <1>1, <1>5 DEF Moves!Served
  <2>4. calls' = [calls EXCEPT ![i].st = "ok", ![i].got = g]
    BY Zenon, <2>2, <2>3
  <2> DEFINE e == [c EXCEPT !.st = "ok", !.got = g]
  <2>5. calls' = [calls EXCEPT ![i] = e]
    BY Zenon, <2>4
  <2>6. c \in EventCalls
    BY <1>2, <1>5 DEF MoveCalls, AskedCalls
  <2>7. e \in EventCalls /\ e.op = "event" /\ e.x = c.x /\ e.st = "ok" /\ e.got = g
    BY ONLY Zenon, <2>6, g \in BOOLEAN DEF EventCalls
  <2> HIDE DEF e
  <2>8. world.jobs[e.x.job].paused => e.got = TRUE
    BY <2>1, <2>7
  <2>9. e \in MoveCalls
    BY <2>7 DEF MoveCalls
  <2> QED BY Zenon, <1>1, <1>5, <2>3, <2>5, <2>7, <2>8, <2>9, EventSent
<1>6. ASSUME c.op # "event", calls' = rest, UNCHANGED world PROVE MovesInv'
  <2>1. /\ calls' \in Seq(MoveCalls) /\ EventsDiffer(calls') /\ AllEvents' = AllEvents
        /\ \A d \in ToSet(calls') : d.x.job \in DOMAIN world.jobs
    BY SMTT(40), <1>4, <1>6 DEF Fewer, AllEvents
  <2>2. \A d \in ToSet(calls) : d.st = "ok" => d \in ToSet(calls')
    BY SMTT(40), <1>1, <1>4, <1>6
  <2> QED BY SMTT(40), <1>1, <1>6, <2>1, <2>2, AsksChange
<1> DEFINE answered == [calls[i] EXCEPT !.st = "ok", !.got = None]
<1>7. ASSUME c.op \in {"pause", "resume"}, calls' = [calls EXCEPT ![i].st = "ok", ![i].got = None]
      PROVE  /\ answered.op = c.op /\ answered.x = c.x /\ answered.st = "ok" /\ answered \in ToSet(calls')
             /\ calls' \in Seq(MoveCalls) /\ EventsDiffer(calls') /\ AllEvents' = AllEvents
             /\ \A d \in ToSet(calls') : d.x.job \in DOMAIN world.jobs
             /\ \A d \in ToSet(calls) : d.st = "ok" => d \in ToSet(calls')
  <2>1. c.op \in {"pause", "resume", "cancel", "retry"}
    BY SMTT(40), <1>7
  <2>2. /\ answered.op = c.op /\ answered.x = c.x /\ answered.st = "ok" /\ answered \in ToSet(calls')
        /\ calls' \in Seq(MoveCalls) /\ EventsDiffer(calls')
        /\ {d \in ToSet(calls') : d.op = "event"} = AllEvents
        /\ \A d \in ToSet(calls') : d.x.job \in DOMAIN world.jobs
        /\ \A d \in ToSet(calls) : d \in ToSet(calls') \/ d = c
    BY Zenon, <1>7, <2>1, AskAnswered
  <2> HIDE DEF answered
  <2> QED BY <1>1, <2>2 DEF AllEvents
<1> HIDE DEF rest, answered
<1>9. CASE c.op = "pause"
  <2>1. CASE world.jobs[j].st # "started" \/ world.jobs[j].paused
    BY SMTT(40), <1>1, <1>6, <1>9, <2>1 DEF rest
  <2>2. CASE ~(world.jobs[j].st # "started" \/ world.jobs[j].paused)
    <3>1. calls' = [calls EXCEPT ![i].st = "ok", ![i].got = None] /\ world' = [world EXCEPT !.jobs[j].paused = TRUE]
      BY <1>1, <1>9, <2>2 DEF Moves!Served
    <3>2. PICK st \in {"started", "stopping"} \union Moves!Over : st = world.jobs[j].st
      BY Zenon, <1>2 DEF Transferring
    <3>3. world' = [world EXCEPT !.jobs[j].st = st, !.jobs[j].paused = TRUE]
      BY ZenonT(40), <1>2, <3>1, <3>2 DEF MovesTyped, MoveWorlds, Transferring
    <3>4. /\ world' \in MoveWorlds /\ world'.cleared = world.cleared
          /\ DOMAIN world'.jobs = DOMAIN world.jobs /\ Len(world'.jobs) = Len(world.jobs)
          /\ world'.jobs[j].seq = world.jobs[j].seq /\ world'.jobs[j].st = st
          /\ \A k \in DOMAIN world.jobs : k # j => world'.jobs[k] = world.jobs[k]
      BY Zenon, <1>2, <3>3, JobIs
    <3>5. \E d \in ToSet(calls') : d.op = "pause" /\ d.x.job = j /\ d.st = "ok"
      BY SMTT(40), <1>7, <1>9, <3>1
    <3> HIDE DEF c, j
    <3> QED BY ZenonT(40), <1>1, <1>7, <1>9, <3>1, <3>2, <3>4, <3>5, AskKeeps DEF IsOver
  <2> QED BY SMTT(40), <2>1, <2>2
<1>10. CASE c.op = "resume"
  <2>1. CASE ~Moves!Live(j) \/ ~world.jobs[j].paused
    BY SMTT(40), <1>1, <1>6, <1>10, <2>1 DEF rest
  <2>2. CASE ~(~Moves!Live(j) \/ ~world.jobs[j].paused)
    <3>1. calls' = [calls EXCEPT ![i].st = "ok", ![i].got = None] /\ world' = [world EXCEPT !.jobs[j].paused = FALSE]
      BY SMTT(40), <1>1, <1>10, <2>2 DEF Moves!Served
    <3>2. PICK st \in {"started", "stopping"} \union Moves!Over : st = world.jobs[j].st
      BY <1>2 DEF Transferring
    <3>3. world' = [world EXCEPT !.jobs[j].st = st, !.jobs[j].paused = FALSE]
      BY Zenon, <1>2, <3>1, <3>2 DEF MovesTyped, MoveWorlds, Transferring
    <3>4. /\ world' \in MoveWorlds /\ world'.cleared = world.cleared
          /\ DOMAIN world'.jobs = DOMAIN world.jobs /\ Len(world'.jobs) = Len(world.jobs)
          /\ world'.jobs[j].seq = world.jobs[j].seq /\ world'.jobs[j].st = st /\ world'.jobs[j].paused = FALSE
          /\ \A k \in DOMAIN world.jobs : k # j => world'.jobs[k] = world.jobs[k]
      BY Zenon, <1>2, <3>3, JobIs
    <3> HIDE DEF c, j
    <3> QED BY ZenonT(40), <1>1, <1>7, <1>10, <3>1, <3>2, <3>4, AskKeeps DEF IsOver
  <2> QED BY SMTT(40), <2>1, <2>2
<1>11. CASE c.op = "cancel"
  <2>1. CASE ~Moves!Live(j)
    BY SMTT(40), <1>1, <1>6, <1>11, <2>1 DEF rest
  <2>2. CASE Moves!Live(j)
    <3>1. calls' = rest /\ world' = Moves!Stopped(j) /\ ~IsOver(j)
      BY SMTT(40), <1>1, <1>11, <2>2 DEF Moves!Live, IsOver, rest
    <3>2. /\ calls' \in Seq(MoveCalls) /\ EventsDiffer(calls') /\ AllEvents' = AllEvents
          /\ \A d \in ToSet(calls') : d.x.job \in DOMAIN world.jobs
      BY SMTT(40), <1>4, <1>11, <3>1 DEF Fewer, AllEvents
    <3>3. \A d \in ToSet(calls) : d.st = "ok" => d \in ToSet(calls')
      BY SMTT(40), <1>1, <1>4, <1>11, <3>1
    <3> HIDE DEF c, j
    <3> QED BY ZenonT(40), <1>1, <1>2, <3>1, <3>2, <3>3, StopKeeps
  <2> QED BY <2>1, <2>2
<1>12. CASE c.op = "retry"
  <2>1. CASE Len(world.jobs) = MaxJobs
    BY SMTT(40), <1>1, <1>6, <1>12, <2>1 DEF rest
  <2>2. CASE Len(world.jobs) # MaxJobs
    <3>1. Moves!Claim(Len(Moves!NewJob(world).jobs), "started", Moves!NewJob(world), rest)
      BY <1>1, <1>12, <2>2, Zenon DEF rest
    <3>2. Len(world.jobs) < MaxJobs
      <4>1. Len(world.jobs) \in Nat /\ Len(world.jobs) <= MaxJobs
        BY <1>2, MovesFields DEF MovesTyped
      <4> QED BY SMTT(40), <2>2, <4>1, AmountsAssumption
    <3>3. \A d \in ToSet(calls) : d \in ToSet(rest) \/ d.op = "retry"
      BY <1>4, <1>12
    <3> QED BY SMTT(40), <1>1, <1>4, <1>12, <3>1, <3>2, <3>3, JobBegins
  <2> QED BY <2>1, <2>2
<1> QED BY SMTT(40), <1>3, <1>5, <1>9, <1>10, <1>11, <1>12


LEMMA SwitchedKeeps ==
    ASSUME MovesInv, Moves!Switched
    PROVE  MovesInv'
<1>1. PICK i \in DOMAIN calls :
        /\ calls[i].op \in {"pause", "resume"} /\ UNCHANGED <<page, acts>>
        /\ Moves!Claim(calls[i].x.job, IF calls[i].op = "pause" THEN "paused" ELSE "progress", world, Moves!RemoveAt(calls, i))
  BY Zenon DEF Moves!Switched
<1> DEFINE rest == Moves!RemoveAt(calls, i)
<1>2. calls[i].op # "event"
  BY <1>1
<1>3. /\ Fewer(rest, calls) /\ AllEvents \subseteq ToSet(rest)
      /\ \A c \in ToSet(calls) : c \in ToSet(rest) \/ c = calls[i]
  BY <1>2, AskGone
<1>4. calls[i].x.job \in DOMAIN world.jobs
  BY DEF MovesInv, CallsTrue, CallTrue, ToSet
<1>5. PICK status \in JobStatuses : status = IF calls[i].op = "pause" THEN "paused" ELSE "progress"
  BY DEF JobStatuses
<1>6. Moves!Claim(calls[i].x.job, status, world, rest)
  BY <1>1, <1>5
<1> HIDE DEF rest
<1> QED BY <1>1, <1>3, <1>4, <1>6, ClaimKeeps

LEMMA ProgressIs ==
    ASSUME Moves!Progress
    PROVE  \E i \in DOMAIN calls :
        /\ Moves!Back(i, "event") /\ Moves!GoOn(i, << >>) /\ UNCHANGED <<world, acts>>
        /\ Moves!Known(page, calls[i].x) => page' = page
        /\ ~Moves!Known(page, calls[i].x) =>
             /\ calls[i].x.status \in Moves!Over => page' = Moves!Ended([page EXCEPT !.last = Moves!Put(@, calls[i].x.job, calls[i].x.seq)],
                                        calls[i].x.job, calls[i].x.status)
             /\ calls[i].x.status \notin Moves!Over =>
                  page' = [[page EXCEPT !.last = Moves!Put(@, calls[i].x.job, calls[i].x.seq)] EXCEPT
                             !.transfers = Moves!Put(@, calls[i].x.job, [seq |-> calls[i].x.seq, paused |-> calls[i].got])]
BY ZenonT(60) DEF Moves!Progress

LEMMA ProgressKeeps ==
    ASSUME MovesInv, MaxJobs <= Fence, Moves!Progress
    PROVE  MovesInv'
<1>1. PICK i \in DOMAIN calls :
        /\ Moves!Back(i, "event") /\ Moves!GoOn(i, << >>) /\ UNCHANGED <<world, acts>>
        /\ Moves!Known(page, calls[i].x) => page' = page
        /\ ~Moves!Known(page, calls[i].x) =>
             /\ calls[i].x.status \in Moves!Over => page' = Moves!Ended([page EXCEPT !.last = Moves!Put(@, calls[i].x.job, calls[i].x.seq)],
                                        calls[i].x.job, calls[i].x.status)
             /\ calls[i].x.status \notin Moves!Over =>
                  page' = [[page EXCEPT !.last = Moves!Put(@, calls[i].x.job, calls[i].x.seq)] EXCEPT
                             !.transfers = Moves!Put(@, calls[i].x.job, [seq |-> calls[i].x.seq, paused |-> calls[i].got])]
  BY ProgressIs, Zenon
<1>2. calls[i].op = "event" /\ calls[i].st # "sent" /\ calls' = Moves!RemoveAt(calls, i) \o << >> /\ UNCHANGED world
  BY <1>1, Zenon DEF Moves!Back, Moves!GoOn
<1>3. CASE Moves!Known(page, calls[i].x)
  <2>1. page' = page
    BY SMTT(40), <1>1, <1>3
  <2> QED BY SMTT(40), <1>2, <1>3, <2>1, KnownKeeps
<1>4. CASE ~Moves!Known(page, calls[i].x) /\ IsEnd(calls[i])
  <2>1. page' = Moves!Ended([page EXCEPT !.last = Moves!Put(@, calls[i].x.job, calls[i].x.seq)],
                                        calls[i].x.job, calls[i].x.status)
    BY SMTT(40), <1>1, <1>4 DEF IsEnd
  <2> QED BY SMTT(40), <1>2, <1>4, <2>1, LastEventKeeps
<1>5. CASE ~Moves!Known(page, calls[i].x) /\ ~IsEnd(calls[i])
  <2>1. page' = [[page EXCEPT !.last = Moves!Put(@, calls[i].x.job, calls[i].x.seq)] EXCEPT
                   !.transfers = Moves!Put(@, calls[i].x.job, [seq |-> calls[i].x.seq, paused |-> calls[i].got])]
    BY SMTT(40), <1>1, <1>5 DEF IsEnd
  <2>2. page \in MovePages
    BY DEF MovesInv, MovesTyped
  <2>3. page' = [page EXCEPT !.last = Moves!Put(@, calls[i].x.job, calls[i].x.seq),
                             !.transfers = Moves!Put(@, calls[i].x.job, [seq |-> calls[i].x.seq, paused |-> calls[i].got])]
    BY SMTT(40), <2>1, <2>2 DEF MovePages
  <2> QED BY Zenon, <1>2, <1>5, <2>3, NewsKeeps
<1> QED BY <1>3, <1>4, <1>5

\* The user asks for something of a transfer that was started.
LEMMA UserAsks ==
    ASSUME MovesInv, UNCHANGED <<page, world>>, NEW j \in DOMAIN world.jobs,
           NEW op \in {"pause", "resume", "cancel", "retry"}, calls' = calls \o <<Moves!Call(op, [job |-> j])>>
    PROVE  MovesInv'
<1> DEFINE e == Moves!Call(op, [job |-> j])
<1>1. /\ page.n = 1 /\ page.at = None /\ j \in Nat /\ calls \in Seq(MoveCalls) /\ EventsDiffer(calls)
      /\ \A c \in ToSet(calls) : c.x.job \in DOMAIN world.jobs
  BY SMTT(40), MovesFields DEF MovesInv, CallsTrue, CallTrue
<1>2. e = [of |-> 1, at |-> None, op |-> op, x |-> [job |-> j], st |-> "sent", got |-> None]
  BY <1>1 DEF Moves!Call
<1>3. e \in AskedCalls /\ e.op # "event" /\ e.x.job = j
  BY ONLY SMTT(40), <1>1, <1>2, op \in {"pause", "resume", "cancel", "retry"} DEF AskedCalls
<1>4. e \in MoveCalls
  BY <1>3 DEF MoveCalls
<1> HIDE DEF e
<1>5. calls' = calls \o <<e>>
  BY DEF e
<1>6. calls' \in Seq(MoveCalls) /\ EventsDiffer(calls') /\ ToSet(calls') = ToSet(calls) \union {e}
  BY SMTT(40), <1>1, <1>3, <1>4, <1>5, MoveJoins
<1>7. AllEvents' = AllEvents
  BY SMTT(40), <1>3, <1>6 DEF AllEvents
<1>8. \A c \in ToSet(calls') : c.x.job \in DOMAIN world.jobs
  BY Zenon, <1>1, <1>3, <1>6
<1> QED BY SMTT(40), <1>6, <1>7, <1>8, AsksChange

LEMMA ButtonKeeps ==
    ASSUME MovesInv, NEW j \in 1..MaxJobs, Moves!TogglePause(j) \/ Moves!Cancel(j) \/ Moves!Retry(j)
    PROVE  MovesInv'
<1>1. UNCHANGED <<page, world>>
  BY DEF Moves!TogglePause, Moves!Cancel, Moves!Retry
<1>2. j \in DOMAIN world.jobs
  <2>1. CASE j \in DOMAIN page.transfers
    BY SMTT(40), <2>1 DEF MovesInv, PageTrue
  <2>2. CASE \E i \in DOMAIN page.history : page.history[i].job = j
    BY SMTT(40), <2>2 DEF MovesInv, PageTrue, HistoryTrue
  <2> QED BY SMTT(40), <2>1, <2>2 DEF Moves!TogglePause, Moves!Cancel, Moves!Retry
<1>3. PICK op \in {"pause", "resume", "cancel", "retry"} : calls' = calls \o <<Moves!Call(op, [job |-> j])>>
  <2>1. CASE Moves!TogglePause(j)
    <3>1. calls' = calls \o <<Moves!Call(IF page.transfers[j].paused THEN "resume" ELSE "pause", [job |-> j])>>
      BY <2>1, Zenon DEF Moves!TogglePause, Moves!Send
    <3> QED BY <3>1
  <2>2. CASE Moves!Cancel(j)
    <3>1. calls' = calls \o <<Moves!Call("cancel", [job |-> j])>>
      BY <2>2, Zenon DEF Moves!Cancel, Moves!Send
    <3> QED BY <3>1
  <2>3. CASE Moves!Retry(j)
    <3>1. calls' = calls \o <<Moves!Call("retry", [job |-> j])>>
      BY <2>3, Zenon DEF Moves!Retry, Moves!Send
    <3> QED BY <3>1
  <2> QED BY Zenon, <2>1, <2>2, <2>3
<1> QED BY Zenon, <1>1, <1>2, <1>3, UserAsks

LEMMA ClearKeeps ==
    ASSUME MovesInv, Moves!ClearHistory
    PROVE  MovesInv'
<1>1. /\ MovesTyped /\ CallsTrue /\ PageTrue /\ HistoryTrue /\ Told /\ UNCHANGED calls
      /\ page \in MovePages /\ world \in MoveWorlds
      /\ page' = [page EXCEPT !.history = << >>] /\ world' = [world EXCEPT !.cleared = Moves!ToSet(page.ended)]
  BY DEF MovesInv, MovesTyped, Moves!ClearHistory
<1>2. Moves!ToSet(page.ended) = EndedJobs
  BY Zenon DEF Moves!ToSet, ToSet, EndedJobs
<1>3. EndedJobs \in SUBSET Nat
  BY SMTT(40), <1>1, MovesFields, LenProperties DEF EndedJobs, ToSet
<1>4. /\ page' \in MovePages /\ page'.history = << >>
      /\ page'.transfers = page.transfers /\ page'.last = page.last /\ page'.ended = page.ended
  <2>1. PICK none : none = << >>
    OBVIOUS
  <2>2. page \in MovePages /\ none \in Seq(Entries) /\ page' = [page EXCEPT !.history = none]
    BY <1>1, <2>1
  <2>3. page' \in MovePages /\ page'.history = none /\ page'.transfers = page.transfers /\ page'.last = page.last /\ page'.ended = page.ended
    BY ONLY Zenon, <2>2 DEF MovePages
  <2> QED BY <2>1, <2>3
<1>5. world' \in MoveWorlds /\ world'.jobs = world.jobs /\ world'.cleared = EndedJobs
  <2>1. world' = [world EXCEPT !.cleared = EndedJobs] /\ world \in MoveWorlds
    BY <1>1, <1>2
  <2> QED BY ONLY <1>3, <2>1 DEF MoveWorlds
<1>6. MovesTyped'
  BY <1>1, <1>4, <1>5 DEF MovesTyped
<1>7. EndedJobs' = EndedJobs /\ \A j : IsOver(j)' <=> IsOver(j)
  BY SMTT(40), <1>4, <1>5 DEF EndedJobs, IsOver
<1>8. CallsTrue'
  BY SMTT(40), <1>1, <1>4, <1>5, <1>7 DEF CallsTrue, CallTrue, EventTrue, IsEnd
<1>9. PageTrue'
  BY <1>1, <1>4, <1>5, <1>7 DEF PageTrue, LastTrue
<1>10. HistoryTrue'
  <2>1. Len(page'.history) = 0 /\ DOMAIN page'.history = {}
    BY SMTT(40), <1>4
  <2> QED BY SMTT(40), <1>5, <1>7, <2>1, AmountsAssumption DEF HistoryTrue
<1>11. Told'
  BY SMTT(40), <1>1, <1>4, <1>5, <1>7 DEF Told, ToldOf, PauseTold, EventsOf, IsEnd
<1> QED BY SMTT(40), <1>6, <1>8, <1>9, <1>10, <1>11 DEF MovesInv

-----------------------------------------------------------------------------
(* Transfers of files: the theorem *)

LEMMA MovesStart ==
    ASSUME Moves!Init
    PROVE  MovesInv
<1>1. /\ page = [n |-> 1, at |-> None, transfers |-> << >>, last |-> << >>, ended |-> << >>, history |-> << >>]
      /\ calls = << >> /\ world = [jobs |-> << >>, cleared |-> {}]
  BY DEF Moves!Init
<1>2. ToSet(calls) = {} /\ EndedJobs = {}
  BY <1>1 DEF ToSet, EndedJobs
<1>3. << >> \in Maps(Nat) /\ << >> \in Maps(Shows)
  <2>1. << >> \in [{} -> Nat] /\ << >> \in [{} -> Shows]
    OBVIOUS
  <2> QED BY Zenon, <2>1 DEF Maps
<1>4. page \in MovePages
  BY <1>1, <1>3 DEF MovePages
<1>5. MovesTyped
  BY SMTT(40), <1>1, <1>4, AmountsAssumption DEF MovesTyped, MoveWorlds
<1>6. /\ DOMAIN page.last = {} /\ DOMAIN page.transfers = {} /\ DOMAIN page.ended = {} /\ DOMAIN page.history = {}
      /\ Len(page.history) = 0 /\ DOMAIN world.jobs = {} /\ DOMAIN calls = {}
  BY <1>1
<1> QED BY SMTT(40), <1>2, <1>5, <1>6, AmountsAssumption
    DEF MovesInv, CallsTrue, EventsDiffer, PageTrue, OneByOne, HistoryTrue, Told

LEMMA MovesStep ==
    ASSUME MovesInv, MaxJobs <= Fence, Moves!Next
    PROVE  MovesInv'
<1>1. CASE Moves!Start \/ \E j \in 1..MaxJobs : Moves!Copied(j) \/ Moves!Finishes(j) \/ Moves!Ends(j)
  BY <1>1, RunKeeps
<1>2. CASE Moves!Serve \/ Moves!Switched
  BY SMTT(40), <1>2, ServeKeeps, SwitchedKeeps
<1>3. CASE Moves!Progress
  BY SMTT(40), <1>3, ProgressKeeps
<1>4. CASE Moves!ClearHistory
  BY SMTT(40), <1>4, ClearKeeps
<1>5. CASE \E j \in 1..MaxJobs : Moves!TogglePause(j) \/ Moves!Cancel(j) \/ Moves!Retry(j)
  BY <1>5, ButtonKeeps
<1> QED BY SMTT(40), <1>1, <1>2, <1>3, <1>4, <1>5 DEF Moves!Next

LEMMA MovesTellTruth ==
    ASSUME MovesInv
    PROVE  Moves!EndedOnce /\ Moves!ShownAsItIs
<1>1. MovesTyped /\ CallsTrue /\ PageTrue /\ HistoryTrue /\ Told
  BY DEF MovesInv
<1>2. Moves!ToSet(page.ended) = EndedJobs
  BY Zenon DEF Moves!ToSet, ToSet, EndedJobs
<1>3. Moves!EndedOnce
  BY SMTT(40), <1>1, <1>2 DEF PageTrue, HistoryTrue, Moves!EndedOnce
<1>4. ASSUME calls = << >>
      PROVE  /\ DOMAIN page.transfers = {j \in DOMAIN world.jobs : ~IsOver(j)}
             /\ \A j \in DOMAIN page.transfers : world.jobs[j].paused => page.transfers[j].paused
             /\ \A i \in DOMAIN page.history : page.history[i].st = world.jobs[page.history[i].job].st
  <2>1. \A j : EventsOf(j) = {} /\ ToSet(calls) = {}
    BY SMTT(40), <1>4 DEF EventsOf, ToSet
  <2>2. \A j \in DOMAIN world.jobs : /\ IsOver(j) => j \in EndedJobs
                                     /\ ~IsOver(j) => j \in DOMAIN page.last
                                     /\ ~IsOver(j) /\ world.jobs[j].paused => page.transfers[j].paused
    BY <1>1, <2>1 DEF Told, ToldOf, PauseTold
  <2>3. \A j \in DOMAIN page.transfers : j \in DOMAIN world.jobs /\ j \notin EndedJobs
    BY <1>1 DEF PageTrue
  <2>4. \A j \in DOMAIN page.last : ~IsOver(j) => j \in DOMAIN page.transfers
    BY SMTT(40), <1>1 DEF PageTrue, LastTrue
  <2> QED BY SMTT(40), <1>1, <2>2, <2>3, <2>4 DEF HistoryTrue
<1>5. Moves!ShownAsItIs
  BY <1>4 DEF Moves!ShownAsItIs, Moves!Quiet, Moves!Live, Moves!Started, IsOver
<1> QED BY <1>3, <1>5

TransfersInv == shown = "transfers" => MovesInv

\* A transfer that has ended is not shown as under way again, whatever order
\* its events come in, and stands in the history once, until that is cleared or
\* is full; and when all events have come the page shows what is under way, and
\* what is paused.  The page remembers Fence ended transfers (512): it is so as
\* long as no more are started.
THEOREM TransfersAreTold == ASSUME MaxJobs <= Fence PROVE WorkSpec => []TransfersTellTruth
<1>1. WorkInit => TransfersInv
  BY MovesStart DEF WorkInit, TransfersInv
<1>2. TransfersInv /\ [WorkNext]_<<page, calls, world, acts, shown>> => TransfersInv'
  <2> SUFFICES ASSUME TransfersInv, [WorkNext]_<<page, calls, world, acts, shown>>, shown' = "transfers"
               PROVE  MovesInv'
    BY DEF TransfersInv
  <2>1. CASE WorkNext
    <3>1. shown = "transfers"
      BY <2>1, SameShown
    <3>2. Moves!Next
      BY SMTT(40), <2>1, <3>1 DEF WorkNext
    <3> QED BY SMTT(40), <3>1, <3>2, MovesStep DEF TransfersInv
  <2>2. CASE UNCHANGED <<page, calls, world, acts, shown>>
    BY <2>2, MovesStay DEF TransfersInv
  <2> QED BY SMTT(40), <2>1, <2>2
<1>3. TransfersInv => TransfersTellTruth
  BY MovesTellTruth DEF TransfersInv, TransfersTellTruth
<1> QED BY <1>1, <1>2, <1>3, PTL DEF WorkSpec
=============================================================================
