---------------------------- MODULE TabSessions ----------------------------
(***************************************************************************)
(* The page's session tabs (frontend/src/hooks/useSessions.ts): opening,   *)
(* reconnecting, closing and reopening tabs, the automatic reconnect, the  *)
(* hand-over of a session the command line replaced, and the loading of    *)
(* the page.  A page step is one task of the event loop; an await ends it. *)
(* Every id names one transport, so ids also order the generations of a    *)
(* profile.  A profile stands for one terminal instance of it.             *)
(***************************************************************************)
EXTENDS Naturals, Sequences, FiniteSets, FiniteSetsExt

CONSTANTS
    Saved,              \* saved profiles
    Reconnecting,       \* those that reconnect automatically
    Quick,              \* profiles of one-off quick connections
    Local,              \* stands for the profile of a local terminal
    MaxSessions,        \* bound on the sessions the backend ever opens
    MaxCalls,           \* bound on the page's concurrent calls
    MaxMoves,           \* bound on what the user does
    MaxTurns,           \* bound on drops and interventions of the command line
    MaxClosed,          \* closed tabs remembered: 20 in the code
    AutoReconnectMax    \* automatic attempts after a drop: 3 in the code

ASSUME ProfilesAssumption == Reconnecting \subseteq Saved /\ Local \notin Saved \union Quick
ASSUME BoundsAssumption ==
    /\ {MaxSessions, MaxCalls, MaxMoves, MaxTurns, MaxClosed, AutoReconnectMax} \subseteq Nat
    /\ MaxSessions # 0

Profiles == Saved \union Quick \union {Local}
Ids   == 1..MaxSessions
Slots == 1..MaxCalls
User  == MaxCalls + 1       \* setActiveTab made the last focus request

VARIABLES
    \* the backend
    profile,      \* the profile of each session, Local for those to come
    bstate,       \* "new", "opening", "live", "ended" or "failed"
    queue,        \* the events of each session on their way to the page
    stale,        \* sessions the command line found broken and will replace
    \* the page
    tabs, active, \* the tab strip and the active tab, 0 for none
    holder,       \* who made the last focus request (focusRevision), 0 for nobody
    seen,         \* runtimeGenerations
    creating,     \* creatingProfiles, with the call that entered each
    closedTabs,
    auto,         \* autoReconnect
    userClosing, recovering,
    load,         \* how far the page has loaded
    listed,       \* what ListSessions answered
    workspace,    \* the profiles of the last run that are still to be opened
    calls,        \* what the page awaits
    moves, turns  \* how much of the two bounds is used up

backend == <<profile, bstate, queue, stale>>
focus   == <<active, holder>>
recon   == <<auto, userClosing, recovering>>
loading == <<load, listed, workspace>>
bounds  == <<moves, turns>>
vars    == <<backend, tabs, focus, seen, creating, closedTabs, recon, loading, calls, bounds>>

-----------------------------------------------------------------------------
(* Tabs, focus and calls *)

TabIds == {tabs[i].id : i \in DOMAIN tabs}
Tab(id, st) == [id |-> id, p |-> profile[id], st |-> st]
NoCall == [kind |-> "none"]
Idle   == [att |-> 0, st |-> "none", call |-> 0]

\* isSessionBusy
Busy(p) == \E i \in DOMAIN tabs :
              tabs[i].p = p /\ tabs[i].st \in {"connecting", "connected", "reconnecting"}

\* setTabs(items.map(...)) that changes the state of some tabs.
Marked(items, ids, st) ==
    [i \in DOMAIN items |-> IF items[i].id \in ids THEN [items[i] EXCEPT !.st = st] ELSE items[i]]

\* SelectSeq: the items at the positions kept, in their order.
Kept(items, kept) ==
    [k \in 1..Cardinality(kept) |-> items[CHOOSE i \in kept : Cardinality({j \in kept : j <= i}) = k]]

\* Mutants: the tab that already shows the new session stays, and the tab taken
\* over keeps the state it had.
ReplacedTwice(items, old, new) ==
    [i \in DOMAIN items |-> IF items[i].id = old THEN Tab(new, "connected") ELSE items[i]]

ReplacedStale(items, old, new) ==
    LET rest == Kept(items, {i \in DOMAIN items : items[i].id # new \/ items[i].id = old})
    IN  [i \in DOMAIN rest |-> IF rest[i].id = old THEN Tab(new, rest[i].st) ELSE rest[i]]
\* replaceSessionTabs: the tab of old takes over new, whoever showed new goes.
Replaced(items, old, new) ==
    LET rest == Kept(items, {i \in DOMAIN items : items[i].id # new \/ items[i].id = old})
    IN  [i \in DOMAIN rest |-> IF rest[i].id = old THEN Tab(new, "connected") ELSE rest[i]]

\* An event, or an answer, of the newest generation yet is remembered.
Accepts(s) == profile[s] = Local \/ s >= seen[profile[s]]
Remember(s) ==
    seen' = IF profile[s] # Local /\ s > seen[profile[s]] THEN [seen EXCEPT ![profile[s]] = s] ELSE seen

\* setActiveTab outdates every focus request under way.
Activate(id) == active' = id /\ holder' = User
\* Mutant: the last answer takes the focus.
TakeFocus(n, id) == active' = id /\ UNCHANGED holder
\* finishFocusRequest
FinishFocus(n, id) == active' = (IF holder = n THEN id ELSE active) /\ UNCHANGED holder
\* setActiveTabState(current => current || id)
FocusIfNone(id) == active' = (IF active = 0 THEN id ELSE active) /\ UNCHANGED holder
\* setActiveTabState(current => current === old ? id : current)
FollowTab(old, id) == active' = (IF active = old THEN id ELSE active) /\ UNCHANGED holder

\* The page calls the backend, for a profile and, but for an opening, for a tab.
Free(n) == calls[n] = NoCall /\ \A m \in 1..(n - 1) : calls[m] # NoCall
Begin(n, kind, p, tab, pre, st) ==
    /\ Free(n)
    /\ calls' = [calls EXCEPT ![n] = [kind |-> kind, p |-> p, tab |-> tab, pre |-> pre, st |-> st,
                                      got |-> 0, byClose |-> FALSE]]
Ended(n, kind, st) == calls[n].kind = kind /\ calls[n].st \in st
Finish(n) == calls' = [calls EXCEPT ![n] = NoCall]
\* What becomes of a connect: it was refused, or its session's handshake ended.
Succeeded(n, kind) == Ended(n, kind, {"wait"}) /\ bstate[calls[n].got] \in {"live", "ended"}
FailedCall(n, kind) == \/ Ended(n, kind, {"refused"})
                       \/ Ended(n, kind, {"wait"}) /\ bstate[calls[n].got] = "failed"

Disconnected(s) ==
    /\ bstate' = [bstate EXCEPT ![s] = IF @ = "live" THEN "ended" ELSE "failed"]
    /\ queue' = [queue EXCEPT ![s] = Append(@, [type |-> "disconnected", old |-> 0])]

\* Disconnect of whatever session the page names.
Disconnect(s) == IF bstate[s] \in {"opening", "live"} THEN Disconnected(s) ELSE UNCHANGED <<bstate, queue>>

-----------------------------------------------------------------------------
(* Automatic reconnect *)

\* scheduleAutoReconnect for the given tabs: a drop the user asked for is
\* consumed, one that is being handled or was given up is left alone, and the
\* rest get a timer or, after the last attempt, an error.
Schedule(ids, items, table, closing) ==
    \E online \in BOOLEAN :
    LET want == {id \in ids \ closing : 
                   /\ online /\ table[id].st \notin {"timer", "flight", "gaveup"}
                   /\ \E i \in DOMAIN items : items[i].id = id /\ items[i].p \in Reconnecting}
        over == {id \in want : table[id].att >= AutoReconnectMax}
    IN  /\ userClosing' = closing \ ids
        /\ auto' = [id \in Ids |-> IF id \in over THEN [table[id] EXCEPT !.st = "gaveup"]
                                   ELSE IF id \in want THEN [table[id] EXCEPT !.st = "timer"] ELSE table[id]]
        /\ tabs' = Marked(Marked(items, want \ over, "reconnecting"), over, "error")

\* clearAutoReconnect
Cleared(id) == [auto EXCEPT ![id] = Idle]

timerFrame == <<backend, focus, seen, creating, closedTabs, userClosing, recovering, loading>>

\* The timer of a tab fires: the tab may be gone, connected, or its profile no
\* longer reconnect, and the network may be away, which uses up no attempt.
TimerFires(id) ==
    /\ auto[id].st = "timer"
    /\ \/ /\ auto' = Cleared(id)
          /\ tabs' = IF \E i \in DOMAIN tabs : tabs[i] = Tab(id, "reconnecting")
                     THEN Marked(tabs, {id}, "disconnected") ELSE tabs
          /\ UNCHANGED calls
       \/ /\ auto' = [auto EXCEPT ![id].st = "idle"]
          /\ \E i \in DOMAIN tabs : tabs[i].id = id /\ tabs[i].st # "connected"
          /\ tabs' = Marked(tabs, {id}, "disconnected")
          /\ UNCHANGED calls
       \/ /\ \E i \in DOMAIN tabs : tabs[i].id = id /\ tabs[i].st # "connected"
          /\ \E n \in Slots :
                /\ Begin(n, "auto", profile[id], id, TRUE, "connect")
                /\ auto' = [auto EXCEPT ![id] = [att |-> @.att + 1, st |-> "flight", call |-> n]]
          /\ UNCHANGED tabs
    /\ UNCHANGED timerFrame

\* The browser is online again or the window is visible.
Retry ==
    /\ LET ids == {tabs[i].id : i \in {j \in DOMAIN tabs :
                     /\ tabs[j].p # Local /\ tabs[j].st \in {"error", "disconnected"}
                     /\ auto[tabs[j].id].st \notin {"flight", "gaveup"}}}
       IN  ids # {} /\ Schedule(ids, tabs, auto, userClosing)
    /\ UNCHANGED <<backend, focus, seen, creating, closedTabs, recovering, loading, calls>>

-----------------------------------------------------------------------------
(* Events.  Each handler first refuses an event of an older generation. *)

eventFrame == <<profile, stale, creating, closedTabs, loading, calls>>

\* The next event of session s is taken off its queue.  A replacement is sent by
\* the goroutine that ended the old session before.
Next1(s, type) ==
    /\ queue[s] # <<>> /\ Head(queue[s]).type = type /\ Accepts(s)
    /\ Head(queue[s]).old # 0 => queue[Head(queue[s]).old] = <<>>
    /\ Remember(s)
Taken(s) == queue' = [queue EXCEPT ![s] = Tail(@)] /\ UNCHANGED bstate

DropEvent(s) ==
    /\ queue[s] # <<>> /\ ~Accepts(s)
    /\ Taken(s)
    /\ UNCHANGED <<eventFrame, tabs, focus, seen, recon>>

\* terminal:connecting adds a tab only for a connect the page itself began.
OnConnecting(s) ==
    /\ Next1(s, "connecting") /\ Taken(s)
    /\ LET n == creating[profile[s]]
       IN  IF n = 0 THEN UNCHANGED <<tabs, focus>>
           ELSE /\ tabs' = IF s \in TabIds THEN tabs ELSE Append(tabs, Tab(s, "connecting"))
                /\ IF calls[n].pre THEN FocusIfNone(s) ELSE FinishFocus(n, s)
    /\ UNCHANGED <<eventFrame, recon>>

OnConnected(s) ==
    /\ Next1(s, "connected") /\ Taken(s)
    /\ tabs' = Marked(tabs, {s}, "connected")
    /\ UNCHANGED <<eventFrame, focus, recon>>

\* terminal:disconnected and terminal:error
OnDropped(s, type) ==
    /\ Next1(s, type) /\ Taken(s)
    /\ Schedule({s}, Marked(tabs, {s}, type), auto, userClosing)
    /\ UNCHANGED <<eventFrame, focus, recovering>>

OnCliSession(s) ==
    /\ Next1(s, "cli") /\ Taken(s)
    /\ tabs' = IF s \in TabIds THEN Marked(tabs, {s}, "connected") ELSE Append(tabs, Tab(s, "connected"))
    /\ FocusIfNone(s)
    /\ UNCHANGED <<eventFrame, recon>>

\* The backend owns this reconnect: the drop that follows is not acted upon.
OnCliSessionRecovering(s) ==
    /\ Next1(s, "recovering") /\ Taken(s)
    /\ auto' = Cleared(s)
    /\ userClosing' = userClosing \union {s}
    /\ recovering' = recovering \union ({s} \intersect TabIds)
    /\ tabs' = Marked(tabs, {s}, "reconnecting")
    /\ UNCHANGED <<eventFrame, focus>>

\* The tab was seen recovering and is gone: the user closed it.
ClosedMeanwhile(old, s) == old \in recovering /\ {old, s} \intersect TabIds = {}

OnCliSessionReplaced(s) ==
    /\ Next1(s, "replaced")
    /\ LET old == Head(queue[s]).old
       IN  /\ auto' = Cleared(old)
           /\ userClosing' = userClosing \ {old}
           /\ recovering' = recovering \ {old}
           /\ IF ClosedMeanwhile(old, s)
              THEN /\ bstate' = [bstate EXCEPT ![s] = IF @ = "live" THEN "ended" ELSE @]
                   /\ queue' = [queue EXCEPT ![s] = Tail(@) \o IF bstate[s] = "live" 
                                  THEN <<[type |-> "disconnected", old |-> 0]>> ELSE <<>>]
                   /\ UNCHANGED <<tabs, focus>>
              ELSE /\ Taken(s)
                   /\ tabs' = IF old \in TabIds THEN Replaced(tabs, old, s)
                              ELSE Append(Replaced(tabs, old, s), Tab(s, "connected"))
                   /\ FollowTab(old, s)
    /\ UNCHANGED eventFrame

Event(s) ==
    \/ DropEvent(s) \/ OnConnecting(s) \/ OnConnected(s)
    \/ OnDropped(s, "disconnected") \/ OnDropped(s, "error")
    \/ OnCliSession(s) \/ OnCliSessionRecovering(s) \/ OnCliSessionReplaced(s)

-----------------------------------------------------------------------------
(* What the user does *)

Ask == /\ moves < MaxMoves /\ moves' = moves + 1
       /\ UNCHANGED <<profile, bstate, queue, stale, seen, recovering, loading, turns>>

\* openSession: the profile is being created, and the focus is asked for.
OpenSession(n, p, tab, pre) ==
    /\ Begin(n, "open", p, tab, pre, "connect")
    /\ creating' = [creating EXCEPT ![p] = n]
    /\ holder' = IF pre THEN holder ELSE n

\* connectProfile opens a session unless one is there or on its way.
MayConnect(p) == creating[p] = 0 /\ ~Busy(p)

ConnectProfile(n, p) ==
    /\ creating[p] = 0
    /\ IF MayConnect(p) 
       THEN OpenSession(n, p, 0, FALSE) /\ UNCHANGED active
       ELSE /\ \E i \in DOMAIN tabs : tabs[i].p = p /\ Busy(p) /\ Activate(tabs[i].id)
            /\ UNCHANGED <<creating, calls>>
    /\ UNCHANGED <<tabs, auto, userClosing, closedTabs>>

\* submitSecret in mode connect: the dialog was opened when the profile was
\* free, and is answered whatever has become of it.
SubmitSecret(n, p) ==
    /\ OpenSession(n, p, 0, FALSE)
    /\ UNCHANGED <<tabs, active, auto, userClosing, closedTabs>>

\* connectQuick takes over a dead tab of its profile.
ConnectQuick(n, p) ==
    LET dead == {i \in DOMAIN tabs : tabs[i].p = p /\ tabs[i].st \in {"error", "disconnected"}}
    IN  /\ holder' = n
        /\ IF dead = {} THEN OpenSession(n, p, 0, FALSE)
           ELSE /\ Begin(n, "reuse", p, tabs[CHOOSE i \in dead : \A j \in dead : i <= j].id, FALSE, "connect")
                /\ UNCHANGED creating
        /\ UNCHANGED <<tabs, active, auto, userClosing, closedTabs>>

ConnectLocal(n, tab) ==
    /\ Begin(n, "local", Local, tab, FALSE, "connect")
    /\ holder' = n
    /\ UNCHANGED <<tabs, active, creating, auto, userClosing, closedTabs>>

\* reopenClosedTab: the record goes once its session is there.
ReopenClosedTab(n) ==
    /\ closedTabs # <<>>
    /\ LET tab == Head(closedTabs)
       IN  CASE tab.p = Local -> ConnectLocal(n, tab.id)
             [] tab.p \in Quick -> /\ Begin(n, "open", tab.p, tab.id, FALSE, "connect")
                                   /\ holder' = n
                                   /\ UNCHANGED creating
             [] OTHER -> OpenSession(n, tab.p, tab.id, FALSE)
    /\ UNCHANGED <<tabs, active, auto, userClosing, closedTabs>>

ReconnectTab(n, i) ==
    LET id == tabs[i].id
    IN  /\ auto' = Cleared(id)
        /\ active' = id
        /\ IF tabs[i].p = Local
           THEN /\ Begin(n, "local", Local, 0, FALSE, "connect") /\ holder' = n
                /\ UNCHANGED <<tabs, userClosing>>
           ELSE /\ Begin(n, "manual", tabs[i].p, id, FALSE, "reconnect") /\ holder' = User
                /\ tabs' = Marked(tabs, {id}, "reconnecting")
                /\ userClosing' = userClosing \union {id}
        /\ UNCHANGED <<creating, closedTabs>>

CloseTab(n, i) ==
    /\ Begin(n, "close", tabs[i].p, tabs[i].id, FALSE, "ask")
    /\ UNCHANGED <<tabs, focus, creating, auto, userClosing, closedTabs>>

SelectTab(i) ==
    /\ active # tabs[i].id /\ Activate(tabs[i].id)
    /\ UNCHANGED <<tabs, creating, auto, userClosing, closedTabs, calls>>

\* reorderTabs, of tabs that are both pinned or both not.
ReorderTabs(i, j) ==
    /\ i # j
    /\ tabs' = [k \in DOMAIN tabs |-> tabs[IF k = j THEN i ELSE IF i <= k /\ k < j THEN k + 1
                                          ELSE IF j < k /\ k <= i THEN k - 1 ELSE k]]
    /\ UNCHANGED <<focus, creating, auto, userClosing, closedTabs, calls>>

UserAct ==
    /\ Ask
    /\ \/ \E n \in Slots : \/ \E p \in Saved : ConnectProfile(n, p) \/ SubmitSecret(n, p)
                           \/ \E p \in Quick : ConnectQuick(n, p)
                           \/ ConnectLocal(n, 0)
                           \/ ReopenClosedTab(n)
                           \/ \E i \in DOMAIN tabs : ReconnectTab(n, i) \/ CloseTab(n, i)
       \/ \E i \in DOMAIN tabs : SelectTab(i)
       \/ \E i, j \in DOMAIN tabs : ReorderTabs(i, j)

-----------------------------------------------------------------------------
(* Answers *)

Quiescing(n) == /\ Finish(n)
                /\ UNCHANGED <<profile, stale, recovering, loading, bounds>>

\* Mutant: the profile stays marked as being created.
LeftMarked(n) == UNCHANGED creating
Left(n) == creating' = [p \in Profiles |-> IF p = calls[n].p /\ calls[n].kind = "open" THEN 0 ELSE creating[p]]

\* The record of the tab that was reopened goes.
Reopened(id) == closedTabs' = Kept(closedTabs, {i \in DOMAIN closedTabs : closedTabs[i].id # id})

\* appendSession, and the finally of openSession.  A quick connection and a
\* reopened one leave creatingProfiles in the same way.
OpenAnswered(n) ==
    /\ Succeeded(n, "open")
    /\ LET s == calls[n].got
       IN  /\ tabs' = IF s \in TabIds THEN Marked(tabs, {s}, "connected") ELSE Append(tabs, Tab(s, "connected"))
           /\ Remember(s)
           /\ IF calls[n].pre THEN FocusIfNone(s) ELSE FinishFocus(n, s)
           /\ Reopened(calls[n].tab)
    /\ Left(n) /\ Quiescing(n)
    /\ UNCHANGED <<bstate, queue, auto, userClosing>>

LocalAnswered(n) ==
    /\ Succeeded(n, "local")
    /\ tabs' = Append(tabs, Tab(calls[n].got, "connected"))
    /\ FinishFocus(n, calls[n].got)
    /\ Reopened(calls[n].tab)
    /\ Quiescing(n)
    /\ UNCHANGED <<bstate, queue, seen, creating, auto, userClosing>>

ReuseAnswered(n) ==
    /\ Succeeded(n, "reuse")
    /\ tabs' = Replaced(tabs, calls[n].tab, calls[n].got)
    /\ Remember(calls[n].got)
    /\ FinishFocus(n, calls[n].got)
    /\ creating' = [creating EXCEPT ![calls[n].p] = 0]
    /\ Quiescing(n)
    /\ UNCHANGED <<bstate, queue, closedTabs, auto, userClosing>>

OpenFailed(n) ==
    /\ \E kind \in {"open", "local", "reuse"} : FailedCall(n, kind)
    /\ Left(n) /\ Quiescing(n)
    /\ UNCHANGED <<bstate, queue, tabs, focus, seen, closedTabs, auto, userClosing>>

\* discardUnclaimedSession: nobody shows the session and nobody is opening it.
DiscardUnclaimed(s, p) ==
    IF s \notin TabIds /\ creating[p] = 0 THEN Disconnect(s) ELSE UNCHANGED <<bstate, queue>>

\* replaceReconnectedTab
TakeOver(old, s, p) ==
    IF old \in TabIds
    THEN /\ tabs' = Replaced(tabs, old, s) /\ FollowTab(old, s) /\ Remember(s)
         /\ UNCHANGED <<bstate, queue>>
    ELSE DiscardUnclaimed(s, p) /\ UNCHANGED <<tabs, focus, seen>>

\* The session of the tab was not found: connect its profile.
ManualFallback(n) ==
    /\ Ended(n, "manual", {"missing"})
    /\ calls' = [calls EXCEPT ![n].st = "connect"]
    /\ userClosing' = userClosing \ {calls[n].tab}
    /\ UNCHANGED <<backend, tabs, focus, seen, creating, closedTabs, auto, recovering, loading, bounds>>

ManualAnswered(n) ==
    /\ Succeeded(n, "manual") \/ FailedCall(n, "manual")
    /\ LET old == calls[n].tab
       IN  /\ userClosing' = userClosing \ {old}
           /\ IF Succeeded(n, "manual") THEN TakeOver(old, calls[n].got, calls[n].p)
              ELSE tabs' = Marked(tabs, {old}, "error") /\ UNCHANGED <<bstate, queue, focus, seen>>
    /\ Quiescing(n)
    /\ UNCHANGED <<creating, closedTabs, auto>>

\* The attempt is still the tab's: no close and no manual reconnect came between.
Own(n) == auto[calls[n].tab].st = "flight" /\ auto[calls[n].tab].call = n

AutoAnswered(n) ==
    /\ Succeeded(n, "auto")
    /\ LET old == calls[n].tab
           s == calls[n].got
       IN  IF Own(n)
           THEN TakeOver(old, s, calls[n].p) /\ auto' = Cleared(old)
           ELSE /\ IF ~calls[n].byClose /\ old \in TabIds THEN UNCHANGED <<bstate, queue>>
                   ELSE DiscardUnclaimed(s, calls[n].p)
                /\ UNCHANGED <<tabs, focus, seen, auto>>
    /\ Quiescing(n)
    /\ UNCHANGED <<creating, closedTabs, userClosing>>

AutoFailed(n) ==
    /\ FailedCall(n, "auto")
    /\ LET old == calls[n].tab
           shown == Marked(tabs, {old}, "error")
       IN  IF ~Own(n) THEN UNCHANGED <<tabs, auto, userClosing>>
           ELSE IF old \notin TabIds THEN auto' = [auto EXCEPT ![old].call = 0] /\ UNCHANGED <<tabs, userClosing>>
           ELSE \/ /\ tabs' = shown     \* isPermanentConnectError
                   /\ auto' = [auto EXCEPT ![old] = [att |-> AutoReconnectMax, st |-> "gaveup", call |-> 0]]
                   /\ UNCHANGED userClosing
                \/ Schedule({old}, shown, [auto EXCEPT ![old].st = "idle", ![old].call = 0], userClosing)
    /\ Quiescing(n)
    /\ UNCHANGED <<bstate, queue, focus, seen, creating, closedTabs>>

-----------------------------------------------------------------------------
(* closeTab *)

closeFrame == <<profile, stale, seen, creating, recovering, loading, bounds>>

CloseRefused(n) ==
    /\ Ended(n, "close", {"ask"})
    /\ Finish(n)
    /\ UNCHANGED <<closeFrame, bstate, queue, tabs, focus, closedTabs, auto, userClosing>>

\* The drop that follows is the user's, and a reconnect under way may no longer
\* claim the tab.
CloseConfirmed(n) ==
    /\ Ended(n, "close", {"ask"})
    /\ LET id == calls[n].tab
       IN  /\ closedTabs' = SubSeq(<<[id |-> id, p |-> calls[n].p]>> \o closedTabs, 1,
                                   IF Len(closedTabs) < MaxClosed THEN Len(closedTabs) + 1 ELSE MaxClosed)
           /\ userClosing' = userClosing \union {id}
           /\ auto' = Cleared(id)
           /\ calls' = [m \in Slots |-> 
                          IF m = n THEN [calls[m] EXCEPT !.st = "close"]
                          ELSE IF auto[id].st = "flight" /\ auto[id].call = m THEN [calls[m] EXCEPT !.byClose = TRUE]
                          ELSE calls[m]]
    /\ UNCHANGED <<closeFrame, bstate, queue, tabs, focus>>

\* The tab is removed by the id it had, and a neighbour becomes active.
CloseFinished(n) ==
    /\ Ended(n, "close", {"closed"})
    /\ LET id == calls[n].tab
           at == IF id \in TabIds THEN CHOOSE i \in DOMAIN tabs : tabs[i].id = id ELSE 1
           left == Kept(tabs, {i \in DOMAIN tabs : tabs[i].id # id})
       IN  /\ tabs' = left
           /\ IF active # id THEN UNCHANGED focus
              ELSE Activate(IF left = <<>> THEN 0 ELSE left[IF at <= Len(left) THEN at ELSE Len(left)].id)
    /\ Finish(n)
    /\ UNCHANGED <<closeFrame, bstate, queue, closedTabs, auto, userClosing>>

Answer(n) ==
    \/ OpenAnswered(n) \/ LocalAnswered(n) \/ ReuseAnswered(n) \/ OpenFailed(n)
    \/ ManualFallback(n) \/ ManualAnswered(n) \/ AutoAnswered(n) \/ AutoFailed(n)
    \/ CloseRefused(n) \/ CloseConfirmed(n) \/ CloseFinished(n)

-----------------------------------------------------------------------------
(* Loading the page *)

loadFrame == <<backend, seen, creating, closedTabs, recon, calls, bounds>>

ListSessions ==
    /\ load = "mounted" /\ load' = "asked"
    /\ listed' = [s \in {t \in Ids : bstate[t] \in {"opening", "live"}} |->
                    IF bstate[s] = "live" THEN "connected" ELSE "connecting"]
    /\ UNCHANGED <<loadFrame, tabs, focus, workspace>>

\* The answer is merged with what the events have shown meanwhile.
Hydrate ==
    /\ load = "asked" /\ load' = "restoring" /\ UNCHANGED listed
    /\ LET new == Kept([s \in Ids |-> s], DOMAIN listed \ TabIds)
       IN  tabs' = [i \in DOMAIN tabs |-> IF tabs[i].id \in DOMAIN listed 
                                          THEN [tabs[i] EXCEPT !.st = listed[tabs[i].id]] ELSE tabs[i]]
                   \o [i \in DOMAIN new |-> Tab(new[i], listed[new[i]])]
    /\ IF DOMAIN listed = {} THEN UNCHANGED focus ELSE \E s \in DOMAIN listed : FocusIfNone(s)
    /\ seen' = [p \in Profiles |-> Max({seen[p]} \union {s \in DOMAIN listed : profile[s] = p /\ p # Local})]
    /\ UNCHANGED <<backend, creating, closedTabs, recon, calls, bounds, workspace>>

\* restoreProfilesInBatches: the profiles of the last run that are not there,
\* without taking the focus.
Restore(n, p) ==
    /\ load = "restoring" /\ p \in workspace
    /\ workspace' = workspace \ {p}
    /\ IF MayConnect(p) THEN OpenSession(n, p, 0, TRUE) ELSE n = 1 /\ UNCHANGED <<creating, calls, holder>>
    /\ UNCHANGED <<backend, tabs, active, seen, closedTabs, recon, load, listed, bounds>>

\* restoreActiveTab counts only if nobody has asked for the focus yet.
RestoreDone ==
    /\ load = "restoring" /\ workspace = {}
    /\ \A n \in Slots : calls[n] # NoCall => calls[n].kind # "open" \/ ~calls[n].pre
    /\ load' = "ready"
    /\ \/ UNCHANGED focus
       \/ \E i \in DOMAIN tabs : tabs[i].p \in Saved /\ tabs[i].st = "connected" /\ FinishFocus(0, tabs[i].id)
    /\ UNCHANGED <<loadFrame, tabs, listed, workspace>>

-----------------------------------------------------------------------------
(* The backend, as the page sees it *)

backendFrame == <<tabs, focus, seen, creating, closedTabs, recon, loading, moves>>

Current(p) == {s \in Ids : profile[s] = p /\ bstate[s] \in {"opening", "live"}}
Unused == {s \in Ids : bstate[s] = "new"}
Newest == CHOOSE s \in Unused : \A t \in Unused : s <= t
Sent(types) == [i \in DOMAIN types |-> [type |-> types[i], old |-> 0]]

Answering(n, st) == calls' = [calls EXCEPT ![n].st = st]

\* Disconnect for a close, and for the first half of a reconnect.
BDisconnect(n) ==
    /\ \/ Ended(n, "close", {"close"}) /\ Answering(n, "closed")
       \/ /\ Ended(n, "manual", {"reconnect"})
          /\ Answering(n, IF calls[n].p \in Quick \/ calls[n].tab \in Current(calls[n].p) THEN "connect" ELSE "missing")
    /\ Disconnect(calls[n].tab)
    /\ UNCHANGED <<backendFrame, profile, stale, turns>>

\* A connect is refused, joins the profile's session, or begins one.
BConnect(n) ==
    /\ calls[n] # NoCall /\ calls[n].st = "connect"
    /\ LET p == calls[n].p
       IN  \/ /\ Answering(n, "refused")
              /\ UNCHANGED <<profile, bstate, queue>>
           \/ /\ p # Local
              /\ \E s \in Current(p) : calls' = [calls EXCEPT ![n].st = "wait", ![n].got = s]
              /\ UNCHANGED <<profile, bstate, queue>>
           \/ /\ (p = Local \/ Current(p) = {}) /\ Unused # {}
              /\ calls' = [calls EXCEPT ![n].st = "wait", ![n].got = Newest]
              /\ profile' = [profile EXCEPT ![Newest] = p]
              /\ bstate' = [bstate EXCEPT ![Newest] = IF p = Local THEN "live" ELSE "opening"]
              /\ queue' = [queue EXCEPT ![Newest] = IF p = Local THEN <<>> ELSE Sent(<<"connecting">>)]
    /\ UNCHANGED <<backendFrame, stale, turns>>

BHandshake(s) ==
    /\ bstate[s] = "opening"
    /\ \E ok \in BOOLEAN :
         /\ bstate' = [bstate EXCEPT ![s] = IF ok THEN "live" ELSE "failed"]
         /\ queue' = [queue EXCEPT ![s] = @ \o Sent(IF ok THEN <<"connected">> ELSE <<"error">>)]
    /\ UNCHANGED <<backendFrame, profile, stale, calls, turns>>

World == turns < MaxTurns /\ turns' = turns + 1 /\ UNCHANGED <<backendFrame, calls>>

\* The keepalive, or the end of the shell.
BDrop(s) ==
    /\ World /\ bstate[s] = "live"
    /\ \E lost \in BOOLEAN :
         /\ bstate' = [bstate EXCEPT ![s] = "ended"]
         /\ queue' = [queue EXCEPT ![s] = @ \o Sent(IF lost /\ profile[s] # Local 
                                                      THEN <<"error", "disconnected">> ELSE <<"disconnected">>)]
    /\ UNCHANGED <<profile, stale>>

\* The command line opens a session of a saved profile, or uses the one there is.
BCli(p) ==
    /\ World
    /\ \/ \E s \in Current(p) : bstate[s] = "live" /\ queue' = [queue EXCEPT ![s] = @ \o Sent(<<"cli">>)]
                                /\ UNCHANGED <<profile, bstate>>
       \/ /\ Current(p) = {} /\ Unused # {}
          /\ profile' = [profile EXCEPT ![Newest] = p]
          /\ bstate' = [bstate EXCEPT ![Newest] = "live"]
          /\ queue' = [queue EXCEPT ![Newest] = Sent(<<"connecting", "connected", "cli">>)]
    /\ UNCHANGED stale

\* It finds the session broken, drops it, and then replaces it or fails to.
BCliRecover(s) ==
    /\ World /\ bstate[s] = "live" /\ profile[s] \in Saved
    /\ bstate' = [bstate EXCEPT ![s] = "ended"]
    /\ queue' = [queue EXCEPT ![s] = @ \o Sent(<<"recovering", "disconnected">>)]
    /\ stale' = stale \union {s}
    /\ UNCHANGED profile

BCliReplace(old) ==
    /\ old \in stale /\ stale' = stale \ {old}
    /\ \/ UNCHANGED <<profile, bstate, queue>>
       \/ \E s \in Current(profile[old]) : 
            /\ bstate[s] = "live"
            /\ queue' = [queue EXCEPT ![s] = Append(@, [type |-> "replaced", old |-> old])]
            /\ UNCHANGED <<profile, bstate>>
       \/ /\ Current(profile[old]) = {} /\ Unused # {}
          /\ profile' = [profile EXCEPT ![Newest] = profile[old]]
          /\ bstate' = [bstate EXCEPT ![Newest] = "live"]
          /\ queue' = [queue EXCEPT ![Newest] = Append(Sent(<<"connecting", "connected">>),
                                                       [type |-> "replaced", old |-> old])]
    /\ UNCHANGED <<backendFrame, calls, turns>>

-----------------------------------------------------------------------------
\* The page has just been loaded, and the user does one thing less; or it has
\* long been there.  A session of a saved profile may be running.
Init ==
    /\ \E p \in Saved \union {Local} :
          /\ profile = [s \in Ids |-> IF s = 1 THEN p ELSE Local]
          /\ bstate = [s \in Ids |-> IF s = 1 /\ p # Local THEN "live" ELSE "new"]
    /\ queue = [s \in Ids |-> <<>>] /\ stale = {}
    /\ \/ /\ load = "mounted" /\ moves = 1 /\ workspace \in SUBSET Saved
          /\ tabs = <<>> /\ active = 0 /\ holder = 0
          /\ seen = [p \in Profiles |-> 0]
       \/ /\ load = "ready" /\ moves = 0 /\ workspace = {}
          /\ tabs = IF bstate[1] = "live" THEN <<Tab(1, "connected")>> ELSE <<>>
          /\ active = Len(tabs) /\ holder = User
          /\ seen = [p \in Profiles |-> IF bstate[1] = "live" /\ p = profile[1] THEN 1 ELSE 0]
    /\ creating = [p \in Profiles |-> 0] /\ closedTabs = <<>> /\ listed = <<>>
    /\ auto = [s \in Ids |-> Idle] /\ userClosing = {} /\ recovering = {}
    /\ calls = [n \in Slots |-> NoCall]
    /\ turns = 0

PageStep ==
    \/ \E s \in Ids : Event(s) /\ UNCHANGED bounds
    \/ \E id \in Ids : TimerFires(id) /\ UNCHANGED bounds
    \/ Retry /\ UNCHANGED bounds
    \/ \E n \in Slots : Answer(n)
    \/ ListSessions \/ Hydrate \/ RestoreDone
    \/ \E n \in Slots, p \in Saved : Restore(n, p)

BackendStep ==
    \/ \E n \in Slots : BDisconnect(n) \/ BConnect(n)
    \/ \E s \in Ids : BHandshake(s) \/ BDrop(s) \/ BCliRecover(s) \/ BCliReplace(s)
    \/ \E p \in Saved : BCli(p)

Next == UserAct \/ PageStep \/ BackendStep
Spec == Init /\ [][Next]_vars

-----------------------------------------------------------------------------
(* Properties *)

\* The variables have their types; a profile is marked as being created only
\* while the open that marked it is under way, or it could never be connected
\* again; and no tab makes more automatic attempts than the limit.
Consistent ==
    /\ tabs \in Seq([id : Ids, p : Profiles,
                      st : {"connecting", "connected", "reconnecting", "disconnected", "error"}])
    /\ active \in {0} \union Ids
    /\ \A p \in Profiles : creating[p] # 0 => calls[creating[p]].kind = "open"
    /\ \A id \in Ids : auto[id].att <= AutoReconnectMax

\* However connects, reconnects, hand-overs of the command line, restored
\* workspaces and the answer of ListSessions interleave, no remote session has
\* two tabs.  (A local terminal may: see the README.)
OneTabPerSession ==
    \A i, j \in DOMAIN tabs : tabs[i].id = tabs[j].id /\ tabs[i].p # Local => i = j

\* Nothing is under way.
Quiet == /\ \A n \in Slots : calls[n] = NoCall
         /\ \A s \in Ids : queue[s] = <<>> /\ auto[s].st # "timer"
         /\ stale = {} /\ load = "ready"

\* Once everything has been answered, a running session that has a tab is shown
\* as connected: no late event, failed attempt or timer leaves it looking dead.
\* Excepted are the sessions ListSessions reported before the answer was merged.
LiveSessionShownLive ==
    Quiet => \A i \in DOMAIN tabs :
                tabs[i].id \notin DOMAIN listed /\ bstate[tabs[i].id] = "live" => tabs[i].st = "connected"

\* After the user has chosen a tab, no answer, event or restored workspace moves
\* the focus: it leaves the tab only with the tab, or when the user acts again.
FocusKept ==
    [][active' # active => \/ active \notin TabIds \/ active \notin {t.id : t \in {tabs'[i] : i \in DOMAIN tabs'}}
                           \/ holder # User \/ moves' # moves]_vars

\* What the comment above discardUnclaimedSession promises: a session that a
\* reconnect or a connect has opened is not left running without a tab.
NoOwnerlessSession == Quiet => \A s \in Ids : bstate[s] = "live" => s \in TabIds
=============================================================================
