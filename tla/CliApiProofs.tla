---------------------------- MODULE CliApiProofs ----------------------------
(***************************************************************************)
(* Proofs about what stands in front of a command of the local CLI API:    *)
(* its approval (CliApproval) and the registry of protected retries        *)
(* (CliRequests).  The two share no state.                                 *)
(*                                                                         *)
(* CliApproval, for any number of requests, servers and reloads.  Three    *)
(* facts carry its proofs: a request that no batch is named after has no   *)
(* items yet, so what is shown, sent or approved under its name is         *)
(* nothing; the gate belongs to the one batch between AcquireGate and the  *)
(* end of its panel; and an item is approved, or on its way to be, only    *)
(* after the user has ticked it.                                           *)
(*                                                                         *)
(* CliRequests, for any number of requests, ids and payloads and any       *)
(* capacity of the registry.  Its inductive invariant follows a request    *)
(* that reached the handler: it is the record of its id until, its handler *)
(* over, it expires.                                                       *)
(***************************************************************************)
EXTENDS CliApproval, CliRequests, FiniteSetTheorems, SequenceTheorems, TLAPS

-----------------------------------------------------------------------------
(* Approvals: the invariant *)

\* A request waits in its own server's queue, before any batch has its name.
Fresh ==
    /\ \A r \in Reqs : batch[r] = "none" => members[r] = <<>>
    /\ \A s \in Servers : \A i \in DOMAIN gathering[s] :
          /\ batch[gathering[s][i]] = "none"
          /\ caller[gathering[s][i]] # "idle"
          /\ serverOf[gathering[s][i]] = s
    /\ \A r \in Reqs : caller[r] = "idle" => batch[r] = "none"

Holding == {"holding", "waiting", "closing"}

\* The gate is taken by one batch, or by none.
GateSound ==
    /\ \A b, c \in Reqs : batch[b] \in Holding /\ batch[c] \in Holding => b = c
    /\ gate <=> \E b \in Reqs : batch[b] \in Holding

\* What is approved, or on its way back from the page, the user has ticked.
Ticked ==
    /\ \A b \in Reqs : \A i \in approved[b] : members[b][i] \in consent
    /\ \A call \in sent : \A i \in call[2] : members[call[1]][i] \in consent

IInv ==
    /\ TypeOK
    /\ approved \in [Reqs -> SUBSET Nat]
    /\ Fresh
    /\ GateSound
    /\ Ticked
    /\ AllowedByUser

\* A function on 1..n is a sequence of length n.
LEMMA IsSeq ==
    ASSUME NEW S, NEW n \in Nat, NEW f \in [1..n -> S]
    PROVE  f \in Seq(S) /\ (n # 0 => f # <<>>)
<1>1. f \in Seq(S)
  BY SeqDef
<1>2. Len(f) = n
  BY <1>1, LenProperties
<1> QED BY <1>1, <1>2, EmptySeq

\* The items of a batch are its members, each a request.
LEMMA ItemsTyped ==
    ASSUME TypeOK, NEW b \in Reqs
    PROVE  /\ Items(b) = 1..Len(members[b]) /\ Items(b) \subseteq Nat
           /\ \A i \in Items(b) : members[b][i] \in Reqs
<1>1. members[b] \in Seq(Reqs)
  BY DEF TypeOK
<1> QED BY <1>1 DEF Items

\* A step that changes neither requests nor batches keeps the names fresh.
LEMMA SameBatches ==
    ASSUME IInv, UNCHANGED <<requestVars, callerVars, gathering, members>>,
           \A b \in Reqs : batch'[b] = "none" <=> batch[b] = "none"
    PROVE  Fresh'
BY DEF IInv, TypeOK, Fresh, requestVars, callerVars

-----------------------------------------------------------------------------
(* Requests *)

\* A request arrives.
LEMMA AskKeeps ==
    ASSUME IInv, NEW r \in Reqs, Ask(r)
    PROVE  IInv'
<1>0. /\ caller[r] = "idle" /\ batch[r] = "none" /\ members[r] = <<>>
      /\ caller' = [caller EXCEPT ![r] = "waiting"]
      /\ serverOf[r] \in Servers
      /\ UNCHANGED <<requestVars, gone, cancelled, approved, why, panelVars, pageVars>>
  BY DEF Ask, IInv, TypeOK, Fresh
<1>1. Items(r) = {} /\ approved[r] = {}
  BY <1>0 DEF IInv, TypeOK, Items
<1>2. AllowedByUser'
  BY <1>0 DEF IInv, TypeOK, AllowedByUser, pageVars
<1>3. CASE /\ r \in critical
           /\ batch' = [batch EXCEPT ![r] = "asking"]
           /\ members' = [members EXCEPT ![r] = <<r>>]
           /\ UNCHANGED gathering
  <2>1. members' \in [Reqs -> Seq(Reqs)] /\ members'[r] = <<r>> /\ <<r>> # <<>>
    BY <1>3 DEF IInv, TypeOK
  <2>2. \A b \in Reqs \ {r} : members'[b] = members[b] /\ Items(b)' = Items(b)
    BY <1>3 DEF IInv, TypeOK, Items
  <2>3. ASSUME NEW b \in Reqs PROVE approved'[b] \subseteq Items(b)'
    <3>1. approved'[b] = approved[b]
      BY <1>0
    <3>2. approved[b] \subseteq Items(b)
      BY DEF IInv, TypeOK
    <3>3. CASE b = r
      BY <1>1, <3>1, <3>3
    <3>4. CASE b # r
      BY <2>2, <3>1, <3>2, <3>4
    <3> QED BY <3>3, <3>4
  <2>4. \A call \in sent : call[1] \in Reqs /\ call[2] \subseteq Items(call[1])
                           /\ (call[1] = r => call[2] = {})
    BY <1>1 DEF IInv, TypeOK
  <2>5. TypeOK'
    <3>1. /\ caller' \in [Reqs -> {"idle", "waiting", "allowed", "denied"}]
          /\ batch' \in [Reqs -> {"none", "asking", "queued", "holding", "waiting",
                                  "closing", "native", "dialog", "answering", "over"}]
      BY <1>0, <1>3 DEF IInv, TypeOK
    <3>2. ASSUME NEW b \in Reqs, batch'[b] # "none" PROVE members'[b] # <<>>
      <4>1. CASE b = r
        BY <2>1, <4>1
      <4>2. CASE b # r
        <5>1. batch[b] # "none" /\ members'[b] = members[b]
          BY <1>3, <2>2, <3>2, <4>2 DEF IInv, TypeOK
        <5> QED BY <5>1 DEF IInv, TypeOK
      <4> QED BY <4>1, <4>2
    <3>3. ASSUME NEW call \in sent'
          PROVE  call[1] \in Reqs /\ call[2] \in SUBSET Items(call[1])'
      <4>1. /\ call[1] \in Reqs /\ call[2] \subseteq Items(call[1])
            /\ (call[1] = r => call[2] = {})
        BY <1>0, <2>4, <3>3 DEF pageVars
      <4>2. CASE call[1] = r
        BY <4>1, <4>2
      <4>3. CASE call[1] # r
        BY <2>2, <4>1, <4>3
      <4> QED BY <4>2, <4>3
    <3> QED BY <1>0, <1>3, <2>1, <2>3, <3>1, <3>2, <3>3
            DEF IInv, TypeOK, requestVars, panelVars, pageVars
  <2>6. Fresh'
    BY <1>0, <1>3, <2>1 DEF IInv, TypeOK, Fresh, requestVars
  <2>7. GateSound'
    BY <1>0, <1>3 DEF IInv, TypeOK, GateSound, Holding, panelVars
  <2>8. Ticked'
    BY <1>0, <1>1, <2>2, <2>4 DEF IInv, Ticked, pageVars
  <2> QED BY <1>0, <1>2, <2>5, <2>6, <2>7, <2>8 DEF IInv
<1>4. CASE /\ r \notin critical
           /\ gathering' = [gathering EXCEPT ![serverOf[r]] = Append(@, r)]
           /\ UNCHANGED <<batch, members>>
  <2>1. gathering' \in [Servers -> Seq(Reqs \ critical)]
    BY <1>0, <1>4 DEF IInv, TypeOK
  <2>2. TypeOK'
    BY <1>0, <1>4, <2>1 DEF IInv, TypeOK, requestVars, panelVars, pageVars, Items
  <2>3. Fresh'
    <3>1. Fresh
      BY DEF IInv
    <3>2. batch' = batch /\ members' = members /\ serverOf' = serverOf
      BY <1>0, <1>4 DEF requestVars
    <3>3. /\ \A c \in Reqs : caller'[c] = "idle" => caller[c] = "idle"
          /\ caller'[r] # "idle"
      BY <1>0 DEF IInv, TypeOK
    <3>4. ASSUME NEW s \in Servers, NEW i \in DOMAIN gathering'[s]
          PROVE  LET c == gathering'[s][i]
                 IN  batch[c] = "none" /\ caller'[c] # "idle" /\ serverOf[c] = s
      <4>1. gathering[s] \in Seq(Reqs \ critical) /\ gathering \in [Servers -> Seq(Reqs \ critical)]
        BY DEF IInv, TypeOK
      <4>2. CASE i \in DOMAIN gathering[s] /\ gathering'[s][i] = gathering[s][i]
        BY <3>1, <3>3, <4>1, <4>2 DEF Fresh
      <4>3. CASE s = serverOf[r] /\ gathering'[s][i] = r
        BY <1>0, <3>3, <4>3
      <4>4. CASE s = serverOf[r]
        <5>1. gathering'[s] = Append(gathering[s], r)
          BY <1>0, <1>4, <4>1, <4>4
        <5> QED BY <4>1, <4>2, <4>3, <4>4, <5>1
      <4>5. CASE s # serverOf[r]
        <5>1. gathering'[s] = gathering[s]
          BY <1>4, <4>1, <4>5
        <5> QED BY <4>2, <5>1
      <4> QED BY <4>4, <4>5
    <3> QED BY <3>1, <3>2, <3>3, <3>4 DEF Fresh
  <2>4. GateSound' /\ Ticked'
    BY <1>0, <1>4 DEF IInv, GateSound, Ticked, panelVars, pageVars
  <2> QED BY <1>0, <1>2, <2>2, <2>3, <2>4 DEF IInv
<1> QED BY <1>3, <1>4 DEF Ask

\* A client hangs up.
LEMMA HangUpKeeps ==
    ASSUME IInv, NEW r \in Reqs, HangUp(r)
    PROVE  IInv'
<1>0. /\ caller[r] = "waiting" /\ gone' = gone \union {r}
      /\ caller' = [caller EXCEPT ![r] = IF r \in critical THEN @ ELSE "denied"]
      /\ UNCHANGED <<requestVars, cancelled, batchVars, panelVars, pageVars>>
  BY DEF HangUp
<1>1. TypeOK'
  BY <1>0 DEF IInv, TypeOK, Items, requestVars, batchVars, panelVars, pageVars
<1>2. Fresh'
  BY <1>0 DEF IInv, TypeOK, Fresh, requestVars, batchVars
<1>3. GateSound' /\ Ticked' /\ AllowedByUser'
  BY <1>0 DEF IInv, TypeOK, GateSound, Ticked, AllowedByUser, batchVars, panelVars, pageVars
<1> QED BY <1>0, <1>1, <1>2, <1>3 DEF IInv, batchVars

\* A batch's watchers cancel its panel's context.
LEMMA CancelKeeps ==
    ASSUME IInv, NEW b \in Reqs, CancelPanel(b)
    PROVE  IInv'
<1>0. /\ cancelled' = cancelled \union {b}
      /\ UNCHANGED <<requestVars, caller, gone, batchVars, panelVars, pageVars>>
  BY DEF CancelPanel
<1>1. TypeOK'
  BY <1>0 DEF IInv, TypeOK, Items, requestVars, batchVars, panelVars, pageVars
<1>2. Fresh'
  BY <1>0 DEF IInv, Fresh, requestVars, batchVars
<1>3. GateSound' /\ Ticked' /\ AllowedByUser'
  BY <1>0 DEF IInv, GateSound, Ticked, AllowedByUser, batchVars, panelVars, pageVars
<1> QED BY <1>0, <1>1, <1>2, <1>3 DEF IInv, batchVars

\* The window ends: the batch gets the name of its first request and the
\* requests that are left.
LEMMA FlushKeeps ==
    ASSUME IInv, NEW s \in Servers, Flush(s)
    PROVE  IInv'
<1> DEFINE live == {i \in DOMAIN gathering[s] : gathering[s][i] \notin gone}
           b == Head(gathering[s])
<1>0. /\ gathering[s] # <<>> /\ gathering[s] \in Seq(Reqs)
      /\ gathering' = [gathering EXCEPT ![s] = <<>>]
      /\ UNCHANGED <<requestVars, callerVars, approved, why, panelVars, pageVars>>
  BY DEF Flush, IInv, TypeOK
<1>1. b = gathering[s][1] /\ 1 \in DOMAIN gathering[s] /\ b \in Reqs
  BY <1>0
<1>2. batch[b] = "none" /\ members[b] = <<>> /\ caller[b] # "idle"
  BY <1>1 DEF IInv, Fresh
<1>3. gathering' \in [Servers -> Seq(Reqs \ critical)] /\ DOMAIN gathering'[s] = {}
  BY <1>0 DEF IInv, TypeOK
<1>4. \A t \in Servers \ {s} : /\ gathering'[t] = gathering[t]
                              /\ \A i \in DOMAIN gathering[t] : gathering[t][i] # b
  BY <1>0, <1>1 DEF IInv, TypeOK, Fresh
<1>5. CASE UNCHANGED <<batch, members>>
  <2>1. TypeOK'
    BY <1>0, <1>3, <1>5 DEF IInv, TypeOK, Items, requestVars, callerVars, panelVars, pageVars
  <2>2. Fresh'
    BY <1>0, <1>3, <1>4, <1>5 DEF IInv, Fresh, requestVars, callerVars
  <2>3. GateSound' /\ Ticked' /\ AllowedByUser'
    BY <1>0, <1>5 DEF IInv, GateSound, Ticked, AllowedByUser, callerVars, panelVars, pageVars
  <2> QED BY <1>0, <2>1, <2>2, <2>3 DEF IInv
<1>6. CASE /\ live # {}
           /\ \E order \in [1..Cardinality(live) -> live] :
                 /\ batch' = [batch EXCEPT ![b] = "asking"]
                 /\ members' = [members EXCEPT ![b] =
                        [i \in DOMAIN order |-> gathering[s][order[i]]]]
  <2>0. PICK order \in [1..Cardinality(live) -> live] :
                 /\ batch' = [batch EXCEPT ![b] = "asking"]
                 /\ members' = [members EXCEPT ![b] =
                        [i \in DOMAIN order |-> gathering[s][order[i]]]]
    BY <1>6
  <2> DEFINE items == [i \in DOMAIN order |-> gathering[s][order[i]]]
  <2>1. Cardinality(live) \in Nat /\ Cardinality(live) # 0
    <3>1. DOMAIN gathering[s] = 1..Len(gathering[s]) /\ Len(gathering[s]) \in Nat
      BY <1>0
    <3>2. IsFiniteSet(live)
      <4>1. IsFiniteSet(1..Len(gathering[s])) /\ live \in SUBSET (1..Len(gathering[s]))
        BY <3>1, FS_Interval
      <4> QED BY <4>1, FS_Subset
    <3> QED BY <1>6, <3>2, FS_CardinalityType, FS_EmptySet
  <2>2. items \in Seq(Reqs) /\ items # <<>>
    <3>1. \A i \in 1..Cardinality(live) : gathering[s][order[i]] \in Reqs
      <4>1. \A j \in DOMAIN gathering[s] : gathering[s][j] \in Reqs
        BY <1>0
      <4> QED BY <4>1
    <3>2. items \in [1..Cardinality(live) -> Reqs]
      BY <3>1
    <3> DEFINE n == Cardinality(live)
    <3>3. n \in Nat /\ n # 0 /\ items \in [1..n -> Reqs]
      BY <2>1, <3>2
    <3> HIDE DEF n, items
    <3> QED BY <3>3, IsSeq
  <2>3. /\ members' \in [Reqs -> Seq(Reqs)] /\ members'[b] # <<>>
        /\ batch'[b] = "asking"
        /\ \A c \in Reqs \ {b} : /\ members'[c] = members[c] /\ Items(c)' = Items(c)
                                /\ batch'[c] = batch[c]
    BY <1>1, <2>0, <2>2 DEF IInv, TypeOK, Items
  <2>4. Items(b) = {} /\ approved[b] = {}
    BY <1>1, <1>2 DEF IInv, TypeOK, Items
  <2>5. \A call \in sent : call[1] \in Reqs /\ call[2] \subseteq Items(call[1])
                           /\ (call[1] = b => call[2] = {})
    BY <2>4 DEF IInv, TypeOK
  <2>6. TypeOK'
    <3>1. ASSUME NEW c \in Reqs PROVE approved'[c] \subseteq Items(c)'
      <4>1. approved'[c] = approved[c] /\ approved[c] \subseteq Items(c)
        BY <1>0 DEF IInv, TypeOK
      <4>2. CASE c = b
        BY <2>4, <4>1, <4>2
      <4>3. CASE c # b
        BY <2>3, <4>1, <4>3
      <4> QED BY <4>2, <4>3
    <3>2. ASSUME NEW call \in sent'
          PROVE  call[1] \in Reqs /\ call[2] \in SUBSET Items(call[1])'
      <4>1. /\ call[1] \in Reqs /\ call[2] \subseteq Items(call[1])
            /\ (call[1] = b => call[2] = {})
        BY <1>0, <2>5, <3>2 DEF pageVars
      <4>2. CASE call[1] = b
        BY <4>1, <4>2
      <4>3. CASE call[1] # b
        BY <2>3, <4>1, <4>3
      <4> QED BY <4>2, <4>3
    <3>3. batch' \in [Reqs -> {"none", "asking", "queued", "holding", "waiting",
                               "closing", "native", "dialog", "answering", "over"}]
      BY <1>1, <2>0 DEF IInv, TypeOK
    <3> QED BY <1>0, <1>3, <2>3, <3>1, <3>2, <3>3
            DEF IInv, TypeOK, requestVars, callerVars, panelVars, pageVars
  <2>7. Fresh'
    <3>1. ASSUME NEW r \in Reqs, batch'[r] = "none"
          PROVE  batch[r] = "none" /\ members'[r] = <<>>
      <4>1. r # b /\ batch[r] = "none" /\ members'[r] = members[r]
        BY <2>3, <3>1
      <4> QED BY <4>1 DEF IInv, Fresh
    <3>2. ASSUME NEW t \in Servers, NEW i \in DOMAIN gathering'[t]
          PROVE  /\ batch'[gathering'[t][i]] = "none"
                 /\ caller'[gathering'[t][i]] # "idle"
                 /\ serverOf'[gathering'[t][i]] = t
      <4>1. t # s /\ gathering'[t] = gathering[t] /\ gathering[t][i] # b
        BY <1>3, <1>4, <3>2
      <4>2. gathering[t][i] \in Reqs
        BY <3>2, <4>1 DEF IInv, TypeOK
      <4>3. /\ batch[gathering[t][i]] = "none" /\ caller[gathering[t][i]] # "idle"
            /\ serverOf[gathering[t][i]] = t
        BY <3>2, <4>1 DEF IInv, Fresh
      <4> QED BY <1>0, <2>3, <4>1, <4>2, <4>3 DEF requestVars, callerVars
    <3>3. \A r \in Reqs : caller'[r] = "idle" => batch'[r] = "none"
      BY <1>0, <1>2, <2>3 DEF IInv, Fresh, callerVars
    <3> QED BY <3>1, <3>2, <3>3 DEF Fresh
  <2>8. GateSound'
    BY <1>0, <1>1, <1>2, <2>3 DEF IInv, GateSound, Holding, panelVars
  <2>9. Ticked' /\ AllowedByUser'
    BY <1>0, <2>3, <2>4, <2>5 DEF IInv, Ticked, AllowedByUser, callerVars, pageVars
  <2> QED BY <1>0, <2>6, <2>7, <2>8, <2>9 DEF IInv
<1> QED BY <1>5, <1>6 DEF Flush

\* A request is allowed if its item is among those the batch's answer names.
LEMMA AnswerKeeps ==
    ASSUME IInv, NEW b \in Reqs, Answer(b)
    PROVE  IInv'
<1>0. /\ batch[b] = "answering" /\ batch' = [batch EXCEPT ![b] = "over"]
      /\ caller' = [r \in Reqs |->
             IF r \notin Members(b) \/ caller[r] # "waiting" THEN caller[r]
             ELSE IF \E i \in approved[b] : members[b][i] = r THEN "allowed" ELSE "denied"]
      /\ approved' = [approved EXCEPT ![b] = {}]
      /\ answered' = answered \ {b}
      /\ cancelled' = cancelled \ {b}
      /\ UNCHANGED <<requestVars, gone, gathering, members, why, gate, dialog, pending, pageVars>>
  BY DEF Answer, Goto
<1>1. TypeOK'
  <2>1. caller' \in [Reqs -> {"idle", "waiting", "allowed", "denied"}]
    BY <1>0 DEF IInv, TypeOK
  <2>2. \A c \in Reqs : approved'[c] \subseteq Items(c)'
    BY <1>0 DEF IInv, TypeOK, Items
  <2>3. cancelled' \in SUBSET Reqs
    BY <1>0 DEF IInv, TypeOK
  <2> QED BY <1>0, <2>1, <2>2, <2>3 DEF IInv, TypeOK, Items, requestVars, pageVars
<1>2. Fresh'
  <2>1. \A r \in Reqs : caller'[r] = "idle" <=> caller[r] = "idle"
    BY <1>0
  <2>2. \A s \in Servers : \A i \in DOMAIN gathering[s] : gathering[s][i] \in Reqs
    BY DEF IInv, TypeOK
  <2> QED BY <1>0, <2>1, <2>2 DEF IInv, TypeOK, Fresh, requestVars
<1>3. GateSound'
  BY <1>0 DEF IInv, TypeOK, GateSound, Holding
<1>4. Ticked'
  BY <1>0 DEF IInv, TypeOK, Ticked, pageVars
<1>5. AllowedByUser'
  BY <1>0 DEF IInv, Ticked, AllowedByUser, pageVars
<1>6. approved' \in [Reqs -> SUBSET Nat]
  BY <1>0 DEF IInv
<1> QED BY <1>1, <1>2, <1>3, <1>4, <1>5, <1>6 DEF IInv

-----------------------------------------------------------------------------
(* The review panel and the dialog *)

\* A batch's own step leaves its name and its items alone.
LEMMA BatchGoes ==
    ASSUME IInv, NEW b \in Reqs, NEW from,
           NEW to \in {"queued", "holding", "waiting", "closing", "native", "dialog",
                       "answering"},
           from # "none", Goto(b, from, to), UnmovedByBatch
    PROVE  /\ batch' \in [Reqs -> {"none", "asking", "queued", "holding", "waiting",
                                   "closing", "native", "dialog", "answering", "over"}]
           /\ \A c \in Reqs : c # b => batch'[c] = batch[c]
           /\ \A c \in Reqs : Items(c)' = Items(c)
           /\ batch[b] = from /\ batch'[b] = to
           /\ \A c \in Reqs : batch'[c] # "none" => members'[c] # <<>>
           /\ Fresh'
<1>1. /\ batch[b] = from /\ batch'[b] = to
      /\ \A c \in Reqs : c # b => batch'[c] = batch[c]
      /\ batch' \in [Reqs -> {"none", "asking", "queued", "holding", "waiting",
                              "closing", "native", "dialog", "answering", "over"}]
  BY DEF Goto, IInv, TypeOK
<1>2. Fresh'
  BY <1>1, SameBatches DEF UnmovedByBatch
<1>3. \A c \in Reqs : Items(c)' = Items(c)
  BY DEF UnmovedByBatch, Items
<1> QED BY <1>1, <1>2, <1>3 DEF UnmovedByBatch, IInv, TypeOK

\* The gate stays with one batch when a step leaves it alone, takes it while it
\* is free, or gives back its own.
LEMMA GateKeeps ==
    ASSUME IInv, NEW b \in Reqs, gate' \in BOOLEAN,
           \A c \in Reqs : c # b => batch'[c] = batch[c],
           \/ batch[b] \in Holding /\ batch'[b] \in Holding /\ gate' = gate
           \/ batch[b] \notin Holding /\ batch'[b] \notin Holding /\ gate' = gate
           \/ batch[b] \notin Holding /\ batch'[b] \in Holding /\ ~gate /\ gate'
           \/ batch[b] \in Holding /\ batch'[b] \notin Holding /\ ~gate'
    PROVE  GateSound'
BY DEF IInv, GateSound

\* The causes keep their type.
LEMMA BecauseType ==
    ASSUME IInv, NEW bs, NEW cause \in {"left", "timeout", "reload", "answer"},
           Because(bs, cause) \/ why' = why
    PROVE  why' \in [Reqs -> {"none", "left", "timeout", "reload", "answer"}]
BY DEF Because, IInv, TypeOK

\* A step of a batch that moves on keeps the rest, if what it puts on the way to
\* the page is an event and what it approves has been ticked.
LEMMA BatchKeeps ==
    ASSUME IInv, NEW b \in Reqs, NEW from,
           NEW to \in {"queued", "holding", "waiting", "closing", "native", "dialog",
                       "answering"},
           from # "none", Goto(b, from, to), UnmovedByBatch,
           gate' \in BOOLEAN,
           \/ from \in Holding /\ to \in Holding /\ gate' = gate
           \/ from \notin Holding /\ to \notin Holding /\ gate' = gate
           \/ from \notin Holding /\ to \in Holding /\ ~gate /\ gate'
           \/ from \in Holding /\ to \notin Holding /\ ~gate',
           UNCHANGED <<answered, ready, listening, register, shown, sent, reloads>>,
           why' \in [Reqs -> {"none", "left", "timeout", "reload", "answer"}],
           dialog' \in {dialog, None, b}, pending' \in SUBSET (pending \union {b}),
           inbox' = inbox \/ Emit("open", b) \/ Emit("closed", b),
           \/ consent' = consent /\ approved' \in {approved, [approved EXCEPT ![b] = {}]}
           \/ /\ consent' = consent \union Members(b)
              /\ approved' = [approved EXCEPT ![b] = Items(b)]
    PROVE  IInv'
<1>1. /\ batch' \in [Reqs -> {"none", "asking", "queued", "holding", "waiting",
                              "closing", "native", "dialog", "answering", "over"}]
      /\ \A c \in Reqs : c # b => batch'[c] = batch[c]
      /\ \A c \in Reqs : Items(c)' = Items(c) /\ Items(c) \subseteq Nat
      /\ \A c \in Reqs : \A i \in Items(c) : members[c][i] \in Reqs
      /\ batch[b] = from /\ batch'[b] = to
      /\ \A c \in Reqs : batch'[c] # "none" => members'[c] # <<>>
      /\ Fresh'
      /\ UNCHANGED <<requestVars, callerVars, gathering, members>>
  BY BatchGoes, ItemsTyped DEF UnmovedByBatch, IInv
<1>2. inbox' \in Seq({"open", "closed"} \X Reqs)
  <2>1. <<"open", b>> \in {"open", "closed"} \X Reqs /\ <<"closed", b>> \in {"open", "closed"} \X Reqs
    OBVIOUS
  <2>2. inbox' \in {inbox, Append(inbox, <<"open", b>>), Append(inbox, <<"closed", b>>)}
    BY DEF Emit
  <2>3. inbox \in Seq({"open", "closed"} \X Reqs)
    BY DEF IInv, TypeOK
  <2>4. /\ Append(inbox, <<"open", b>>) \in Seq({"open", "closed"} \X Reqs)
        /\ Append(inbox, <<"closed", b>>) \in Seq({"open", "closed"} \X Reqs)
    BY <2>1, <2>3, AppendProperties, Zenon
  <2> QED BY <2>2, <2>3, <2>4, Zenon
<1>3. /\ approved' \in [Reqs -> SUBSET Nat] /\ consent \subseteq consent'
      /\ consent' \in SUBSET Reqs
      /\ \A c \in Reqs : approved'[c] \subseteq Items(c)
      /\ \A c \in Reqs : \/ approved'[c] \subseteq approved[c]
                         \/ c = b /\ Members(b) \subseteq consent'
  <2>0. /\ approved \in [Reqs -> SUBSET Nat] /\ consent \in SUBSET Reqs
        /\ \A c \in Reqs : approved[c] \subseteq Items(c)
    BY DEF IInv, TypeOK
  <2>1. Members(b) \subseteq Reqs
    BY <1>1 DEF Members
  <2>2. CASE consent' = consent /\ approved' \in {approved, [approved EXCEPT ![b] = {}]}
    BY <2>0, <2>2
  <2>3. CASE consent' = consent \union Members(b) /\ approved' = [approved EXCEPT ![b] = Items(b)]
    BY <1>1, <2>0, <2>1, <2>3
  <2> QED BY <2>2, <2>3
<1>4. TypeOK'
  <2>0. \A call \in sent' : call[1] \in Reqs /\ call[2] \in SUBSET Items(call[1])
    BY DEF IInv, TypeOK
  <2>1. /\ \A c \in Reqs : approved'[c] \subseteq Items(c)'
        /\ \A call \in sent' : call[1] \in Reqs /\ call[2] \in SUBSET Items(call[1])'
    BY <1>1, <1>3, <2>0
  <2>2. dialog' \in Reqs \union {None} /\ pending' \in SUBSET Reqs
    BY DEF IInv, TypeOK
  <2> QED BY <1>1, <1>2, <1>3, <2>1, <2>2 DEF IInv, TypeOK, requestVars, callerVars
<1>5. GateSound'
  BY <1>1, GateKeeps
<1>6. Ticked'
  <2>1. \A call \in sent : \A i \in call[2] : members[call[1]][i] \in consent'
    BY <1>3 DEF IInv, Ticked
  <2>2. ASSUME NEW c \in Reqs, NEW i \in approved'[c] PROVE members[c][i] \in consent'
    <3>1. CASE i \in approved[c]
      BY <1>3, <3>1 DEF IInv, Ticked
    <3>2. CASE c = b /\ Members(b) \subseteq consent'
      BY <1>3, <2>2, <3>2 DEF Members
    <3> QED BY <1>3, <3>1, <3>2
  <2> QED BY <1>1, <2>1, <2>2 DEF Ticked
<1>7. AllowedByUser'
  BY <1>1, <1>3 DEF IInv, AllowedByUser, callerVars
<1> QED BY <1>1, <1>3, <1>4, <1>5, <1>6, <1>7 DEF IInv

\* The steps of requestCliApprovalPanel and of the native dialog.
LEMMA BatchStepKeeps ==
    ASSUME IInv, NEW b \in Reqs, BatchStep(b) \/ AnswerDialog(b)
    PROVE  IInv'
<1> USE DEF Holding
<1>0. gate \in BOOLEAN
  BY DEF IInv, TypeOK
<1> DEFINE WhyTyped == why' \in [Reqs -> {"none", "left", "timeout", "reload", "answer"}]
<1>1. CASE Open(b)
  <2>1. WhyTyped
    BY <1>1, BecauseType DEF Open
  <2> QED BY <1>0, <1>1, <2>1, BatchKeeps DEF Open, panelVars, pageVars
<1>2. CASE AcquireGate(b)
  <2>1. WhyTyped
    BY <1>2, BecauseType DEF AcquireGate
  <2> QED BY <1>2, <2>1, BatchKeeps DEF AcquireGate, pageVars
<1>3. CASE LeaveQueue(b)
  <2>1. WhyTyped
    BY <1>3, BecauseType DEF LeaveQueue
  <2> QED BY <1>0, <1>3, <2>1, BatchKeeps DEF LeaveQueue, panelVars, pageVars
<1>4. CASE ShowPanel(b)
  <2>1. WhyTyped
    BY <1>4, BecauseType DEF ShowPanel
  <2> QED BY <1>0, <1>4, <2>1, BatchKeeps DEF ShowPanel
<1>5. CASE TakeAnswer(b)
  <2>1. approved' \in {approved, [approved EXCEPT ![b] = {}]} /\ WhyTyped
    BY <1>5, BecauseType DEF TakeAnswer
  <2> QED BY <1>5, <2>1, BatchKeeps DEF TakeAnswer, pageVars
<1>6. CASE LeavePanel(b) \/ TimeOut(b)
  <2>1. WhyTyped
    BY <1>6, BecauseType DEF LeavePanel, TimeOut
  <2> QED BY <1>0, <1>6, <2>1, BatchKeeps DEF LeavePanel, TimeOut, panelVars, pageVars
<1>7. CASE ClosePanel(b)
  <2>1. WhyTyped
    BY <1>7, BecauseType DEF ClosePanel
  <2> QED BY <1>7, <2>1, BatchKeeps DEF ClosePanel
<1>8. CASE OpenDialog(b)
  <2>1. WhyTyped
    BY <1>8, BecauseType DEF OpenDialog
  <2> QED BY <1>0, <1>8, <2>1, BatchKeeps DEF OpenDialog, pageVars
<1>9. CASE AnswerDialog(b)
  <2>1. WhyTyped
    BY <1>9, BecauseType DEF AnswerDialog
  <2> QED BY <1>0, <1>9, <2>1, BatchKeeps DEF AnswerDialog
<1>10. CASE Answer(b)
  BY <1>10, AnswerKeeps
<1> QED
  BY <1>1, <1>2, <1>3, <1>4, <1>5, <1>6, <1>7, <1>8, <1>9, <1>10 DEF BatchStep

-----------------------------------------------------------------------------
(* The page and its answers *)

\* A step that touches neither batches nor callers keeps their parts.
LEMMA PageKeeps ==
    ASSUME IInv, UNCHANGED <<requestVars, callerVars, gathering, batch, members, gate, dialog>>,
           pending' \in SUBSET pending, answered' \in SUBSET (answered \union pending),
           ready' \in BOOLEAN, listening' \in BOOLEAN, register' \in {"none", "ready"},
           inbox' \in Seq({"open", "closed"} \X Reqs), shown' \in Reqs \union {None},
           reloads' \in 0..MaxReloads, consent \subseteq consent', consent' \in SUBSET Reqs,
           approved' \in [Reqs -> SUBSET Nat],
           \A c \in Reqs : approved'[c] \subseteq Items(c),
           \A call \in sent' : call[1] \in Reqs /\ call[2] \subseteq Items(call[1]),
           why' \in [Reqs -> {"none", "left", "timeout", "reload", "answer"}],
           \A c \in Reqs : \A i \in approved'[c] : members[c][i] \in consent',
           \A call \in sent' : \A i \in call[2] : members[call[1]][i] \in consent'
    PROVE  IInv'
<1>1. \A c \in Reqs : Items(c)' = Items(c)
  BY DEF Items
<1>2. TypeOK'
  BY <1>1 DEF IInv, TypeOK, requestVars, callerVars
<1>3. Fresh' /\ GateSound'
  BY SameBatches DEF IInv, GateSound
<1>4. Ticked' /\ AllowedByUser'
  BY DEF IInv, Ticked, AllowedByUser, callerVars
<1> QED BY <1>2, <1>3, <1>4 DEF IInv

\* An answer reaches the panel it is for, or nobody.
LEMMA ResolveKeeps ==
    ASSUME IInv, ResolveCliApproval
    PROVE  IInv'
<1>1. PICK call \in sent :
        /\ sent' = sent \ {call}
        /\ Because({call[1]}, "answer") \/ why' = why
        /\ \/ /\ pending' = pending \ {call[1]}
              /\ answered' = answered \union {call[1]} /\ call[1] \in pending
              /\ approved' = [approved EXCEPT ![call[1]] = call[2]]
           \/ UNCHANGED <<pending, answered, approved>>
        /\ UnmovedByBatch
        /\ UNCHANGED <<batch, gate, dialog, ready, listening, register, inbox, shown,
                       reloads, consent>>
  BY DEF ResolveCliApproval
<1>2. /\ call[1] \in Reqs /\ call[2] \subseteq Items(call[1])
      /\ \A i \in call[2] : members[call[1]][i] \in consent
  BY DEF IInv, TypeOK, Ticked
<1>3. Items(call[1]) \subseteq Nat
  BY <1>2, ItemsTyped DEF IInv
<1>4. /\ approved' \in [Reqs -> SUBSET Nat]
      /\ \A c \in Reqs : \/ approved'[c] = approved[c]
                         \/ c = call[1] /\ approved'[c] = call[2]
  BY <1>1, <1>2, <1>3 DEF IInv
<1>5. /\ \A c \in Reqs : approved'[c] \subseteq Items(c)
      /\ \A c \in Reqs : \A i \in approved'[c] : members[c][i] \in consent
  BY <1>2, <1>4 DEF IInv, TypeOK, Ticked
<1>6. \A other \in sent' : /\ other[1] \in Reqs /\ other[2] \subseteq Items(other[1])
                           /\ \A i \in other[2] : members[other[1]][i] \in consent
  BY <1>1 DEF IInv, TypeOK, Ticked
<1>8. why' \in [Reqs -> {"none", "left", "timeout", "reload", "answer"}]
  BY <1>1, BecauseType
<1>7. /\ pending' \in SUBSET pending /\ answered' \in SUBSET (answered \union pending)
      /\ ready' \in BOOLEAN /\ listening' \in BOOLEAN /\ register' \in {"none", "ready"}
      /\ inbox' \in Seq({"open", "closed"} \X Reqs) /\ shown' \in Reqs \union {None}
      /\ reloads' \in 0..MaxReloads /\ consent' = consent /\ consent' \in SUBSET Reqs
      /\ UNCHANGED <<requestVars, callerVars, gathering, batch, members, gate, dialog>>
  BY <1>1 DEF IInv, TypeOK, UnmovedByBatch
<1> QED BY <1>4, <1>5, <1>6, <1>7, <1>8, PageKeeps

\* The page loads, registers, reloads, shows a panel and lets the user decide.
LEMMA PageStepKeeps ==
    ASSUME IInv, PageStep
    PROVE  IInv'
<1>0. /\ UNCHANGED <<requestVars, callerVars, gathering, batch, members, gate, dialog,
                     approved>>
      /\ approved \in [Reqs -> SUBSET Nat] /\ consent \in SUBSET Reqs
      /\ \A c \in Reqs : approved[c] \subseteq Items(c)
      /\ \A call \in sent : call[1] \in Reqs /\ call[2] \subseteq Items(call[1])
      /\ \A c \in Reqs : \A i \in approved[c] : members[c][i] \in consent
      /\ \A call \in sent : \A i \in call[2] : members[call[1]][i] \in consent
  BY DEF PageStep, LoadPage, RegisterDenyAll, Reload, Deliver, Decide, UnmovedByPage,
         IInv, TypeOK, Ticked
<1>7. why' \in [Reqs -> {"none", "left", "timeout", "reload", "answer"}]
  BY BecauseType DEF PageStep, LoadPage, RegisterDenyAll, Reload, Deliver, Decide
<1>1. /\ ready \in BOOLEAN /\ listening \in BOOLEAN /\ register \in {"none", "ready"}
      /\ inbox \in Seq({"open", "closed"} \X Reqs) /\ shown \in Reqs \union {None}
      /\ reloads \in 0..MaxReloads
  BY DEF IInv, TypeOK
<1>2. CASE LoadPage
  BY <1>0, <1>1, <1>7, <1>2, PageKeeps DEF LoadPage
<1>3. CASE RegisterDenyAll
  BY <1>0, <1>1, <1>7, <1>3, PageKeeps DEF RegisterDenyAll
<1>4. CASE Reload
  <2>1. inbox' \in Seq({"open", "closed"} \X Reqs) /\ reloads' \in 0..MaxReloads
    BY <1>1, <1>4, ReloadsAssumption, EmptySeq DEF Reload
  <2> QED BY <1>0, <1>1, <1>7, <1>4, <2>1, PageKeeps DEF Reload
<1>5. CASE Deliver
  <2>1. /\ inbox' \in Seq({"open", "closed"} \X Reqs)
        /\ Head(inbox) \in {"open", "closed"} \X Reqs
    BY <1>1, <1>5, HeadTailProperties DEF Deliver
  <2>2. shown' \in Reqs \union {None}
    BY <1>1, <1>5, <2>1 DEF Deliver
  <2> QED BY <1>0, <1>1, <1>7, <1>5, <2>1, <2>2, PageKeeps DEF Deliver
<1>6. CASE Decide
  <2>1. shown \in Reqs
    BY <1>1, <1>6 DEF Decide
  <2>2. PICK ticked \in SUBSET Items(shown) :
          /\ sent' = sent \union {<<shown, ticked>>}
          /\ consent' = consent \union {members[shown][i] : i \in ticked}
    BY <1>6 DEF Decide
  <2>3. consent' \in SUBSET Reqs /\ consent \subseteq consent'
    BY <1>0, <2>1, <2>2, ItemsTyped DEF IInv
  <2>4. /\ \A call \in sent' : call[1] \in Reqs /\ call[2] \subseteq Items(call[1])
        /\ \A call \in sent' : \A i \in call[2] : members[call[1]][i] \in consent'
    BY <1>0, <2>1, <2>2
  <2>5. \A c \in Reqs : \A i \in approved[c] : members[c][i] \in consent'
    BY <1>0, <2>3
  <2>6. shown' \in Reqs \union {None}
    BY <1>6 DEF Decide
  <2> QED BY <1>0, <1>1, <1>7, <1>6, <2>3, <2>4, <2>5, <2>6, PageKeeps DEF Decide
<1> QED BY <1>2, <1>3, <1>4, <1>5, <1>6 DEF PageStep

\* The inductive invariant of the approvals.
THEOREM Inductive == Spec => []IInv
<1>1. Init => IInv
  <2> SUFFICES ASSUME Init PROVE IInv
    OBVIOUS
  <2>1. TypeOK
    <3>1. /\ gathering \in [Servers -> Seq(Reqs \ critical)] /\ members \in [Reqs -> Seq(Reqs)]
          /\ inbox \in Seq({"open", "closed"} \X Reqs)
      BY EmptySeq DEF Init
    <3>2. /\ \A b \in Reqs : batch[b] = "none" /\ approved[b] = {} /\ caller[b] = "idle"
          /\ reloads \in 0..MaxReloads
      BY ReloadsAssumption DEF Init
    <3>3. /\ caller \in [Reqs -> {"idle", "waiting", "allowed", "denied"}]
          /\ batch \in [Reqs -> {"none", "asking", "queued", "holding", "waiting",
                                  "closing", "native", "dialog", "answering", "over"}]
      BY DEF Init
    <3> QED BY <3>1, <3>2, <3>3 DEF Init, TypeOK
  <2>2. Fresh /\ GateSound /\ Ticked /\ AllowedByUser
    BY EmptySeq DEF Init, Fresh, GateSound, Holding, Ticked, AllowedByUser
  <2> QED BY <2>1, <2>2 DEF Init, IInv
<1>2. IInv /\ [Next]_vars => IInv'
  <2> SUFFICES ASSUME IInv, [Next]_vars PROVE IInv'
    OBVIOUS
  <2>1. CASE UNCHANGED vars
    <3>1. /\ UNCHANGED <<requestVars, callerVars, gathering, batch, members, gate, dialog>>
          /\ UNCHANGED <<approved, why, pending, answered, pageVars>>
      BY <2>1 DEF vars, batchVars, panelVars
    <3> QED BY <3>1, PageKeeps DEF IInv, TypeOK, Ticked, pageVars
  <2>2. ASSUME NEW r \in Reqs, Ask(r) PROVE IInv'
    BY <2>2, AskKeeps
  <2>3. ASSUME NEW r \in Reqs, HangUp(r) PROVE IInv'
    BY <2>3, HangUpKeeps
  <2>4. ASSUME NEW b \in Reqs, BatchStep(b) \/ AnswerDialog(b) PROVE IInv'
    BY <2>4, BatchStepKeeps
  <2>5. ASSUME NEW s \in Servers, Flush(s) PROVE IInv'
    BY <2>5, FlushKeeps
  <2>6. CASE ResolveCliApproval
    BY <2>6, ResolveKeeps
  <2>7. CASE PageStep
    BY <2>7, PageStepKeeps
  <2>8. ASSUME NEW b \in Reqs, CancelPanel(b) PROVE IInv'
    BY <2>8, CancelKeeps
  <2> QED BY <2>1, <2>2, <2>3, <2>4, <2>5, <2>6, <2>7, <2>8 DEF Next
<1> QED BY <1>1, <1>2, PTL DEF Spec

-----------------------------------------------------------------------------
(* The safety properties *)

\* A request is allowed only if the user has ticked it on screen (app_cli.go,
\* app_approval_panel.go, ApprovalPanel.tsx), whatever panels, reloads, timeouts
\* and late answers came in between.
THEOREM OnlyTheUserAllows == Spec => []AllowedByUser
<1>1. IInv => AllowedByUser
  BY DEF IInv
<1> QED BY <1>1, Inductive, PTL

\* Types, and the gate: taken exactly when one batch has it (approvalGate).
THEOREM WellFormed == Spec => []Consistent
<1>1. IInv => Consistent
  <2> DEFINE Owners == {b \in Reqs : batch[b] \in Holding}
  <2> SUFFICES ASSUME IInv PROVE Cardinality(Owners) = IF gate THEN 1 ELSE 0
    BY DEF Consistent, GateBalanced, Holding, IInv
  <2>1. CASE gate
    <3>1. PICK b \in Reqs : batch[b] \in Holding
      BY <2>1 DEF IInv, GateSound
    <3>2. Owners = {b}
      BY <3>1 DEF IInv, GateSound
    <3> QED BY <2>1, <3>2, FS_Singleton
  <2>2. CASE ~gate
    <3>1. Owners = {}
      BY <2>2 DEF IInv, GateSound
    <3> QED BY <2>2, <3>1, FS_EmptySet
  <2>3. gate \in BOOLEAN
    BY DEF IInv, TypeOK
  <2> QED BY <2>1, <2>2, <2>3
<1> QED BY <1>1, Inductive, PTL

-----------------------------------------------------------------------------
(* Protected retries: the invariant *)

\* The handler's own variables: a command is only started for a request that
\* reached the handler.
ContractSound ==
    /\ starts \in [Calls -> {0, 1}]
    /\ verdict \in [Calls -> Verdicts \union {"none"}]
    /\ \A c \in Calls : starts[c] = 1 => c \in begun

\* A request that reached the handler is working, or its handler has returned or
\* panicked; its record is finished once the deferred function has run, too.
Phases ==
    \A c \in Calls :
        /\ c \in begun <=> pc[c] = "working" \/ answer[c] \in {"own", "aborted"}
        /\ c \in finished <=> answer[c] \in {"own", "aborted"} /\ pc[c] = "done"
        /\ answer[c] # "none" => pc[c] \in {"returned", "panicked", "done"}
        /\ pc[c] = "returned" => answer[c] = "own"
        /\ pc[c] = "panicked" => answer[c] = "aborted"

\* It is the record of its id until it expires.
Recorded ==
    \A c \in begun : entries[idOf[c]] = c \/ c \in expired

\* A duplicate waits for, or was given the result of, the same request.
Duplicates ==
    \A c \in Calls :
        /\ pc[c] = "waiting" \/ answer[c] = "replay" =>
              /\ waitsFor[c] \in begun
              /\ idOf[waitsFor[c]] = idOf[c]
              /\ payloadOf[waitsFor[c]] = payloadOf[c]
        /\ answer[c] = "replay" => waitsFor[c] \in retained

\* A result that is kept is that of a handler that returned, and no abandoned
\* request's.
RetainedSound == \A c \in retained : answer[c] = "own" /\ verdict[c] # "abandoned"

RetriesInv ==
    /\ RetriesTypeOK
    /\ ContractSound
    /\ Phases
    /\ Recorded
    /\ Duplicates
    /\ RetainedSound
-----------------------------------------------------------------------------
(* The steps of the middleware *)

\* What expiry leaves of the registry.
LEMMA ExpiryType ==
    ASSUME RetriesInv, NEW D \in Expirable, NEW c \in Calls
    PROVE  /\ Without(D) \in [Ids -> Calls \union {NoCall}]
           /\ \A i \in Ids : Without(D)[i] # NoCall =>
                 /\ i \notin D /\ Without(D)[i] = entries[i]
                 /\ idOf[entries[i]] = i /\ entries[i] \in begun \ expired
           /\ \A j \in D : j \in Ids /\ entries[j] \in finished
BY NoCallAssumption DEF Expirable, Live, Without, RetriesInv, RetriesTypeOK, NoCallAssumption

\* Expiry takes records out of the registry that are over, and no other.
LEMMA ExpirySound ==
    ASSUME RetriesInv, NEW D \in Expirable,
           expired' = expired \union {entries[j] : j \in D}
    PROVE  /\ expired' \in SUBSET finished
           /\ \A i \in Ids : Without(D)[i] # NoCall => Without(D)[i] \notin expired'
           /\ \A c \in begun : Without(D)[idOf[c]] = c \/ c \in expired'
<1>1. expired' \in SUBSET finished
  BY ExpiryType DEF RetriesInv, RetriesTypeOK, Expirable
<1>2. ASSUME NEW i \in Ids, Without(D)[i] # NoCall
      PROVE  Without(D)[i] \notin expired'
  <2> SUFFICES ASSUME NEW j \in D, entries[j] = Without(D)[i] PROVE FALSE
    BY <1>2 DEF RetriesInv, RetriesTypeOK, Expirable, Live, Without
  <2>1. j \in Ids /\ entries[j] # NoCall
    BY DEF Expirable, Live
  <2>2. i \notin D /\ entries[i] = Without(D)[i]
    BY <1>2 DEF Without
  <2>3. idOf[entries[j]] = j /\ idOf[entries[i]] = i
    BY <1>2, <2>1, <2>2 DEF RetriesInv, RetriesTypeOK
  <2> QED BY <2>2, <2>3
<1>3. ASSUME NEW c \in begun
      PROVE  Without(D)[idOf[c]] = c \/ c \in expired'
  BY DEF RetriesInv, RetriesTypeOK, Recorded, Without
<1> QED BY <1>1, <1>2, <1>3

\* A request that enters the registry: refused, told to wait for the record of
\* its id, or made the record.
LEMMA EnterInductive ==
    ASSUME RetriesInv, NoCallAssumption, NEW c \in Calls, Enter(c)
    PROVE  RetriesInv'
<1> DEFINE i == idOf[c]
<1>0. /\ i \in Ids /\ c \notin begun /\ c \notin finished /\ c # NoCall
      /\ answer[c] = "none" /\ pc[c] = "idle"
      /\ UNCHANGED <<idOf, payloadOf, finished, retained>>
  BY NoCallAssumption DEF RetriesInv, RetriesTypeOK, Phases, Enter, NoCallAssumption
<1>1. PICK D \in Expirable :
          /\ expired' = expired \union {entries[j] : j \in D}
          /\ \/ /\ entries' = Without(D) /\ UNCHANGED <<contractVars, waitsFor>>
                /\ \E a \in {"conflict", "capacity"} : Done(c, a)
             \/ /\ entries' = Without(D) /\ UNCHANGED <<contractVars, answer>>
                /\ Without(D)[i] # NoCall /\ SamePayload(c, Without(D)[i])
                /\ pc' = [pc EXCEPT ![c] = "waiting"]
                /\ waitsFor' = [waitsFor EXCEPT ![c] = Without(D)[i]]
             \/ /\ entries' = [Without(D) EXCEPT ![i] = c] /\ Begin(c)
                /\ Without(D)[i] = NoCall
                /\ pc' = [pc EXCEPT ![c] = "working"]
                /\ UNCHANGED <<waitsFor, answer>>
  BY DEF Enter
<1>2. /\ expired' \in SUBSET finished
      /\ Without(D) \in [Ids -> Calls \union {NoCall}]
      /\ \A j \in Ids : Without(D)[j] # NoCall =>
            /\ idOf[Without(D)[j]] = j
            /\ Without(D)[j] \in begun \ expired'
      /\ \A d \in begun : Without(D)[idOf[d]] = d \/ d \in expired'
  BY <1>1, ExpiryType, ExpirySound
<1>3. CASE /\ entries' = Without(D) /\ UNCHANGED <<contractVars, waitsFor>>
           /\ \E a \in {"conflict", "capacity"} : Done(c, a)
  <2>1. RetriesTypeOK'
    BY <1>0, <1>2, <1>3 DEF RetriesInv, RetriesTypeOK, Done, contractVars
  <2>2. Phases'
    BY <1>0, <1>3 DEF RetriesInv, RetriesTypeOK, Phases, Done, contractVars
  <2>3. ContractSound' /\ Recorded'
    BY <1>0, <1>2, <1>3 DEF RetriesInv, ContractSound, Recorded, contractVars
  <2>5. RetainedSound'
    BY <1>0, <1>3 DEF RetriesInv, RetriesTypeOK, RetainedSound, Done, contractVars
  <2>4. Duplicates'
    BY <1>0, <1>3 DEF RetriesInv, RetriesTypeOK, Duplicates, Done, contractVars
  <2> QED BY <2>1, <2>2, <2>3, <2>4, <2>5 DEF RetriesInv
<1>4. CASE /\ entries' = Without(D) /\ UNCHANGED <<contractVars, answer>>
           /\ Without(D)[i] # NoCall /\ SamePayload(c, Without(D)[i])
           /\ pc' = [pc EXCEPT ![c] = "waiting"]
           /\ waitsFor' = [waitsFor EXCEPT ![c] = Without(D)[i]]
  <2>1. RetriesTypeOK'
    BY <1>0, <1>2, <1>4 DEF RetriesInv, RetriesTypeOK, contractVars
  <2>2. Phases'
    BY <1>0, <1>4 DEF RetriesInv, RetriesTypeOK, Phases, contractVars
  <2>3. ContractSound' /\ Recorded' /\ RetainedSound'
    BY <1>0, <1>2, <1>4 DEF RetriesInv, ContractSound, Recorded, RetainedSound, contractVars
  <2>4. Duplicates'
    BY <1>0, <1>2, <1>4 DEF RetriesInv, RetriesTypeOK, Duplicates, SamePayload, contractVars
  <2> QED BY <2>1, <2>2, <2>3, <2>4 DEF RetriesInv
<1>5. CASE /\ entries' = [Without(D) EXCEPT ![i] = c] /\ Begin(c)
           /\ Without(D)[i] = NoCall
           /\ pc' = [pc EXCEPT ![c] = "working"]
           /\ UNCHANGED <<waitsFor, answer>>
  <2>0. begun' = begun \union {c} /\ UNCHANGED <<starts, verdict>> /\ c \notin expired'
    BY <1>0, <1>2, <1>5 DEF Begin
  <2>1. RetriesTypeOK'
    BY <1>0, <1>2, <1>5, <2>0 DEF RetriesInv, RetriesTypeOK
  <2>2. Phases'
    BY <1>0, <1>5, <2>0 DEF RetriesInv, RetriesTypeOK, Phases
  <2>3. ContractSound' /\ RetainedSound'
    BY <1>0, <1>5, <2>0 DEF RetriesInv, ContractSound, RetainedSound
  <2>4. Recorded'
    BY <1>0, <1>2, <1>5, <2>0 DEF RetriesInv, RetriesTypeOK, Recorded
  <2>5. Duplicates'
    BY <1>0, <1>5, <2>0 DEF RetriesInv, RetriesTypeOK, Duplicates
  <2> QED BY <2>1, <2>2, <2>3, <2>4, <2>5 DEF RetriesInv
<1> QED BY <1>1, <1>3, <1>4, <1>5

\* A duplicate gets its answer: the original's, or none.
LEMMA DuplicateInductive ==
    ASSUME RetriesInv, NEW c \in Calls, Replay(c) \/ StopWaiting(c)
    PROVE  RetriesInv'
<1>0. /\ pc[c] = "waiting" /\ c \notin begun /\ c \notin finished
      /\ UNCHANGED <<contractVars, idOf, payloadOf, waitsFor, registryVars>>
  BY DEF Replay, StopWaiting, RetriesInv, RetriesTypeOK, Phases
<1>1. PICK a \in {"replay", "unavailable", "gone"} :
          Done(c, a) /\ (a = "replay" => waitsFor[c] \in retained)
  BY DEF Replay, StopWaiting
<1>2. RetriesTypeOK'
  BY <1>0, <1>1 DEF RetriesInv, RetriesTypeOK, Done, contractVars, registryVars
<1>3. Phases'
  BY <1>0, <1>1 DEF RetriesInv, RetriesTypeOK, Phases, Done, contractVars, registryVars
<1>4. ContractSound' /\ Recorded'
  BY <1>0 DEF RetriesInv, ContractSound, Recorded, contractVars, registryVars
<1>5. Duplicates'
  BY <1>0, <1>1 DEF RetriesInv, RetriesTypeOK, Duplicates, Done, contractVars, registryVars
<1>6. RetainedSound'
  BY <1>0, <1>1 DEF RetriesInv, RetriesTypeOK, RetainedSound, Done, contractVars, registryVars
<1> QED BY <1>2, <1>3, <1>4, <1>5, <1>6 DEF RetriesInv

\* The handler ends, by returning or in a panic.
LEMMA HandlerEnds ==
    ASSUME RetriesInv, NEW c \in Calls, Return(c) \/ Panic(c)
    PROVE  RetriesInv'
<1>0. /\ pc[c] = "working" /\ c \in begun /\ answer[c] = "none" /\ c \notin retained
      /\ UNCHANGED <<contractVars, idOf, payloadOf, waitsFor, registryVars>>
  BY DEF Return, Panic, RetriesInv, RetriesTypeOK, Phases
<1>1. \/ pc' = [pc EXCEPT ![c] = "returned"] /\ answer' = [answer EXCEPT ![c] = "own"]
      \/ pc' = [pc EXCEPT ![c] = "panicked"] /\ answer' = [answer EXCEPT ![c] = "aborted"]
  BY DEF Return, Panic
<1>2. RetriesTypeOK'
  BY <1>0, <1>1 DEF RetriesInv, RetriesTypeOK, contractVars, registryVars
<1>3. Phases'
  BY <1>0, <1>1 DEF RetriesInv, RetriesTypeOK, Phases, contractVars, registryVars
<1>4. ContractSound' /\ Recorded' /\ RetainedSound'
  BY <1>0, <1>1 DEF RetriesInv, RetriesTypeOK, ContractSound, Recorded, RetainedSound, contractVars,
                    registryVars
<1>5. Duplicates'
  BY <1>0, <1>1 DEF RetriesInv, RetriesTypeOK, Duplicates, contractVars, registryVars
<1> QED BY <1>2, <1>3, <1>4, <1>5 DEF RetriesInv

\* The deferred function: the record is finished, with a result or without.
LEMMA FinishInductive ==
    ASSUME RetriesInv, NEW c \in Calls, FinishRecord(c)
    PROVE  RetriesInv'
<1>0. /\ pc[c] \in {"returned", "panicked"} /\ pc' = [pc EXCEPT ![c] = "done"]
      /\ finished' = finished \union {c}
      /\ retained' \in {retained, retained \union {c}}
      /\ retained' # retained => answer[c] = "own" /\ verdict[c] # "abandoned"
      /\ UNCHANGED <<contractVars, idOf, payloadOf, waitsFor, entries, expired, answer>>
  BY DEF FinishRecord, Keepable, RetriesInv, Phases
<1>1. c \in begun /\ answer[c] \in {"own", "aborted"}
  BY <1>0 DEF RetriesInv, Phases
<1>2. RetriesTypeOK'
  BY <1>0, <1>1 DEF RetriesInv, RetriesTypeOK, contractVars
<1>3. Phases'
  BY <1>0, <1>1 DEF RetriesInv, RetriesTypeOK, Phases, contractVars
<1>4. ContractSound' /\ Recorded' /\ RetainedSound'
  BY <1>0 DEF RetriesInv, ContractSound, Recorded, RetainedSound, contractVars
<1>5. Duplicates'
  BY <1>0 DEF RetriesInv, RetriesTypeOK, Duplicates, contractVars
<1> QED BY <1>2, <1>3, <1>4, <1>5 DEF RetriesInv

\* The handler, or its job, starts the command or reports on it.
LEMMA HandlerInductive ==
    ASSUME RetriesInv, NEW c \in Calls, HandlerStep(c)
    PROVE  RetriesInv'
<1>0. /\ c \in begun
      /\ UNCHANGED <<begun, idOf, payloadOf, pc, waitsFor, registryVars, answer>>
  BY DEF HandlerStep, Start, Report
<1>1. /\ starts' \in [Calls -> {0, 1}]
      /\ \A d \in Calls : starts'[d] = 1 => d \in begun
  BY <1>0 DEF HandlerStep, Start, Report, RetriesInv, ContractSound
<1>2. /\ verdict' \in [Calls -> Verdicts \union {"none"}]
      /\ \A d \in Calls \ {c} : verdict'[d] = verdict[d]
  BY DEF HandlerStep, Start, Report, RetriesInv, ContractSound
<1>3. \A d \in retained : pc[d] # "working"
  BY DEF RetriesInv, RetriesTypeOK, Phases
<1>4. ASSUME NEW d \in retained
      PROVE  verdict'[d] # "abandoned"
  <2>1. d \in Calls /\ verdict[d] # "abandoned" /\ pc[d] # "working"
    BY <1>3 DEF RetriesInv, RetriesTypeOK, RetainedSound
  <2>2. CASE d = c
    <3>1. verdict'[c] \notin {"refused", "abandoned", "unconnected", "failed_start"}
      BY <2>1, <2>2 DEF HandlerStep
    <3> QED BY <2>2, <3>1
  <2>3. CASE d # c
    BY <1>2, <2>1, <2>3
  <2> QED BY <2>2, <2>3
<1>5. RetriesTypeOK' /\ Phases' /\ Recorded' /\ Duplicates'
  BY <1>0 DEF RetriesInv, RetriesTypeOK, Phases, Recorded, Duplicates, registryVars
<1>6. ContractSound' /\ RetainedSound'
  BY <1>0, <1>1, <1>2, <1>4 DEF RetriesInv, ContractSound, RetainedSound, registryVars
<1> QED BY <1>5, <1>6 DEF RetriesInv

\* The inductive invariant of the protected retries.
THEOREM RetriesInductive == RetriesSpec => []RetriesInv
<1>1. RetriesInit => RetriesInv
  <2> SUFFICES ASSUME RetriesInit PROVE RetriesInv
    OBVIOUS
  <2>1. RetriesTypeOK /\ Phases
    BY DEF RetriesInit, CInit, RetriesTypeOK, Phases
  <2>2. ContractSound /\ Recorded /\ Duplicates /\ RetainedSound
    BY DEF RetriesInit, CInit, ContractSound, Recorded, Duplicates, RetainedSound
  <2> QED BY <2>1, <2>2 DEF RetriesInv
<1>2. RetriesInv /\ [RetriesNext]_retryVars => RetriesInv'
  <2> SUFFICES ASSUME RetriesInv, [RetriesNext]_retryVars PROVE RetriesInv'
    OBVIOUS
  <2>1. CASE UNCHANGED retryVars
    BY <2>1 DEF retryVars, contractVars, registryVars, RetriesInv, RetriesTypeOK, ContractSound, Phases,
                Recorded, Duplicates, RetainedSound
  <2>2. ASSUME NEW c \in Calls, Enter(c) PROVE RetriesInv'
    BY <2>2, NoCallAssumption, EnterInductive
  <2>3. ASSUME NEW c \in Calls, Replay(c) \/ StopWaiting(c) PROVE RetriesInv'
    BY <2>3, DuplicateInductive
  <2>4. ASSUME NEW c \in Calls, Return(c) \/ Panic(c) PROVE RetriesInv'
    BY <2>4, HandlerEnds
  <2>5. ASSUME NEW c \in Calls, FinishRecord(c) PROVE RetriesInv'
    BY <2>5, FinishInductive
  <2>6. ASSUME NEW c \in Calls, HandlerStep(c) PROVE RetriesInv'
    BY <2>6, HandlerInductive
  <2> QED BY <2>1, <2>2, <2>3, <2>4, <2>5, <2>6 DEF RetriesNext
<1> QED BY <1>1, <1>2, PTL DEF RetriesSpec

-----------------------------------------------------------------------------
(* The safety properties *)

\* Of the requests with one id, one is executed until its record, then finished,
\* expires: two that reached the handler cannot both be the id's record
\* (deduplicateCliExec).
THEOREM ExecutedAtMostOnce == RetriesSpec => []AtMostOnce
<1>1. RetriesInv => AtMostOnce
  <2> SUFFICES ASSUME RetriesInv, NEW c \in Calls, NEW d \in Calls, c # d,
                      idOf[c] = idOf[d], starts[c] > 0, starts[d] > 0
               PROVE  {c, d} \intersect (finished \intersect expired) # {}
    BY DEF AtMostOnce
  <2>1. c \in begun /\ d \in begun
    BY DEF RetriesInv, ContractSound
  <2>2. c \in expired \/ d \in expired
    BY <2>1 DEF RetriesInv, Recorded
  <2> QED BY <2>2 DEF RetriesInv, RetriesTypeOK
<1> QED BY <1>1, RetriesInductive, PTL

\* The registry is well formed, and what a duplicate is given is the result of
\* the original: same id, same payload, a handler that came to its end.
THEOREM RetriesWellFormed == RetriesSpec => []RetriesConsistent
<1>1. RetriesInv => RetriesConsistent
  <2> SUFFICES ASSUME RetriesInv, NEW c \in Calls, answer[c] = "replay"
               PROVE  /\ idOf[waitsFor[c]] = idOf[c]
                      /\ payloadOf[waitsFor[c]] = payloadOf[c]
                      /\ answer[waitsFor[c]] = "own"
                      /\ verdict[waitsFor[c]] # "abandoned"
    BY DEF RetriesConsistent, ReplayIsOriginal, RetriesInv
  <2> QED BY DEF RetriesInv, RetriesTypeOK, Phases, Duplicates, RetainedSound
<1> QED BY <1>1, RetriesInductive, PTL
=============================================================================
