------------------------- MODULE TabSessionsProofs -------------------------
(***************************************************************************)
(* Proofs about TabSessions for any sets of profiles and any bounds: the   *)
(* page's records agree with each other and with the sessions the backend  *)
(* has opened, no remote session has two tabs, nobody but the user takes   *)
(* the focus from a tab the user chose, and a running session is shown     *)
(* running once everything has been answered.                              *)
(***************************************************************************)
EXTENDS TabSessions, SequenceTheorems, FiniteSetTheorems, FunctionTheorems, TLAPS

\* Who has been opened once; ids of sessions still to come name nothing.
Opened(s) == s \in Ids /\ bstate[s] # "new"

TabStates == {"connecting", "connected", "reconnecting", "disconnected", "error"}
TabRecords == [id : Ids, p : Profiles, st : TabStates]
EventTypes == {"connecting", "connected", "error", "disconnected", "cli", "recovering", "replaced"}
Events == [type : EventTypes, old : {0} \union Ids]
Requests == [kind : {"open", "local", "reuse", "manual", "auto", "close"}, p : Profiles,
             tab : {0} \union Ids, pre : BOOLEAN,
             st : {"connect", "wait", "refused", "reconnect", "missing", "ask", "close", "closed"},
             got : {0} \union Ids, byClose : BOOLEAN]

\* The backend: only opened sessions send events or are replaced, and a session
\* replaces one of its own profile.
BackendSound ==
    /\ profile \in [Ids -> Profiles]
    /\ bstate \in [Ids -> {"new", "opening", "live", "ended", "failed"}]
    /\ queue \in [Ids -> Seq(Events)]
    /\ \A s \in Ids : queue[s] # <<>> => Opened(s)
    /\ \A s \in Ids : \A i \in DOMAIN queue[s] : queue[s][i].old # 0 =>
           Opened(queue[s][i].old) /\ profile[queue[s][i].old] = profile[s]
    /\ \A s \in stale : Opened(s)

\* A tab names a session that was opened, and that session's profile; no two
\* tabs name the same remote session.
Shows(items) ==
    /\ items \in Seq(TabRecords)
    /\ \A i \in DOMAIN items : Opened(items[i].id) /\ items[i].p = profile[items[i].id]
    /\ \A i, j \in DOMAIN items : items[i].id = items[j].id /\ items[i].p # Local => i = j

OfTab == {"reuse", "manual", "auto", "close"}

\* What an awaiting call remembers of a tab and of its answer is still so.
CallsSound ==
    /\ calls \in [Slots -> {NoCall} \union Requests]
    /\ \A n \in Slots : calls[n] # NoCall =>
          /\ calls[n].st = "wait" => Opened(calls[n].got) /\ profile[calls[n].got] = calls[n].p
          /\ calls[n].kind \in OfTab => Opened(calls[n].tab) /\ profile[calls[n].tab] = calls[n].p
          /\ calls[n].kind = "local" => calls[n].p = Local

\* A profile being created is so by an open of that profile.
CreatingSound ==
    /\ creating \in [Profiles -> {0} \union Slots]
    /\ \A p \in Profiles : creating[p] # 0 =>
          calls[creating[p]].kind = "open" /\ calls[creating[p]].p = p

\* A timer runs only for an attempt that is left.
AttemptsOK(table) ==
    /\ table \in [Ids -> [att : 0..AutoReconnectMax, st : {"none", "idle", "timer", "flight", "gaveup"},
                          call : {0} \union Slots]]
    /\ \A id \in Ids : table[id].st = "timer" => table[id].att < AutoReconnectMax

PageSound ==
    /\ active \in {0} \union Ids
    /\ closedTabs \in Seq([id : Ids, p : Profiles])
    /\ AttemptsOK(auto)
    /\ \A s \in DOMAIN listed : Opened(s) /\ listed[s] \in {"connected", "connecting"}
    /\ moves \in Nat

IInv == BackendSound /\ Shows(tabs) /\ CallsSound /\ CreatingSound /\ PageSound

-----------------------------------------------------------------------------
(* The model's operators *)

\* Counting the members up to one of them numbers a finite set of numbers.
LEMMA Numbered ==
    ASSUME NEW T \in SUBSET Nat, IsFiniteSet(T), NEW k \in 1..Cardinality(T)
    PROVE  \E i \in T : Cardinality({j \in T : j <= i}) = k
<1> DEFINE upto(i) == {j \in T : j <= i}
           rank == [i \in T |-> Cardinality(upto(i))]
           N == 1..Cardinality(T)
<1>1. Cardinality(T) \in Nat
  BY FS_CardinalityType
<1>2. \A i \in T : IsFiniteSet(upto(i)) /\ Cardinality(upto(i)) \in N
  <2> TAKE i \in T
  <2>1. upto(i) \in SUBSET T /\ i \in upto(i)
    OBVIOUS
  <2>2. /\ IsFiniteSet(upto(i)) /\ Cardinality(upto(i)) \in Nat
        /\ Cardinality(upto(i)) <= Cardinality(T)
    BY <1>1, <2>1, FS_Subset, FS_CardinalityType
  <2>3. Cardinality(upto(i)) # 0
    BY <2>1, <2>2, FS_EmptySet
  <2> QED BY <1>1, <2>2, <2>3
<1>3. \A i, j \in T : i < j => Cardinality(upto(i)) < Cardinality(upto(j))
  <2> SUFFICES ASSUME NEW i \in T, NEW j \in T, i < j
               PROVE  Cardinality(upto(i)) < Cardinality(upto(j))
    OBVIOUS
  <2>1. upto(i) \in SUBSET upto(j) /\ j \in upto(j) /\ j \notin upto(i)
    <3>1. i \in Nat /\ j \in Nat /\ \A l \in T : l \in Nat
      OBVIOUS
    <3>2. j <= j /\ ~(j <= i) /\ \A l \in T : l <= i => l <= j
      BY <3>1
    <3>3. \A l \in upto(i) : l \in upto(j)
      BY <3>2
    <3>4. j \in upto(j) /\ j \notin upto(i)
      BY <3>2
    <3> QED BY <3>3, <3>4
  <2>2. /\ Cardinality(upto(i)) <= Cardinality(upto(j))
        /\ Cardinality(upto(i)) = Cardinality(upto(j)) => upto(i) = upto(j)
    BY <1>2, <2>1, FS_Subset
  <2> QED BY <1>2, <2>1, <2>2
<1>4. rank \in Injection(T, N)
  <2>1. rank \in [T -> N]
    BY <1>2
  <2>2. ASSUME NEW i \in T, NEW j \in T, rank[i] = rank[j] PROVE i = j
    <3>1. i \in Nat /\ j \in Nat /\ Cardinality(upto(i)) = Cardinality(upto(j))
      BY <2>2
    <3>2. Cardinality(upto(i)) \in Nat
      BY <1>2
    <3>3. ~(i < j) /\ ~(j < i)
      BY <1>3, <3>1, <3>2
    <3> QED BY <3>1, <3>3
  <2> QED BY <2>1, <2>2, Fun_IsInj
<1>5. IsFiniteSet(N) /\ Cardinality(N) = Cardinality(T)
  BY <1>1, FS_Interval
<1>6. rank \in Surjection(T, N)
  BY <1>4, <1>5, FS_Injection
<1>7. \A n \in N : \E i \in T : rank[i] = n
  <2> HIDE DEF rank, N
  <2> QED BY <1>6, Fun_SurjectionProperties, Zenon
<1> QED BY <1>7

\* What Kept returns: items of the given positions, each from another one.
LEMMA KeptItems ==
    ASSUME NEW S, NEW items \in Seq(S), NEW kept \in SUBSET DOMAIN items
    PROVE  /\ Kept(items, kept) \in Seq(S)
           /\ \E from \in [DOMAIN Kept(items, kept) -> kept] :
                 /\ \A k \in DOMAIN Kept(items, kept) : Kept(items, kept)[k] = items[from[k]]
                 /\ \A k, m \in DOMAIN Kept(items, kept) : from[k] = from[m] => k = m
<1> DEFINE result == Kept(items, kept)
           count(i) == Cardinality({j \in kept : j <= i})
           at(k) == CHOOSE i \in kept : count(i) = k
           from == [k \in 1..Cardinality(kept) |-> at(k)]
<1>1. kept \in SUBSET Nat /\ IsFiniteSet(kept) /\ Cardinality(kept) \in Nat
  <2>1. DOMAIN items = 1..Len(items) /\ Len(items) \in Nat
    OBVIOUS
  <2>2. IsFiniteSet(1..Len(items))
    BY <2>1, FS_Interval
  <2> QED BY <2>1, <2>2, FS_Subset, FS_CardinalityType
<1>2. \A k \in 1..Cardinality(kept) : at(k) \in kept /\ count(at(k)) = k
  BY <1>1, Numbered
<1>3. result = [k \in 1..Cardinality(kept) |-> items[at(k)]]
  BY DEF Kept
<1> HIDE DEF result, count, at
<1>4. DOMAIN result = 1..Cardinality(kept) /\ \A k \in DOMAIN result : result[k] = items[from[k]]
  BY <1>3
<1>5. \A i \in kept : items[i] \in S
  OBVIOUS
<1>6. result \in Seq(S)
  <2>1. result \in [1..Cardinality(kept) -> S]
    BY <1>2, <1>3, <1>5
  <2> QED BY <1>1, <2>1, SeqDef
<1>7. from \in [DOMAIN result -> kept]
  BY <1>2, <1>4
<1>8. ASSUME NEW k \in DOMAIN result, NEW m \in DOMAIN result, from[k] = from[m] PROVE k = m
  <2>1. at(k) = at(m)
    BY <1>4, <1>8
  <2> QED BY <1>2, <1>4, <2>1
<1> HIDE DEF from
<1> QED BY <1>4, <1>6, <1>7, <1>8 DEF result

\* A finite set of numbers has a least one.
LEMMA LeastOne ==
    ASSUME NEW T \in SUBSET Nat, IsFiniteSet(T), T # {}
    PROVE  \E s \in T : \A t \in T : s <= t
<1>1. Cardinality(T) \in Nat /\ Cardinality(T) # 0
  BY FS_CardinalityType, FS_EmptySet
<1>2. PICK s \in T : Cardinality({j \in T : j <= s}) = 1
  BY <1>1, Numbered
<1>3. ASSUME NEW t \in T, t < s PROVE FALSE
  <2> DEFINE U == {j \in T : j <= s}
  <2>1. U \in SUBSET T /\ IsFiniteSet(U)
    <3>1. U \in SUBSET T
      OBVIOUS
    <3> QED BY <3>1, FS_Subset
  <2>2. {t, s} \in SUBSET U
    BY <1>3
  <2>3. Cardinality({t, s}) <= Cardinality(U)
    BY <2>1, <2>2, FS_Subset
  <2>4. Cardinality({t, s}) = 2
    <3>1. {t} \union {s} = {t, s} /\ s \notin {t}
      BY <1>3
    <3>2. IsFiniteSet({t}) /\ Cardinality({t}) = 1
      BY FS_Singleton
    <3> QED BY <3>1, <3>2, FS_AddElement
  <2> QED BY <1>2, <2>3, <2>4
<1> QED BY <1>3

\* The next session the backend opens is the first that was not yet opened.
LEMMA NewestUnused ==
    ASSUME BoundsAssumption, Unused # {}
    PROVE  Newest \in Unused /\ \A t \in Unused : Newest <= t
<1>1. Unused \in SUBSET Nat /\ Unused \in SUBSET Ids
  BY DEF Unused, Ids
<1>2. MaxSessions \in Nat
  BY DEF BoundsAssumption
<1>3. IsFiniteSet(Unused)
  <2>1. IsFiniteSet(1..MaxSessions)
    BY <1>2, FS_Interval
  <2> QED BY <1>1, <2>1, FS_Subset DEF Ids
<1>4. \E s \in Unused : \A t \in Unused : s <= t
  BY <1>1, <1>3, LeastOne
<1> QED BY <1>4 DEF Newest

-----------------------------------------------------------------------------
(* The tab strip *)

\* Changing the state of tabs leaves each where it was.
LEMMA MarkedShows ==
    ASSUME NEW items, Shows(items), NEW ids, NEW st \in TabStates
    PROVE  /\ Shows(Marked(items, ids, st))
           /\ DOMAIN Marked(items, ids, st) = DOMAIN items
           /\ \A i \in DOMAIN items : Marked(items, ids, st)[i].id = items[i].id
<1> DEFINE M == Marked(items, ids, st)
<1>1. items \in Seq(TabRecords) /\ DOMAIN items = 1..Len(items) /\ Len(items) \in Nat
  BY DEF Shows
<1>2. M = [i \in 1..Len(items) |-> IF items[i].id \in ids THEN [items[i] EXCEPT !.st = st] ELSE items[i]]
  BY <1>1 DEF Marked
<1> HIDE DEF M
<1>3. \A i \in 1..Len(items) : /\ M[i] \in TabRecords
                               /\ M[i].id = items[i].id /\ M[i].p = items[i].p
  <2> TAKE i \in 1..Len(items)
  <2>1. items[i] \in TabRecords
    BY <1>1
  <2> QED BY <1>2, <2>1 DEF TabRecords
<1>4. M \in Seq(TabRecords)
  <2>1. M \in [1..Len(items) -> TabRecords]
    BY <1>2, <1>3
  <2> QED BY <1>1, <2>1, SeqDef
<1>5. DOMAIN M = DOMAIN items
  BY <1>1, <1>2
<1>6. Shows(M)
  BY <1>1, <1>3, <1>4, <1>5 DEF Shows
<1> QED BY <1>1, <1>3, <1>5, <1>6 DEF M

\* A tab added for a session without one, or for a local terminal.
LEMMA AppendShows ==
    ASSUME NEW items, Shows(items), NEW s, Opened(s), NEW st \in TabStates,
           profile \in [Ids -> Profiles],
           profile[s] = Local \/ \A i \in DOMAIN items : items[i].id # s
    PROVE  Shows(Append(items, Tab(s, st)))
<1> DEFINE A == Append(items, Tab(s, st))
           N == Len(items) + 1
<1>1. items \in Seq(TabRecords) /\ DOMAIN items = 1..Len(items) /\ Len(items) \in Nat
  BY DEF Shows
<1>2. Tab(s, st) \in TabRecords /\ Tab(s, st).id = s /\ Tab(s, st).p = profile[s]
  BY DEF Tab, TabRecords, Opened
<1>3. A \in Seq(TabRecords) /\ DOMAIN A = 1..N /\ A[N] = Tab(s, st)
  BY <1>1, <1>2
<1>4. \A i \in 1..N : i = N \/ (i \in DOMAIN items /\ A[i] = items[i])
  BY <1>1
<1> HIDE DEF A
<1>5. \A i \in DOMAIN A : Opened(A[i].id) /\ A[i].p = profile[A[i].id]
  BY <1>2, <1>3, <1>4 DEF Shows
<1>6. ASSUME NEW i \in DOMAIN A, NEW j \in DOMAIN A, A[i].id = A[j].id, A[i].p # Local
      PROVE  i = j
  BY <1>2, <1>3, <1>4, <1>6 DEF Shows
<1>7. Shows(A)
  BY <1>3, <1>5, <1>6 DEF Shows
<1> QED BY <1>7 DEF A

\* Removing tabs.
LEMMA KeptShows ==
    ASSUME NEW items, Shows(items), NEW kept \in SUBSET DOMAIN items
    PROVE  /\ Shows(Kept(items, kept))
           /\ \A k \in DOMAIN Kept(items, kept) : \E i \in kept : Kept(items, kept)[k] = items[i]
<1> DEFINE K == Kept(items, kept)
<1>1. items \in Seq(TabRecords)
  BY DEF Shows
<1>2. K \in Seq(TabRecords)
  BY <1>1, KeptItems
<1>3. PICK from \in [DOMAIN K -> kept] : /\ \A k \in DOMAIN K : K[k] = items[from[k]]
                                       /\ \A k, m \in DOMAIN K : from[k] = from[m] => k = m
  BY <1>1, KeptItems
<1> HIDE DEF K
<1>4. \A k \in DOMAIN K : from[k] \in kept /\ from[k] \in DOMAIN items
  BY <1>3
<1>5. Shows(K)
  BY <1>2, <1>3, <1>4 DEF Shows
<1> QED BY <1>3, <1>4, <1>5 DEF K

\* A tab takes over a session of the same profile.
LEMMA ReplacedShows ==
    ASSUME NEW items, Shows(items), NEW old, NEW new, Opened(new),
           profile \in [Ids -> Profiles],
           \A i \in DOMAIN items : items[i].id = old => profile[new] = profile[old]
    PROVE  /\ Shows(Replaced(items, old, new))
           /\ (\A i \in DOMAIN items : items[i].id # old) =>
                 \A i \in DOMAIN Replaced(items, old, new) : Replaced(items, old, new)[i].id # new
<1> DEFINE kept == {i \in DOMAIN items : items[i].id # new \/ items[i].id = old}
           K == Kept(items, kept)
           R == Replaced(items, old, new)
<1>1. Shows(K) /\ \A k \in DOMAIN K : \E i \in kept : K[k] = items[i]
  <2>1. kept \in SUBSET DOMAIN items
    OBVIOUS
  <2> HIDE DEF kept
  <2> QED BY <2>1, KeptShows
<1>2. R = [i \in DOMAIN K |-> IF K[i].id = old THEN Tab(new, "connected") ELSE K[i]]
  BY DEF Replaced
<1>3. \A k \in DOMAIN K : \E i \in DOMAIN items : K[k] = items[i] /\ (items[i].id # new \/ items[i].id = old)
  BY <1>1
<1> HIDE DEF kept, K, R
<1>4. K \in Seq(TabRecords) /\ DOMAIN K = 1..Len(K) /\ Len(K) \in Nat
  BY <1>1 DEF Shows
<1>5. /\ Tab(new, "connected") \in TabRecords
      /\ Tab(new, "connected").id = new /\ Tab(new, "connected").p = profile[new]
  BY DEF Tab, TabRecords, TabStates, Opened
<1>6. DOMAIN R = DOMAIN K /\ R \in Seq(TabRecords)
  <2>1. \A i \in 1..Len(K) : R[i] \in TabRecords
    BY <1>2, <1>4, <1>5
  <2>2. R \in [1..Len(K) -> TabRecords]
    BY <1>2, <1>4, <2>1
  <2> QED BY <1>2, <1>4, <2>2, SeqDef
<1>7. \A i \in DOMAIN R : Opened(R[i].id) /\ R[i].p = profile[R[i].id]
  BY <1>1, <1>2, <1>5, <1>6 DEF Shows
<1>8. \A i \in DOMAIN K : /\ K[i].p = profile[K[i].id] /\ (K[i].id # new \/ K[i].id = old)
                         /\ (K[i].id = old => profile[new] = profile[old])
  BY <1>1, <1>3 DEF Shows
<1>9. ASSUME NEW i \in DOMAIN R, NEW j \in DOMAIN R, R[i].id = R[j].id, R[i].p # Local
      PROVE  i = j
  <2>1. i \in DOMAIN K /\ j \in DOMAIN K /\ R[j].p # Local
    BY <1>6, <1>7, <1>9
  <2>2. \A k \in {i, j} : \/ K[k].id = old /\ R[k].id = new /\ K[k].p = R[k].p
                          \/ K[k].id # old /\ K[k].id # new /\ R[k].id = K[k].id /\ R[k].p = K[k].p
    <3> SUFFICES ASSUME NEW k \in DOMAIN K 
                 PROVE  \/ K[k].id = old /\ R[k].id = new /\ K[k].p = R[k].p
                        \/ K[k].id # old /\ K[k].id # new /\ R[k].id = K[k].id /\ R[k].p = K[k].p
      BY <2>1
    <3>1. CASE K[k].id = old
      <4>1. R[k] = Tab(new, "connected")
        BY <1>2, <3>1
      <4> QED BY <1>5, <1>8, <3>1, <4>1
    <3>2. CASE K[k].id # old
      <4>1. R[k] = K[k]
        BY <1>2, <3>2
      <4> QED BY <1>8, <3>2, <4>1
    <3> QED BY <3>1, <3>2
  <2>3. K[i].id = K[j].id /\ K[i].p # Local
    BY <1>9, <2>2
  <2> QED BY <1>1, <2>1, <2>3 DEF Shows
<1>10. Shows(R)
  BY <1>6, <1>7, <1>9 DEF Shows
<1>11. ASSUME \A i \in DOMAIN items : items[i].id # old, NEW i \in DOMAIN R PROVE R[i].id # new
  BY <1>2, <1>3, <1>6, <1>11
<1> QED BY <1>10, <1>11 DEF R

\* Two strips without a session in common are put together.
LEMMA JoinedShows ==
    ASSUME NEW A, NEW B, Shows(A), Shows(B),
           \A i \in DOMAIN A, j \in DOMAIN B : A[i].id # B[j].id
    PROVE  Shows(A \o B)
<1> DEFINE J == A \o B
<1>1. /\ A \in Seq(TabRecords) /\ B \in Seq(TabRecords)
      /\ Len(A) \in Nat /\ Len(B) \in Nat
      /\ DOMAIN A = 1..Len(A) /\ DOMAIN B = 1..Len(B)
  BY DEF Shows
<1>2. J \in Seq(TabRecords) /\ DOMAIN J = 1..(Len(A) + Len(B))
  BY <1>1
<1>3. \A i \in DOMAIN J : \/ i \in DOMAIN A /\ J[i] = A[i]
                          \/ i > Len(A) /\ i - Len(A) \in DOMAIN B /\ J[i] = B[i - Len(A)]
  BY <1>1, <1>2
<1> HIDE DEF J
<1>4. \A i \in DOMAIN J : Opened(J[i].id) /\ J[i].p = profile[J[i].id]
  BY <1>3 DEF Shows
<1>5. ASSUME NEW i \in DOMAIN J, NEW j \in DOMAIN J, J[i].id = J[j].id, J[i].p # Local
      PROVE  i = j
  <2>1. CASE i \in DOMAIN A /\ J[i] = A[i]
    <3>1. j \in DOMAIN A /\ J[j] = A[j]
      BY <1>3, <1>5, <2>1
    <3> QED BY <1>5, <2>1, <3>1 DEF Shows
  <2>2. CASE i > Len(A) /\ i - Len(A) \in DOMAIN B /\ J[i] = B[i - Len(A)]
    <3>1. j > Len(A) /\ j - Len(A) \in DOMAIN B /\ J[j] = B[j - Len(A)]
      BY <1>3, <1>5, <2>2
    <3>2. i - Len(A) = j - Len(A)
      BY <1>5, <2>2, <3>1 DEF Shows
    <3> QED BY <1>1, <1>2, <3>2
  <2> QED BY <1>3, <2>1, <2>2
<1>6. Shows(J)
  BY <1>2, <1>4, <1>5 DEF Shows
<1> QED BY <1>6 DEF J

\* Tabs change places.
LEMMA MovedShows ==
    ASSUME Shows(tabs), NEW i \in DOMAIN tabs, NEW j \in DOMAIN tabs, ReorderTabs(i, j),
           UNCHANGED <<profile, bstate>>
    PROVE  Shows(tabs)'
<1> DEFINE at(k) == IF k = j THEN i ELSE IF i <= k /\ k < j THEN k + 1
                    ELSE IF j < k /\ k <= i THEN k - 1 ELSE k
<1>1. tabs \in Seq(TabRecords) /\ DOMAIN tabs = 1..Len(tabs) /\ Len(tabs) \in Nat
  BY DEF Shows
<1>2. \A k \in DOMAIN tabs : at(k) \in DOMAIN tabs
  BY <1>1
<1>3. \A k, m \in DOMAIN tabs : at(k) = at(m) => k = m
  BY <1>1
<1>4. tabs' = [k \in 1..Len(tabs) |-> tabs[at(k)]]
  BY <1>1 DEF ReorderTabs
<1> HIDE DEF at
<1>5. DOMAIN tabs' = DOMAIN tabs /\ \A k \in DOMAIN tabs : tabs'[k] = tabs[at(k)]
  BY <1>1, <1>4
<1>6. tabs' \in Seq(TabRecords)
  <2>1. \A k \in 1..Len(tabs) : tabs[at(k)] \in TabRecords
    BY <1>1, <1>2
  <2>2. tabs' \in [1..Len(tabs) -> TabRecords]
    BY <1>4, <2>1
  <2> QED BY <1>1, <2>2, SeqDef
<1> QED BY <1>2, <1>3, <1>5, <1>6 DEF Shows, Opened

-----------------------------------------------------------------------------
(* What every step leaves true of sessions that were opened *)

Lasting == \A s \in Ids : Opened(s) => bstate'[s] # "new" /\ profile'[s] = profile[s]

\* So what is shown stays right,
LEMMA ShowsLasts ==
    ASSUME NEW items, Shows(items), Lasting, tabs' = items
    PROVE  Shows(tabs)'
BY DEF Shows, Lasting, Opened

\* and what a call remembers, which ends,
LEMMA CallsLast ==
    ASSUME CallsSound, Lasting, calls' \in [Slots -> {NoCall} \union Requests],
           \A n \in Slots : \/ calls'[n] = NoCall
                            \/ /\ calls[n] # NoCall
                               /\ calls'[n].kind = calls[n].kind /\ calls'[n].p = calls[n].p
                               /\ calls'[n].tab = calls[n].tab
                               /\ \/ calls'[n].st # "wait"
                                  \/ calls'[n].st = calls[n].st /\ calls'[n].got = calls[n].got
    PROVE  CallsSound'
<1> SUFFICES ASSUME NEW n \in Slots, calls'[n] # NoCall
             PROVE  /\ calls'[n].st = "wait" => /\ Opened(calls[n].got)'
                                               /\ profile'[calls'[n].got] = calls'[n].p
                    /\ calls'[n].kind \in OfTab => /\ Opened(calls[n].tab)'
                                                  /\ profile'[calls'[n].tab] = calls'[n].p
                    /\ calls'[n].kind = "local" => calls'[n].p = Local
  BY DEF CallsSound
<1> QED BY DEF CallsSound, Lasting, Opened

\* goes on,
LEMMA CallMoves ==
    ASSUME CallsSound, Lasting, NEW n \in Slots, calls[n] # NoCall, 
           NEW st \in {"connect", "refused", "missing", "closed"},
           calls' = [calls EXCEPT ![n].st = st]
    PROVE  CallsSound' /\ \A m \in Slots : calls'[m].kind = calls[m].kind /\ calls'[m].p = calls[m].p
<1>1. \A m \in Slots : calls[m] \in {NoCall} \union Requests
  BY DEF CallsSound
<1>2. calls' = [m \in Slots |-> IF m = n THEN [calls[m] EXCEPT !.st = st] ELSE calls[m]]
  BY DEF CallsSound
<1>3. [calls[n] EXCEPT !.st = st] \in Requests
  BY <1>1 DEF Requests
<1>4. calls' \in [Slots -> {NoCall} \union Requests]
  BY <1>1, <1>2, <1>3
<1>5. /\ calls'[n].kind = calls[n].kind /\ calls'[n].p = calls[n].p
      /\ calls'[n].tab = calls[n].tab /\ calls'[n].st = st
  BY <1>1, <1>2 DEF Requests
<1> QED BY <1>2, <1>4, <1>5, CallsLast

\* ends,
LEMMA CallEnds ==
    ASSUME CallsSound, Lasting, NEW n \in Slots, Finish(n)
    PROVE  CallsSound' /\ \A m \in Slots : calls'[m] = IF m = n THEN NoCall ELSE calls[m]
<1>1. \A m \in Slots : calls'[m] = IF m = n THEN NoCall ELSE calls[m]
  BY DEF CallsSound, Finish
<1>2. calls' \in [Slots -> {NoCall} \union Requests]
  BY DEF CallsSound, Finish
<1> QED BY <1>1, <1>2, CallsLast

\* or begins.
LEMMA CallBegins ==
    ASSUME CallsSound, Lasting, NEW n \in Slots, 
           NEW kind \in {"open", "local", "reuse", "manual", "auto", "close"}, NEW p \in Profiles,
           NEW tab \in {0} \union Ids, NEW pre \in BOOLEAN, NEW st \in {"connect", "reconnect", "ask"},
           kind \in OfTab => Opened(tab) /\ profile[tab] = p,
           kind = "local" => p = Local,
           Begin(n, kind, p, tab, pre, st)
    PROVE  /\ CallsSound' /\ calls[n] = NoCall
           /\ \A m \in Slots : m # n => calls'[m] = calls[m]
           /\ calls'[n].kind = kind /\ calls'[n].p = p
<1> DEFINE new == [kind |-> kind, p |-> p, tab |-> tab, pre |-> pre, st |-> st,
                   got |-> 0, byClose |-> FALSE]
<1>1. calls[n] = NoCall /\ calls' = [calls EXCEPT ![n] = new]
  BY DEF Begin, Free
<1>2. new \in Requests
  BY DEF Requests
<1>3. /\ new.kind = kind /\ new.p = p /\ new.tab = tab /\ new.st = st
  OBVIOUS
<1> HIDE DEF new
<1>4. /\ calls' \in [Slots -> {NoCall} \union Requests] 
      /\ \A m \in Slots : calls'[m] = IF m = n THEN new ELSE calls[m]
  BY <1>1, <1>2 DEF CallsSound
<1>5. ASSUME NEW m \in Slots, calls'[m] # NoCall
      PROVE  /\ calls'[m].st = "wait" => /\ Opened(calls[m].got)'
                                        /\ profile'[calls'[m].got] = calls'[m].p
             /\ calls'[m].kind \in OfTab => /\ Opened(calls[m].tab)'
                                           /\ profile'[calls'[m].tab] = calls'[m].p
             /\ calls'[m].kind = "local" => calls'[m].p = Local
  <2>1. CASE m = n
    BY <1>3, <1>4, <2>1 DEF Lasting, Opened
  <2>2. CASE m # n
    BY <1>4, <1>5, <2>2 DEF CallsSound, Lasting, Opened
  <2> QED BY <2>1, <2>2
<1> QED BY <1>1, <1>3, <1>4, <1>5 DEF CallsSound

\* Profiles stay marked while the opens that marked them go on.
LEMMA CreatingLasts ==
    ASSUME CreatingSound, UNCHANGED creating,
           \A n \in Slots : calls[n].kind = "open" => 
               calls'[n].kind = "open" /\ calls'[n].p = calls[n].p
    PROVE  CreatingSound'
BY DEF CreatingSound

\* An open that ends takes its mark with it.
LEMMA CreatingEnds ==
    ASSUME CreatingSound, NEW n \in Slots,
           \A m \in Slots : calls'[m] = IF m = n THEN NoCall ELSE calls[m],
           \/ Left(n)
           \/ UNCHANGED creating /\ calls[n].kind # "open"
    PROVE  CreatingSound'
<1>1. CASE Left(n)
  <2>1. creating' = [p \in Profiles |-> IF p = calls[n].p /\ calls[n].kind = "open" THEN 0 ELSE creating[p]]
    BY <1>1 DEF Left
  <2>2. \A p \in Profiles : creating'[p] # 0 => creating'[p] = creating[p] /\ creating[p] # n
    BY <2>1 DEF CreatingSound
  <2>3. creating' \in [Profiles -> {0} \union Slots]
    BY <2>1 DEF CreatingSound
  <2> QED BY <2>2, <2>3 DEF CreatingSound
<1>2. CASE UNCHANGED creating /\ calls[n].kind # "open"
  BY <1>2, CreatingLasts DEF CreatingSound
<1> QED BY <1>1, <1>2

\* A table of attempts with the record of one tab reset.
LEMMA ClearedOK ==
    ASSUME AttemptsOK(auto), NEW id, BoundsAssumption
    PROVE  AttemptsOK(Cleared(id))
<1>1. Idle \in [att : 0..AutoReconnectMax, st : {"none", "idle", "timer", "flight", "gaveup"},
                call : {0} \union Slots] /\ Idle.st = "none"
  BY DEF Idle, BoundsAssumption
<1> HIDE DEF Idle
<1> QED BY <1>1 DEF AttemptsOK, Cleared

\* scheduleAutoReconnect.
LEMMA ScheduleKeeps ==
    ASSUME BoundsAssumption, NEW ids, NEW items, NEW table, NEW closing, Shows(items), AttemptsOK(table),
           Schedule(ids, items, table, closing)
    PROVE  AttemptsOK(auto)' /\ \E strip : Shows(strip) /\ tabs' = strip
<1>1. PICK online \in BOOLEAN :
        LET want == {id \in ids \ closing : 
                       /\ online /\ table[id].st \notin {"timer", "flight", "gaveup"}
                       /\ \E i \in DOMAIN items : items[i].id = id /\ items[i].p \in Reconnecting}
            over == {id \in want : table[id].att >= AutoReconnectMax}
        IN  /\ auto' = [id \in Ids |-> IF id \in over THEN [table[id] EXCEPT !.st = "gaveup"]
                                       ELSE IF id \in want THEN [table[id] EXCEPT !.st = "timer"] ELSE table[id]]
            /\ tabs' = Marked(Marked(items, want \ over, "reconnecting"), over, "error")
  BY DEF Schedule
<1> DEFINE want == {id \in ids \ closing : 
                       /\ online /\ table[id].st \notin {"timer", "flight", "gaveup"}
                       /\ \E i \in DOMAIN items : items[i].id = id /\ items[i].p \in Reconnecting}
           over == {id \in want : table[id].att >= AutoReconnectMax}
<1>2. /\ auto' = [id \in Ids |-> IF id \in over THEN [table[id] EXCEPT !.st = "gaveup"]
                                 ELSE IF id \in want THEN [table[id] EXCEPT !.st = "timer"] ELSE table[id]]
      /\ tabs' = Marked(Marked(items, want \ over, "reconnecting"), over, "error")
  BY <1>1
<1>3. \A id \in want : id \in over \/ ~(table[id].att >= AutoReconnectMax)
  OBVIOUS
<1> HIDE DEF want, over
<1>4. AutoReconnectMax \in Nat
  BY DEF BoundsAssumption
<1>5. \A id \in Ids : 
        /\ auto'[id] \in [att : 0..AutoReconnectMax, st : {"none", "idle", "timer", "flight", "gaveup"},
                          call : {0} \union Slots]
        /\ auto'[id].st = "timer" => auto'[id].att < AutoReconnectMax
  <2> TAKE id \in Ids
  <2>1. table[id] \in [att : 0..AutoReconnectMax, st : {"none", "idle", "timer", "flight", "gaveup"},
                       call : {0} \union Slots]
    BY DEF AttemptsOK
  <2>2. CASE id \in over
    BY <1>2, <2>1, <2>2
  <2>3. CASE id \notin over /\ id \in want
    BY <1>2, <1>3, <1>4, <2>1, <2>3
  <2>4. CASE id \notin over /\ id \notin want
    BY <1>2, <2>1, <2>4 DEF AttemptsOK
  <2> QED BY <2>2, <2>3, <2>4
<1>6. AttemptsOK(auto)'
  BY <1>2, <1>5 DEF AttemptsOK
<1>7. Shows(Marked(Marked(items, want \ over, "reconnecting"), over, "error"))
  BY MarkedShows DEF TabStates
<1> QED BY <1>2, <1>6, <1>7

-----------------------------------------------------------------------------
(* The backend's events *)

\* A step that leaves the backend alone keeps what is said of it.
LEMMA BackendSame ==
    ASSUME BackendSound, UNCHANGED backend
    PROVE  BackendSound' /\ Lasting
BY DEF BackendSound, Lasting, Opened, backend

\* The events of session s become q.
Tells(s, q) ==
    /\ s \in Ids /\ bstate'[s] # "new"
    /\ q \in Seq(Events) /\ queue' = [queue EXCEPT ![s] = q]
    /\ \A i \in DOMAIN q : q[i].old # 0 => Opened(q[i].old) /\ profile[q[i].old] = profile'[s]

\* The events of one session are changed.
LEMMA QueueChanges ==
    ASSUME BackendSound, Lasting,
           profile' \in [Ids -> Profiles],
           bstate' \in [Ids -> {"new", "opening", "live", "ended", "failed"}],
           \A t \in stale' : t \in Ids /\ bstate'[t] # "new",
           NEW s, NEW q, Tells(s, q)
    PROVE  BackendSound'
<1> USE DEF Tells
<1>1. queue' \in [Ids -> Seq(Events)]
  BY DEF BackendSound
<1>2. \A t \in Ids : queue'[t] = IF t = s THEN q ELSE queue[t]
  BY DEF BackendSound
<1>3. \A t \in Ids : queue'[t] # <<>> => bstate'[t] # "new"
  BY <1>2 DEF BackendSound, Lasting, Opened
<1>4. ASSUME NEW t \in Ids, NEW i \in DOMAIN queue'[t], queue'[t][i].old # 0
      PROVE  /\ queue'[t][i].old \in Ids /\ bstate'[queue'[t][i].old] # "new"
             /\ profile'[queue'[t][i].old] = profile'[t]
  <2>1. CASE t = s
    BY <1>2, <1>4, <2>1 DEF Lasting, Opened
  <2>2. CASE t # s
    <3>1. queue'[t] = queue[t] /\ queue[t] # <<>>
      BY <1>2, <1>4, <2>2
    <3>2. Opened(t) /\ Opened(queue[t][i].old) /\ profile[queue[t][i].old] = profile[t]
      BY <1>4, <3>1 DEF BackendSound
    <3> QED BY <3>1, <3>2 DEF Lasting, Opened
  <2> QED BY <2>1, <2>2
<1> QED BY <1>1, <1>3, <1>4 DEF BackendSound, Opened

\* Events about no other session are sent.
LEMMA Sending ==
    ASSUME NEW types \in Seq(EventTypes)
    PROVE  Sent(types) \in Seq(Events) /\ \A i \in DOMAIN Sent(types) : Sent(types)[i].old = 0
<1>1. types \in [1..Len(types) -> EventTypes] /\ Len(types) \in Nat /\ DOMAIN types = 1..Len(types)
  OBVIOUS
<1>2. Sent(types) = [i \in 1..Len(types) |-> [type |-> types[i], old |-> 0]]
  BY <1>1 DEF Sent
<1>3. \A i \in 1..Len(types) : [type |-> types[i], old |-> 0] \in Events
  BY <1>1 DEF Events
<1>4. Sent(types) \in [1..Len(types) -> Events]
  BY <1>2, <1>3
<1> QED BY <1>1, <1>2, <1>4, SeqDef

\* New events at the end of a queue, hand-overs apart, leave its hand-overs to
\* sessions of the same profile.
LEMMA QueueGrows ==
    ASSUME BackendSound, NEW s \in Ids, NEW q \in Seq(Events), \A i \in DOMAIN q : q[i].old = 0
    PROVE  /\ queue[s] \o q \in Seq(Events)
           /\ \A i \in DOMAIN (queue[s] \o q) : (queue[s] \o q)[i].old # 0 =>
                  /\ Opened((queue[s] \o q)[i].old)
                  /\ profile[(queue[s] \o q)[i].old] = profile[s]
<1>1. queue[s] \in Seq(Events)
  BY DEF BackendSound
<1> DEFINE J == queue[s] \o q
<1>2. J \in Seq(Events)
  BY <1>1
<1>3. \A i \in DOMAIN J : \/ i \in DOMAIN queue[s] /\ J[i] = queue[s][i]
                          \/ i - Len(queue[s]) \in DOMAIN q /\ J[i] = q[i - Len(queue[s])]
  BY <1>1
<1> HIDE DEF J
<1>4. \A i \in DOMAIN J : J[i].old # 0 => Opened(J[i].old) /\ profile[J[i].old] = profile[s]
  BY <1>3 DEF BackendSound
<1> QED BY <1>2, <1>4 DEF J

\* Disconnect of a session.
LEMMA DisconnectKeeps ==
    ASSUME BackendSound, NEW s \in Ids, Disconnect(s), UNCHANGED <<profile, stale>>
    PROVE  BackendSound' /\ Lasting
<1>1. CASE bstate[s] \notin {"opening", "live"}
  BY <1>1, BackendSame DEF Disconnect, backend
<1>2. CASE bstate[s] \in {"opening", "live"}
  <2> DEFINE e == <<[type |-> "disconnected", old |-> 0]>>
  <2>1. /\ bstate' = [bstate EXCEPT ![s] = IF @ = "live" THEN "ended" ELSE "failed"]
        /\ queue' = [queue EXCEPT ![s] = Append(queue[s], [type |-> "disconnected", old |-> 0])]
    BY <1>2 DEF Disconnect, Disconnected, BackendSound
  <2>2. /\ Lasting /\ bstate'[s] # "new"
        /\ bstate' \in [Ids -> {"new", "opening", "live", "ended", "failed"}]
    BY <2>1 DEF BackendSound, Lasting, Opened
  <2>3. \A t \in stale' : t \in Ids /\ bstate'[t] # "new"
    BY <2>2 DEF BackendSound, Lasting, Opened
  <2>4. e \in Seq(Events) /\ \A i \in DOMAIN e : e[i].old = 0
    BY DEF Events, EventTypes
  <2>5. queue[s] \in Seq(Events)
    BY DEF BackendSound
  <2>6. Append(queue[s], [type |-> "disconnected", old |-> 0]) = queue[s] \o e
    BY <2>5
  <2> HIDE DEF e
  <2>7. queue' = [queue EXCEPT ![s] = queue[s] \o e]
    BY <2>1, <2>6
  <2>8. /\ queue[s] \o e \in Seq(Events)
        /\ \A i \in DOMAIN (queue[s] \o e) : (queue[s] \o e)[i].old # 0 =>
               Opened((queue[s] \o e)[i].old) /\ profile[(queue[s] \o e)[i].old] = profile'[s]
    BY <2>4, QueueGrows
  <2>9. profile' \in [Ids -> Profiles]
    BY DEF BackendSound
  <2>10. Tells(s, queue[s] \o e)
    BY <2>2, <2>7, <2>8 DEF Tells
  <2>11. BackendSound'
    BY <2>2, <2>3, <2>9, <2>10, QueueChanges
  <2> QED BY <2>2, <2>11
<1> QED BY <1>1, <1>2

\* The page takes an event.
LEMMA TakenKeeps ==
    ASSUME BackendSound, NEW s \in Ids, queue[s] # <<>>, Taken(s), UNCHANGED <<profile, stale>>
    PROVE  BackendSound' /\ Lasting
<1>1. Lasting
  BY DEF Taken, Lasting, Opened
<1>2. queue[s] \in Seq(Events) /\ Opened(s)
  BY DEF BackendSound
<1>3. Tail(queue[s]) \in Seq(Events) /\ \A i \in DOMAIN Tail(queue[s]) : 
        i + 1 \in DOMAIN queue[s] /\ Tail(queue[s])[i] = queue[s][i + 1]
  BY <1>2
<1>4. queue' = [queue EXCEPT ![s] = Tail(queue[s])]
  BY DEF Taken, BackendSound
<1>5. \A i \in DOMAIN Tail(queue[s]) : Tail(queue[s])[i].old # 0 =>
         Opened(Tail(queue[s])[i].old) /\ profile[Tail(queue[s])[i].old] = profile'[s]
  BY <1>3 DEF BackendSound
<1>6. bstate' = bstate /\ bstate'[s] # "new" /\ \A t \in stale' : t \in Ids /\ bstate'[t] # "new"
  BY <1>2 DEF Taken, BackendSound, Opened
<1>7. Tells(s, Tail(queue[s]))
  BY <1>3, <1>4, <1>5, <1>6 DEF Tells
<1>8. BackendSound'
  BY <1>1, <1>6, <1>7, QueueChanges DEF BackendSound
<1> QED BY <1>1, <1>8

\* A session of profile p is opened, in state st, and sends the events q.
Opens(s, p, st, q) ==
    /\ s \in Unused /\ p \in Profiles /\ st \in {"opening", "live"} /\ q \in Seq(Events)
    /\ \A i \in DOMAIN q : q[i].old # 0 => Opened(q[i].old) /\ profile[q[i].old] = p
    /\ profile' = [profile EXCEPT ![s] = p]
    /\ bstate' = [bstate EXCEPT ![s] = st]
    /\ queue' = [queue EXCEPT ![s] = q]
    /\ stale' \in SUBSET stale

\* Opening a session (Connect and its variants) keeps the invariant.
LEMMA OpeningKeeps ==
    ASSUME BackendSound, NEW s, NEW p, NEW st, NEW q, Opens(s, p, st, q)
    PROVE  /\ BackendSound' /\ Lasting
           /\ s \in Ids /\ bstate'[s] # "new" /\ profile'[s] = p
<1> USE DEF Opens
<1>1. s \in Ids /\ bstate[s] = "new"
  BY DEF Unused
<1>2. /\ profile' \in [Ids -> Profiles] /\ profile'[s] = p
      /\ bstate' \in [Ids -> {"new", "opening", "live", "ended", "failed"}]
      /\ bstate'[s] # "new"
  BY <1>1 DEF BackendSound
<1>3. Lasting
  BY <1>1 DEF BackendSound, Lasting, Opened
<1>4. \A t \in stale' : t \in Ids /\ bstate'[t] # "new"
  BY <1>3 DEF BackendSound, Lasting, Opened
<1>5. Tells(s, q)
  BY <1>1, <1>2 DEF Tells
<1>6. BackendSound'
  BY <1>2, <1>3, <1>4, <1>5, QueueChanges
<1> QED BY <1>1, <1>2, <1>3, <1>6

\* The page keeps what it has.
LEMMA PageWaits ==
    ASSUME IInv, BackendSound', Lasting, CallsSound',
           \A n \in Slots : calls'[n].kind = calls[n].kind /\ calls'[n].p = calls[n].p,
           UNCHANGED backendFrame
    PROVE  IInv'
<1>1. UNCHANGED <<tabs, active, creating, closedTabs, auto, listed, moves>>
  BY DEF backendFrame, focus, recon, loading
<1>2. Shows(tabs)'
  BY <1>1, ShowsLasts DEF IInv
<1>3. CreatingSound'
  BY <1>1, CreatingLasts DEF IInv
<1>4. PageSound'
  BY <1>1 DEF IInv, PageSound, AttemptsOK, Lasting, Opened
<1> QED BY <1>2, <1>3, <1>4 DEF IInv

\* A connect: it may be given the session there is, or a new one.
LEMMA ConnectKeeps ==
    ASSUME IInv, BoundsAssumption, NEW n \in Slots, BConnect(n)
    PROVE  IInv'
<1> DEFINE p == calls[n].p
<1>1. /\ calls[n] # NoCall /\ calls[n] \in Requests /\ p \in Profiles
      /\ UNCHANGED backendFrame /\ UNCHANGED stale
  BY DEF BConnect, IInv, CallsSound, Requests
<1>2. CASE Answering(n, "refused") /\ UNCHANGED <<profile, bstate, queue>>
  <2>1. BackendSound' /\ Lasting
    BY <1>1, <1>2, BackendSame DEF IInv, backend
  <2>2. CallsSound' /\ \A m \in Slots : calls'[m].kind = calls[m].kind /\ calls'[m].p = calls[m].p
    BY <1>1, <1>2, <2>1, CallMoves DEF IInv, Answering
  <2> QED BY <1>1, <2>1, <2>2, PageWaits
<1>3. ASSUME NEW s \in Ids, BackendSound', Lasting, bstate'[s] # "new", profile'[s] = p,
             calls' = [calls EXCEPT ![n].st = "wait", ![n].got = s]
      PROVE  IInv'
  <2> DEFINE new == [calls[n] EXCEPT !.st = "wait", !.got = s]
  <2>1. \A m \in Slots : calls[m] \in {NoCall} \union Requests
    BY DEF IInv, CallsSound
  <2>2. \A m \in Slots : calls'[m] = IF m = n THEN new ELSE calls[m]
    BY <1>3 DEF IInv, CallsSound
  <2>3. /\ new \in Requests /\ new.kind = calls[n].kind /\ new.p = p /\ new.tab = calls[n].tab
        /\ new.st = "wait" /\ new.got = s
    BY <1>1 DEF Requests
  <2> HIDE DEF new
  <2>4. calls' \in [Slots -> {NoCall} \union Requests]
    <3>1. calls' = [m \in Slots |-> IF m = n THEN new ELSE calls[m]]
      BY <1>3 DEF IInv, CallsSound, new
    <3> QED BY <2>1, <2>3, <3>1
  <2>5. CallsSound'
    <3> SUFFICES ASSUME NEW m \in Slots, calls'[m] # NoCall
                 PROVE  /\ calls'[m].st = "wait" => /\ Opened(calls[m].got)'
                                                   /\ profile'[calls'[m].got] = calls'[m].p
                        /\ calls'[m].kind \in OfTab => /\ Opened(calls[m].tab)'
                                                      /\ profile'[calls'[m].tab] = calls'[m].p
                        /\ calls'[m].kind = "local" => calls'[m].p = Local
      BY <2>4 DEF CallsSound
    <3>1. CASE m = n
      BY <1>1, <1>3, <2>2, <2>3, <3>1 DEF IInv, CallsSound, Lasting, Opened
    <3>2. CASE m # n
      BY <1>3, <2>2, <3>2 DEF IInv, CallsSound, Lasting, Opened
    <3> QED BY <3>1, <3>2
  <2> QED BY <1>1, <1>3, <2>2, <2>3, <2>5, PageWaits
<1>4. ASSUME NEW s \in Current(p), calls' = [calls EXCEPT ![n].st = "wait", ![n].got = s],
             UNCHANGED <<profile, bstate, queue>>
      PROVE  IInv'
  <2>1. BackendSound' /\ Lasting
    BY <1>1, <1>4, BackendSame DEF IInv, backend
  <2>2. s \in Ids /\ bstate'[s] # "new" /\ profile'[s] = p
    BY <1>4 DEF Current
  <2> QED BY <1>3, <1>4, <2>1, <2>2
<1>5. CASE /\ Unused # {}
           /\ calls' = [calls EXCEPT ![n].st = "wait", ![n].got = Newest]
           /\ profile' = [profile EXCEPT ![Newest] = p]
           /\ bstate' = [bstate EXCEPT ![Newest] = IF p = Local THEN "live" ELSE "opening"]
           /\ queue' = [queue EXCEPT ![Newest] = IF p = Local THEN <<>> ELSE Sent(<<"connecting">>)]
  <2> DEFINE q == IF p = Local THEN <<>> ELSE Sent(<<"connecting">>)
             st == IF p = Local THEN "live" ELSE "opening"
  <2>1. q \in Seq(Events) /\ \A i \in DOMAIN q : q[i].old = 0
    <3>1. <<"connecting">> \in Seq(EventTypes)
      BY DEF EventTypes
    <3>2. /\ Sent(<<"connecting">>) \in Seq(Events)
          /\ \A i \in DOMAIN Sent(<<"connecting">>) : Sent(<<"connecting">>)[i].old = 0
      BY <3>1, Sending
    <3>3. CASE p = Local
      BY <3>3
    <3>4. CASE p # Local
      BY <3>2, <3>4
    <3> QED BY <3>3, <3>4
  <2>2. st \in {"opening", "live"}
    OBVIOUS
  <2>3. /\ BackendSound' /\ Lasting
        /\ Newest \in Ids /\ bstate'[Newest] # "new" /\ profile'[Newest] = p
    <3>1. Opens(Newest, p, st, q)
      BY <1>1, <1>5, <2>1, <2>2, NewestUnused DEF Opens
    <3> HIDE DEF p, q, st
    <3> QED BY <3>1, OpeningKeeps DEF IInv
  <2> QED BY <1>3, <1>5, <2>3
<1> QED BY <1>2, <1>4, <1>5 DEF BConnect

\* Disconnect and the first half of Reconnect keep the invariant.
LEMMA BDisconnectKeeps ==
    ASSUME IInv, NEW n \in Slots, BDisconnect(n)
    PROVE  IInv'
<1>1. /\ calls[n].kind \in {"close", "manual"} /\ calls[n] # NoCall
      /\ UNCHANGED backendFrame /\ UNCHANGED <<profile, stale>>
  BY DEF BDisconnect, Ended, NoCall
<1>2. calls[n].tab \in Ids
  BY <1>1 DEF IInv, CallsSound, OfTab, Opened
<1>3. BackendSound' /\ Lasting
  BY <1>1, <1>2, DisconnectKeeps DEF IInv, BDisconnect
<1>4. \E st \in {"connect", "refused", "missing", "closed"} : calls' = [calls EXCEPT ![n].st = st]
  BY DEF BDisconnect, Answering
<1>5. CallsSound' /\ \A m \in Slots : calls'[m].kind = calls[m].kind /\ calls'[m].p = calls[m].p
  BY <1>1, <1>3, <1>4, CallMoves DEF IInv
<1> QED BY <1>1, <1>3, <1>5, PageWaits

\* Steps of the backend that answer nobody.
LEMMA Unanswered ==
    ASSUME IInv, BackendSound', Lasting, UNCHANGED <<backendFrame, calls>>
    PROVE  IInv'
<1>1. CallsSound'
  BY CallsLast DEF IInv, CallsSound
<1> QED BY <1>1, PageWaits

\* A session that goes on gets more events.
LEMMA TellsPage ==
    ASSUME IInv, NEW s \in Ids, bstate[s] # "new",
           NEW st \in {"opening", "live", "ended", "failed"}, NEW types \in Seq(EventTypes),
           bstate' = [bstate EXCEPT ![s] = st],
           queue' = [queue EXCEPT ![s] = queue[s] \o Sent(types)],
           UNCHANGED <<profile, backendFrame, calls>>, stale' \in SUBSET (stale \union {s})
    PROVE  IInv'
<1>1. /\ profile' \in [Ids -> Profiles] /\ bstate'[s] # "new"
      /\ bstate' \in [Ids -> {"new", "opening", "live", "ended", "failed"}]
  BY DEF IInv, BackendSound
<1>2. Lasting
  BY DEF IInv, BackendSound, Lasting, Opened
<1>3. \A t \in stale' : t \in Ids /\ bstate'[t] # "new"
  BY <1>1, <1>2 DEF IInv, BackendSound, Lasting, Opened
<1>4. Sent(types) \in Seq(Events) /\ \A i \in DOMAIN Sent(types) : Sent(types)[i].old = 0
  BY Sending
<1>5. /\ queue[s] \o Sent(types) \in Seq(Events)
      /\ \A i \in DOMAIN (queue[s] \o Sent(types)) : (queue[s] \o Sent(types))[i].old # 0 =>
             /\ Opened((queue[s] \o Sent(types))[i].old)
             /\ profile[(queue[s] \o Sent(types))[i].old] = profile'[s]
  BY <1>4, QueueGrows DEF IInv
<1>6. Tells(s, queue[s] \o Sent(types))
  BY <1>1, <1>5 DEF Tells
<1>7. BackendSound'
  BY <1>1, <1>2, <1>3, <1>6, QueueChanges DEF IInv
<1> QED BY <1>2, <1>7, Unanswered

\* A session is opened that nobody on the page waits for.
LEMMA OpensUnasked ==
    ASSUME IInv, NEW s, NEW p, NEW q, Opens(s, p, "live", q), UNCHANGED <<backendFrame, calls>>
    PROVE  IInv'
<1>1. BackendSound' /\ Lasting
  BY OpeningKeeps DEF IInv
<1> QED BY <1>1, Unanswered

\* The end of a handshake, either way, keeps the invariant.
LEMMA HandshakeKeeps ==
    ASSUME IInv, NEW s \in Ids, BHandshake(s)
    PROVE  IInv'
<1>1. PICK ok \in BOOLEAN :
        /\ bstate' = [bstate EXCEPT ![s] = IF ok THEN "live" ELSE "failed"]
        /\ queue' = [queue EXCEPT ![s] = queue[s] \o Sent(IF ok THEN <<"connected">> ELSE <<"error">>)]
  BY DEF BHandshake, IInv, BackendSound
<1> DEFINE st == IF ok THEN "live" ELSE "failed"
           types == IF ok THEN <<"connected">> ELSE <<"error">>
<1>2. st \in {"opening", "live", "ended", "failed"} /\ types \in Seq(EventTypes)
  <2>1. <<"connected">> \in Seq(EventTypes) /\ <<"error">> \in Seq(EventTypes)
    BY DEF EventTypes
  <2> QED BY <2>1
<1>3. bstate' = [bstate EXCEPT ![s] = st] /\ queue' = [queue EXCEPT ![s] = queue[s] \o Sent(types)]
  BY <1>1
<1>4. bstate[s] # "new" /\ UNCHANGED <<profile, backendFrame, calls>> /\ stale' \in SUBSET (stale \union {s})
  BY DEF BHandshake
<1> HIDE DEF st, types
<1> QED BY <1>2, <1>3, <1>4, TellsPage

\* A drop found by the keepalive or the end of a shell keeps the invariant.
LEMMA DropKeeps ==
    ASSUME IInv, NEW s \in Ids, BDrop(s)
    PROVE  IInv'
<1>1. PICK lost \in BOOLEAN :
        queue' = [queue EXCEPT ![s] = queue[s] \o Sent(IF lost /\ profile[s] # Local 
                                        THEN <<"error", "disconnected">> ELSE <<"disconnected">>)]
  BY DEF BDrop, IInv, BackendSound
<1> DEFINE types == IF lost /\ profile[s] # Local THEN <<"error", "disconnected">> ELSE <<"disconnected">>
<1>2. types \in Seq(EventTypes)
  <2>1. <<"error", "disconnected">> \in Seq(EventTypes) /\ <<"disconnected">> \in Seq(EventTypes)
    BY DEF EventTypes
  <2> QED BY <2>1
<1>3. bstate' = [bstate EXCEPT ![s] = "ended"] /\ queue' = [queue EXCEPT ![s] = queue[s] \o Sent(types)]
  BY <1>1 DEF BDrop
<1>4. bstate[s] # "new" /\ UNCHANGED <<profile, backendFrame, calls>> /\ stale' \in SUBSET (stale \union {s})
  BY DEF BDrop, World
<1> HIDE DEF types
<1> QED BY <1>2, <1>3, <1>4, TellsPage

\* A session the command line opens or uses keeps the invariant.
LEMMA CliKeeps ==
    ASSUME IInv, BoundsAssumption, NEW p \in Saved, BCli(p)
    PROVE  IInv'
<1>1. UNCHANGED <<backendFrame, calls, stale>>
  BY DEF BCli, World
<1>2. ASSUME NEW s \in Current(p), bstate[s] = "live", UNCHANGED <<profile, bstate>>,
             queue' = [queue EXCEPT ![s] = @ \o Sent(<<"cli">>)]
      PROVE  IInv'
  <2>1. <<"cli">> \in Seq(EventTypes) /\ s \in Ids
    BY DEF EventTypes, Current
  <2>2. bstate' = [bstate EXCEPT ![s] = "live"] /\ queue' = [queue EXCEPT ![s] = queue[s] \o Sent(<<"cli">>)]
    BY <1>2, <2>1 DEF IInv, BackendSound
  <2>3. stale' \in SUBSET (stale \union {s})
    BY <1>1
  <2> QED BY <1>1, <1>2, <2>1, <2>2, <2>3, TellsPage
<1>3. CASE /\ Unused # {} /\ profile' = [profile EXCEPT ![Newest] = p]
           /\ bstate' = [bstate EXCEPT ![Newest] = "live"]
           /\ queue' = [queue EXCEPT ![Newest] = Sent(<<"connecting", "connected", "cli">>)]
  <2>1. <<"connecting", "connected", "cli">> \in Seq(EventTypes)
    BY DEF EventTypes
  <2>2. /\ Sent(<<"connecting", "connected", "cli">>) \in Seq(Events)
        /\ \A i \in DOMAIN Sent(<<"connecting", "connected", "cli">>) :
               Sent(<<"connecting", "connected", "cli">>)[i].old = 0
    BY <2>1, Sending
  <2>3. Newest \in Unused /\ p \in Profiles /\ stale' \in SUBSET stale
    BY <1>1, <1>3, NewestUnused DEF Profiles
  <2>4. Opens(Newest, p, "live", Sent(<<"connecting", "connected", "cli">>))
    BY <1>3, <2>2, <2>3 DEF Opens
  <2> QED BY <1>1, <2>4, OpensUnasked
<1> QED BY <1>2, <1>3 DEF BCli

\* A protected retry that drops a stale session keeps the invariant.
LEMMA CliRecoverKeeps ==
    ASSUME IInv, NEW s \in Ids, BCliRecover(s)
    PROVE  IInv'
<1>1. <<"recovering", "disconnected">> \in Seq(EventTypes)
  BY DEF EventTypes
<1>2. /\ bstate[s] # "new" /\ bstate' = [bstate EXCEPT ![s] = "ended"]
      /\ queue' = [queue EXCEPT ![s] = queue[s] \o Sent(<<"recovering", "disconnected">>)]
      /\ UNCHANGED <<profile, backendFrame, calls>> /\ stale' \in SUBSET (stale \union {s})
  BY DEF BCliRecover, World, IInv, BackendSound
<1> QED BY <1>1, <1>2, TellsPage

\* A protected retry that replaces a session keeps the invariant.
LEMMA CliReplaceKeeps ==
    ASSUME IInv, BoundsAssumption, NEW old \in Ids, BCliReplace(old)
    PROVE  IInv'
<1> DEFINE e == [type |-> "replaced", old |-> old]
<1>1. /\ UNCHANGED <<backendFrame, calls>> /\ stale' \in SUBSET stale
      /\ Opened(old) /\ profile[old] \in Profiles
  BY DEF BCliReplace, IInv, BackendSound, Opened
<1>2. e \in Events /\ e.old = old
  BY DEF Events, EventTypes
<1>3. CASE UNCHANGED <<profile, bstate, queue>>
  <2>1. BackendSound' /\ Lasting
    BY <1>1, <1>3 DEF IInv, BackendSound, Lasting, Opened
  <2> QED BY <1>1, <2>1, Unanswered
<1>4. ASSUME NEW s \in Current(profile[old]), bstate[s] = "live", UNCHANGED <<profile, bstate>>,
             queue' = [queue EXCEPT ![s] = Append(@, e)]
      PROVE  IInv'
  <2> DEFINE q == Append(queue[s], e)
  <2>1. s \in Ids /\ profile[s] = profile[old] /\ queue[s] \in Seq(Events)
    BY DEF Current, IInv, BackendSound
  <2>2. /\ q \in Seq(Events)
        /\ \A i \in DOMAIN q : (i \in DOMAIN queue[s] /\ q[i] = queue[s][i]) \/ q[i] = e
    BY SMTT(40), <1>2, <2>1
  <2>3. queue' = [queue EXCEPT ![s] = q]
    BY <1>4, <2>1 DEF IInv, BackendSound
  <2> HIDE DEF e, q
  <2>4. ASSUME NEW i \in DOMAIN q, q[i].old # 0
        PROVE  Opened(q[i].old) /\ profile[q[i].old] = profile'[s]
    <3>1. CASE q[i] = e
      BY <1>1, <1>2, <1>4, <2>1, <3>1
    <3>2. CASE i \in DOMAIN queue[s] /\ q[i] = queue[s][i]
      BY <1>4, <2>1, <2>4, <3>2 DEF IInv, BackendSound
    <3> QED BY <2>2, <3>1, <3>2
  <2>5. Tells(s, q)
    BY <1>4, <2>1, <2>2, <2>3, <2>4 DEF Tells
  <2>6. Lasting /\ \A t \in stale' : t \in Ids /\ bstate'[t] # "new"
    BY <1>1, <1>4 DEF IInv, BackendSound, Lasting, Opened
  <2>7. BackendSound'
    BY <1>4, <2>5, <2>6, QueueChanges DEF IInv, BackendSound
  <2> QED BY <1>1, <2>6, <2>7, Unanswered
<1>5. CASE /\ Unused # {} /\ profile' = [profile EXCEPT ![Newest] = profile[old]]
           /\ bstate' = [bstate EXCEPT ![Newest] = "live"]
           /\ queue' = [queue EXCEPT ![Newest] = Append(Sent(<<"connecting", "connected">>), e)]
  <2> DEFINE first == Sent(<<"connecting", "connected">>)
             q == Append(first, e)
  <2>1. <<"connecting", "connected">> \in Seq(EventTypes)
    BY DEF EventTypes
  <2>2. first \in Seq(Events) /\ \A i \in DOMAIN first : first[i].old = 0
    BY <2>1, Sending
  <2> HIDE DEF first, e
  <2>3. q \in Seq(Events) /\ \A i \in DOMAIN q : (i \in DOMAIN first /\ q[i] = first[i]) \/ q[i] = e
    BY <1>2, <2>2
  <2>4. Newest \in Unused
    BY <1>5, NewestUnused
  <2>5. queue' = [queue EXCEPT ![Newest] = q]
    BY <1>5 DEF first
  <2> HIDE DEF q
  <2>6. \A i \in DOMAIN q : q[i].old # 0 => Opened(q[i].old) /\ profile[q[i].old] = profile[old]
    BY <1>1, <1>2, <2>2, <2>3
  <2>7. Opens(Newest, profile[old], "live", q)
    BY <1>1, <1>5, <2>3, <2>4, <2>5, <2>6 DEF Opens
  <2> QED BY <1>1, <2>7, OpensUnasked
<1> QED BY <1>3, <1>4, <1>5 DEF BCliReplace

\* Every step of the backend keeps the invariant.
LEMMA BackendKeeps ==
    ASSUME IInv, BoundsAssumption, BackendStep
    PROVE  IInv'
BY BDisconnectKeeps, ConnectKeeps, HandshakeKeeps, DropKeeps, CliKeeps, CliRecoverKeeps, CliReplaceKeeps
   DEF BackendStep

-----------------------------------------------------------------------------
(* What the user does *)

\* The parts of the invariant a step of the page may disturb.
LEMMA PageStepKeeps ==
    ASSUME IInv, BackendSound', Lasting, Shows(tabs)', CallsSound', CreatingSound',
           active' \in {0} \union Ids, closedTabs' \in Seq([id : Ids, p : Profiles]), AttemptsOK(auto)',
           UNCHANGED listed, moves' \in Nat
    PROVE  IInv'
<1>1. \A s \in DOMAIN listed : Opened(s)' /\ listed[s] \in {"connected", "connecting"}
  BY DEF IInv, PageSound, Lasting, Opened
<1> QED BY <1>1 DEF IInv, PageSound

\* An act of the user leaves the backend and the closed tabs alone.
LEMMA ActKeeps ==
    ASSUME IInv, Ask, Shows(tabs)', CallsSound', CreatingSound', active' \in {0} \union Ids,
           AttemptsOK(auto)', UNCHANGED closedTabs
    PROVE  IInv'
<1>1. BackendSound' /\ Lasting
  BY BackendSame DEF Ask, IInv, backend
<1>2. UNCHANGED listed /\ moves' \in Nat /\ closedTabs' \in Seq([id : Ids, p : Profiles])
  BY DEF Ask, IInv, PageSound, loading
<1> QED BY <1>1, <1>2, PageStepKeeps

\* A call to the backend leaves it alone, and every tab shows an opened session.
LEMMA AskLasts ==
    ASSUME IInv, Ask
    PROVE  /\ Lasting
           /\ \A i \in DOMAIN tabs : /\ tabs[i].id \in Ids /\ tabs[i].p \in Profiles
                                     /\ Opened(tabs[i].id) /\ profile[tabs[i].id] = tabs[i].p
<1>1. Lasting
  BY DEF Ask, Lasting, Opened
<1>2. \A i \in DOMAIN tabs : tabs[i] \in TabRecords
  BY DEF IInv, Shows
<1> QED BY <1>1, <1>2 DEF IInv, Shows, TabRecords

\* A profile is marked with the open that begins; others keep their marks.
LEMMA OpenBegins ==
    ASSUME CallsSound, CreatingSound, Lasting, NEW n \in Slots, NEW p \in Profiles,
           NEW tab \in {0} \union Ids, NEW pre \in BOOLEAN, OpenSession(n, p, tab, pre)
    PROVE  CallsSound' /\ CreatingSound'
<1>1. /\ CallsSound' /\ calls[n] = NoCall
      /\ \A m \in Slots : m # n => calls'[m] = calls[m]
      /\ calls'[n].kind = "open" /\ calls'[n].p = p
  BY CallBegins DEF OpenSession, OfTab
<1>2. creating' = [creating EXCEPT ![p] = n] /\ NoCall.kind # "open"
  BY DEF OpenSession, NoCall
<1>3. creating' \in [Profiles -> {0} \union Slots]
  BY <1>2 DEF CreatingSound
<1>4. ASSUME NEW q \in Profiles, creating'[q] # 0
      PROVE  calls'[creating'[q]].kind = "open" /\ calls'[creating'[q]].p = q
  <2>1. CASE q = p
    BY <1>1, <1>2, <2>1 DEF CreatingSound
  <2>2. CASE q # p
    <3>1. creating'[q] = creating[q] /\ creating[q] # 0
      BY <1>2, <1>4, <2>2 DEF CreatingSound
    <3>2. creating[q] \in Slots /\ calls[creating[q]].kind = "open" /\ calls[creating[q]].p = q
      BY <3>1 DEF CreatingSound
    <3>3. creating[q] # n
      BY <1>1, <1>2, <3>2
    <3> QED BY <1>1, <3>1, <3>2, <3>3
  <2> QED BY <2>1, <2>2
<1> QED BY <1>1, <1>3, <1>4 DEF CreatingSound

\* Any other call.
LEMMA OtherBegins ==
    ASSUME CallsSound, CreatingSound, Lasting, NEW n \in Slots,
           NEW kind \in {"open", "local", "reuse", "manual", "auto", "close"}, NEW p \in Profiles,
           NEW tab \in {0} \union Ids, NEW pre \in BOOLEAN, NEW st \in {"connect", "reconnect", "ask"},
           kind \in OfTab => Opened(tab) /\ profile[tab] = p,
           kind = "local" => p = Local,
           Begin(n, kind, p, tab, pre, st), UNCHANGED creating
    PROVE  CallsSound' /\ CreatingSound'
<1>1. /\ CallsSound' /\ calls[n] = NoCall
      /\ \A m \in Slots : m # n => calls'[m] = calls[m]
  BY CallBegins
<1>2. NoCall.kind # "open"
  BY DEF NoCall
<1>3. \A m \in Slots : calls[m].kind = "open" => calls'[m].kind = "open" /\ calls'[m].p = calls[m].p
  BY <1>1, <1>2
<1> QED BY <1>1, <1>3, CreatingLasts

\* Calls and marks stay when the page's tables do.
LEMMA NothingBegins ==
    ASSUME CallsSound, CreatingSound, Lasting, UNCHANGED <<calls, creating>>
    PROVE  CallsSound' /\ CreatingSound'
<1>1. CallsSound'
  BY CallsLast DEF CallsSound
<1>2. CreatingSound'
  BY CreatingLasts
<1> QED BY <1>1, <1>2

\* connectProfile keeps the invariant.
LEMMA ConnectProfileKeeps ==
    ASSUME IInv, Ask, NEW n \in Slots, NEW p \in Saved, ConnectProfile(n, p)
    PROVE  IInv'
<1>1. /\ UNCHANGED <<tabs, auto, closedTabs>> /\ p \in Profiles
      /\ Lasting
      /\ \A i \in DOMAIN tabs : tabs[i].id \in Ids
  BY AskLasts DEF ConnectProfile, Profiles
<1>2. Shows(tabs)' /\ AttemptsOK(auto)'
  BY <1>1, ShowsLasts DEF IInv, PageSound, AttemptsOK
<1>3. CASE MayConnect(p)
  <2>1. OpenSession(n, p, 0, FALSE) /\ active' = active
    BY <1>3 DEF ConnectProfile
  <2>2. CallsSound' /\ CreatingSound'
    BY <1>1, <2>1, OpenBegins DEF IInv
  <2> QED BY <1>1, <1>2, <2>1, <2>2, ActKeeps DEF IInv, PageSound
<1>4. CASE ~MayConnect(p)
  <2>1. active' \in Ids /\ UNCHANGED <<creating, calls>>
    BY <1>1, <1>4 DEF ConnectProfile, Activate
  <2>2. CallsSound' /\ CreatingSound'
    BY <1>1, <2>1, NothingBegins DEF IInv
  <2> QED BY <1>1, <1>2, <2>1, <2>2, ActKeeps
<1> QED BY <1>3, <1>4

\* Acts that only ask the backend.
LEMMA AskingKeeps ==
    ASSUME IInv, Ask, CallsSound', CreatingSound', UNCHANGED <<tabs, active, auto, closedTabs>>
    PROVE  IInv'
<1>1. Shows(tabs)' /\ AttemptsOK(auto)' /\ active' \in {0} \union Ids
  BY AskLasts, ShowsLasts DEF IInv, PageSound, AttemptsOK
<1> QED BY <1>1, ActKeeps

\* submitSecret keeps the invariant.
LEMMA SubmitSecretKeeps ==
    ASSUME IInv, Ask, NEW n \in Slots, NEW p \in Saved, SubmitSecret(n, p)
    PROVE  IInv'
<1>1. OpenSession(n, p, 0, FALSE) /\ UNCHANGED <<tabs, active, auto, closedTabs>> /\ p \in Profiles
  BY DEF SubmitSecret, Profiles
<1>2. CallsSound' /\ CreatingSound'
  BY <1>1, AskLasts, OpenBegins DEF IInv
<1> QED BY <1>1, <1>2, AskingKeeps

\* connectQuick keeps the invariant.
LEMMA ConnectQuickKeeps ==
    ASSUME IInv, Ask, NEW n \in Slots, NEW p \in Quick, ConnectQuick(n, p)
    PROVE  IInv'
<1> DEFINE dead == {i \in DOMAIN tabs : tabs[i].p = p /\ tabs[i].st \in {"error", "disconnected"}}
           first == CHOOSE i \in dead : \A j \in dead : i <= j
<1>1. UNCHANGED <<tabs, active, auto, closedTabs>> /\ p \in Profiles /\ Lasting
  BY AskLasts DEF ConnectQuick, Profiles
<1>2. CASE dead = {}
  <2>1. OpenSession(n, p, 0, FALSE)
    BY <1>2 DEF ConnectQuick
  <2>2. CallsSound' /\ CreatingSound'
    BY <1>1, <2>1, OpenBegins DEF IInv
  <2> QED BY <1>1, <2>2, AskingKeeps
<1>3. CASE dead # {}
  <2>1. Begin(n, "reuse", p, tabs[first].id, FALSE, "connect") /\ UNCHANGED creating
    BY <1>3 DEF ConnectQuick
  <2>2. first \in dead
    <3>1. dead \in SUBSET Nat /\ IsFiniteSet(dead)
      <4>1. DOMAIN tabs = 1..Len(tabs) /\ Len(tabs) \in Nat
        BY DEF IInv, Shows
      <4>2. IsFiniteSet(1..Len(tabs)) /\ dead \in SUBSET (1..Len(tabs))
        BY <4>1, FS_Interval
      <4> QED BY <4>2, FS_Subset
    <3> HIDE DEF dead
    <3>2. \E i \in dead : \A j \in dead : i <= j
      BY <1>3, <3>1, LeastOne
    <3> QED BY <3>2
  <2> HIDE DEF first
  <2>3. /\ tabs[first].id \in Ids /\ Opened(tabs[first].id) /\ profile[tabs[first].id] = p
    BY <2>2, AskLasts
  <2>4. CallsSound' /\ CreatingSound'
    BY <1>1, <2>1, <2>3, OtherBegins DEF IInv
  <2> QED BY <1>1, <2>4, AskingKeeps
<1> QED BY <1>2, <1>3

\* connectLocal keeps the invariant.
LEMMA ConnectLocalKeeps ==
    ASSUME IInv, Ask, NEW n \in Slots, NEW tab \in {0} \union Ids, ConnectLocal(n, tab)
    PROVE  IInv'
<1>1. /\ Begin(n, "local", Local, tab, FALSE, "connect") /\ Local \in Profiles
      /\ UNCHANGED <<tabs, active, creating, auto, closedTabs>>
  BY DEF ConnectLocal, Profiles
<1>2. CallsSound' /\ CreatingSound'
  BY <1>1, AskLasts, OtherBegins DEF IInv, OfTab
<1> QED BY <1>1, <1>2, AskingKeeps

\* reopenClosedTab keeps the invariant.
LEMMA ReopenKeeps ==
    ASSUME IInv, Ask, NEW n \in Slots, ReopenClosedTab(n)
    PROVE  IInv'
<1> DEFINE tab == Head(closedTabs)
<1>1. tab.id \in Ids /\ tab.p \in Profiles /\ UNCHANGED <<tabs, active, auto, closedTabs>>
  <2> DEFINE Records == [id : Ids, p : Profiles]
  <2>1. closedTabs # <<>> /\ closedTabs \in Seq(Records)
    BY DEF ReopenClosedTab, IInv, PageSound
  <2>2. tab \in Records
    <3> HIDE DEF Records
    <3> QED BY <2>1
  <2> QED BY <2>2 DEF ReopenClosedTab
<1>2. \/ ConnectLocal(n, tab.id)
      \/ Begin(n, "open", tab.p, tab.id, FALSE, "connect") /\ UNCHANGED creating
      \/ OpenSession(n, tab.p, tab.id, FALSE)
  <2>1. CASE tab.p = Local
    BY <2>1, ProfilesAssumption DEF ReopenClosedTab
  <2>2. CASE tab.p # Local /\ tab.p \in Quick
    BY <2>2 DEF ReopenClosedTab
  <2>3. CASE tab.p # Local /\ tab.p \notin Quick
    BY <2>3 DEF ReopenClosedTab
  <2> QED BY <2>1, <2>2, <2>3
<1> HIDE DEF tab
<1>3. CASE ConnectLocal(n, tab.id)
  BY <1>1, <1>3, ConnectLocalKeeps
<1>4. CASE Begin(n, "open", tab.p, tab.id, FALSE, "connect") /\ UNCHANGED creating
  <2>1. CallsSound' /\ CreatingSound'
    BY <1>1, <1>4, AskLasts, OtherBegins DEF IInv, OfTab
  <2> QED BY <1>1, <2>1, AskingKeeps
<1>5. CASE OpenSession(n, tab.p, tab.id, FALSE)
  <2>1. CallsSound' /\ CreatingSound'
    BY <1>1, <1>5, AskLasts, OpenBegins DEF IInv
  <2> QED BY <1>1, <2>1, AskingKeeps
<1> QED BY <1>2, <1>3, <1>4, <1>5

\* reconnectTab keeps the invariant.
LEMMA ReconnectTabKeeps ==
    ASSUME IInv, BoundsAssumption, Ask, NEW n \in Slots, NEW i \in DOMAIN tabs, ReconnectTab(n, i)
    PROVE  IInv'
<1> DEFINE id == tabs[i].id
<1>1. /\ Lasting /\ id \in Ids /\ tabs[i].p \in Profiles /\ Opened(id) /\ profile[id] = tabs[i].p
  BY AskLasts
<1>2. auto' = Cleared(id) /\ active' = id /\ UNCHANGED <<creating, closedTabs>>
  BY DEF ReconnectTab
<1>3. AttemptsOK(auto)'
  <2>1. AttemptsOK(Cleared(id))
    BY ClearedOK DEF IInv, PageSound
  <2> QED BY <1>2, <2>1 DEF AttemptsOK
<1>4. CASE tabs[i].p = Local
  <2>1. Begin(n, "local", Local, 0, FALSE, "connect") /\ UNCHANGED tabs
    BY <1>4 DEF ReconnectTab
  <2>2. CallsSound' /\ CreatingSound'
    BY <1>1, <1>2, <1>4, <2>1, OtherBegins DEF IInv, OfTab
  <2>3. Shows(tabs)'
    BY <1>1, <2>1, ShowsLasts DEF IInv
  <2> QED BY <1>1, <1>2, <1>3, <2>2, <2>3, ActKeeps
<1>5. CASE tabs[i].p # Local
  <2>1. /\ Begin(n, "manual", tabs[i].p, id, FALSE, "reconnect")
        /\ tabs' = Marked(tabs, {id}, "reconnecting")
    BY <1>5 DEF ReconnectTab
  <2>2. CallsSound' /\ CreatingSound'
    BY <1>1, <1>2, <2>1, OtherBegins DEF IInv
  <2>3. Shows(tabs)'
    BY <1>1, <2>1, MarkedShows, ShowsLasts DEF IInv, TabStates
  <2> QED BY <1>1, <1>2, <1>3, <2>2, <2>3, ActKeeps
<1> QED BY <1>4, <1>5

\* closeTab keeps the invariant.
LEMMA CloseTabKeeps ==
    ASSUME IInv, Ask, NEW n \in Slots, NEW i \in DOMAIN tabs, CloseTab(n, i)
    PROVE  IInv'
<1>1. /\ Begin(n, "close", tabs[i].p, tabs[i].id, FALSE, "ask")
      /\ UNCHANGED <<tabs, active, creating, auto, closedTabs>>
  BY DEF CloseTab, focus
<1>2. /\ Lasting /\ tabs[i].id \in Ids /\ tabs[i].p \in Profiles
      /\ Opened(tabs[i].id) /\ profile[tabs[i].id] = tabs[i].p
  BY AskLasts
<1>3. CallsSound' /\ CreatingSound'
  BY <1>1, <1>2, OtherBegins DEF IInv
<1> QED BY <1>1, <1>3, AskingKeeps

\* setActiveTab keeps the invariant.
LEMMA SelectTabKeeps ==
    ASSUME IInv, Ask, NEW i \in DOMAIN tabs, SelectTab(i)
    PROVE  IInv'
<1>1. active' = tabs[i].id /\ UNCHANGED <<tabs, creating, auto, closedTabs, calls>>
  BY DEF SelectTab, Activate
<1>2. Lasting /\ tabs[i].id \in Ids
  BY AskLasts
<1>3. CallsSound' /\ CreatingSound' /\ Shows(tabs)' /\ AttemptsOK(auto)'
  BY <1>1, <1>2, NothingBegins, ShowsLasts DEF IInv, PageSound, AttemptsOK
<1> QED BY <1>1, <1>2, <1>3, ActKeeps

\* reorderTabs keeps the invariant: a permutation shows the same tabs.
LEMMA ReorderTabsKeeps ==
    ASSUME IInv, Ask, NEW i \in DOMAIN tabs, NEW j \in DOMAIN tabs, ReorderTabs(i, j)
    PROVE  IInv'
<1>1. UNCHANGED <<active, creating, auto, closedTabs, calls>> /\ UNCHANGED <<profile, bstate>>
  BY DEF ReorderTabs, focus, Ask
<1>2. Lasting
  BY AskLasts
<1>3. CallsSound' /\ CreatingSound' /\ Shows(tabs)' /\ AttemptsOK(auto)'
  BY <1>1, <1>2, NothingBegins, MovedShows DEF IInv, PageSound, AttemptsOK
<1> QED BY <1>1, <1>3, ActKeeps DEF IInv, PageSound

\* Everything the user does keeps the invariant.
LEMMA UserKeeps ==
    ASSUME IInv, BoundsAssumption, UserAct
    PROVE  IInv'
<1>1. Ask
  BY DEF UserAct
<1>2. ASSUME NEW n \in Slots, ConnectLocal(n, 0) PROVE IInv'
  BY <1>1, <1>2, ConnectLocalKeeps
<1> QED BY <1>1, <1>2, ConnectProfileKeeps, SubmitSecretKeeps, ConnectQuickKeeps, ReopenKeeps,
           ReconnectTabKeeps, CloseTabKeeps, SelectTabKeeps, ReorderTabsKeeps DEF UserAct

-----------------------------------------------------------------------------
(* Timers *)

\* Steps that leave the backend, the focus and the closed tabs alone.
LEMMA StripKeeps ==
    ASSUME IInv, UNCHANGED <<backend, active, closedTabs, listed, moves>>,
           CallsSound', CreatingSound', AttemptsOK(auto)', NEW strip, Shows(strip), tabs' = strip
    PROVE  IInv'
<1>1. BackendSound' /\ Lasting
  BY BackendSame DEF IInv
<1>2. Shows(tabs)'
  BY <1>1, ShowsLasts
<1>3. /\ active' \in {0} \union Ids /\ closedTabs' \in Seq([id : Ids, p : Profiles])
      /\ UNCHANGED listed /\ moves' \in Nat
  BY DEF IInv, PageSound
<1> QED BY <1>1, <1>2, <1>3, PageStepKeeps

\* An automatic reconnect whose timer fires keeps the invariant.
LEMMA TimerKeeps ==
    ASSUME IInv, BoundsAssumption, NEW id \in Ids, TimerFires(id), UNCHANGED bounds
    PROVE  IInv'
<1>1. /\ UNCHANGED <<backend, active, creating, closedTabs, listed, moves>> /\ auto[id].st = "timer"
      /\ Lasting
  BY BackendSame DEF IInv, TimerFires, timerFrame, focus, loading, bounds
<1>2. /\ AttemptsOK(auto) /\ Shows(tabs) /\ AutoReconnectMax \in Nat
      /\ auto[id] \in [att : 0..AutoReconnectMax, st : {"none", "idle", "timer", "flight", "gaveup"},
                       call : {0} \union Slots]
      /\ auto[id].att < AutoReconnectMax
  BY <1>1 DEF IInv, PageSound, AttemptsOK, BoundsAssumption
<1>3. Shows(Marked(tabs, {id}, "disconnected"))
  BY <1>2, MarkedShows DEF TabStates
<1>4. CASE /\ auto' = Cleared(id)
           /\ tabs' = IF \E i \in DOMAIN tabs : tabs[i] = Tab(id, "reconnecting")
                      THEN Marked(tabs, {id}, "disconnected") ELSE tabs
           /\ UNCHANGED calls
  <2>1. AttemptsOK(auto)'
    <3>1. AttemptsOK(Cleared(id))
      BY <1>2, ClearedOK
    <3> QED BY <1>4, <3>1 DEF AttemptsOK
  <2>2. CallsSound' /\ CreatingSound'
    BY <1>1, <1>4, NothingBegins DEF IInv
  <2>3. CASE tabs' = Marked(tabs, {id}, "disconnected")
    BY <1>1, <1>3, <2>1, <2>2, <2>3, StripKeeps
  <2>4. CASE tabs' = tabs
    BY <1>1, <1>2, <2>1, <2>2, <2>4, StripKeeps
  <2> QED BY <1>4, <2>3, <2>4
<1>5. CASE /\ auto' = [auto EXCEPT ![id].st = "idle"]
           /\ tabs' = Marked(tabs, {id}, "disconnected")
           /\ UNCHANGED calls
  <2>1. AttemptsOK(auto)'
    BY <1>2, <1>5 DEF AttemptsOK
  <2>2. CallsSound' /\ CreatingSound'
    BY <1>1, <1>5, NothingBegins DEF IInv
  <2> QED BY <1>1, <1>3, <1>5, <2>1, <2>2, StripKeeps
<1>6. ASSUME NEW i \in DOMAIN tabs, tabs[i].id = id, NEW n \in Slots,
             Begin(n, "auto", profile[id], id, TRUE, "connect"),
             auto' = [auto EXCEPT ![id] = [att |-> @.att + 1, st |-> "flight", call |-> n]],
             UNCHANGED tabs
      PROVE  IInv'
  <2>1. Opened(id) /\ profile[id] \in Profiles
    BY <1>6 DEF IInv, Shows, BackendSound
  <2>2. CallsSound' /\ CreatingSound'
    BY <1>1, <1>6, <2>1, OtherBegins DEF IInv
  <2>3. AttemptsOK(auto)'
    <3> DEFINE new == [att |-> auto[id].att + 1, st |-> "flight", call |-> n]
    <3>1. /\ new \in [att : 0..AutoReconnectMax, st : {"none", "idle", "timer", "flight", "gaveup"},
                      call : {0} \union Slots]
          /\ new.st # "timer"
      BY <1>2
    <3>2. auto' = [auto EXCEPT ![id] = new]
      BY <1>2, <1>6 DEF AttemptsOK
    <3> HIDE DEF new
    <3> QED BY <1>2, <3>1, <3>2 DEF AttemptsOK
  <2> QED BY <1>1, <1>2, <1>6, <2>2, <2>3, StripKeeps
<1> QED BY <1>4, <1>5, <1>6 DEF TimerFires

\* Scheduling the next automatic attempt keeps the invariant.
LEMMA RetryKeeps ==
    ASSUME IInv, BoundsAssumption, Retry, UNCHANGED bounds
    PROVE  IInv'
<1>1. UNCHANGED <<backend, active, creating, closedTabs, listed, moves, calls>> /\ Lasting
  BY BackendSame DEF IInv, Retry, focus, loading, bounds
<1>2. PICK ids : Schedule(ids, tabs, auto, userClosing)
  BY DEF Retry
<1>3. AttemptsOK(auto)' /\ \E strip : Shows(strip) /\ tabs' = strip
  BY <1>2, ScheduleKeeps DEF IInv, PageSound
<1>4. CallsSound' /\ CreatingSound'
  BY <1>1, NothingBegins DEF IInv
<1> QED BY <1>1, <1>3, <1>4, StripKeeps

-----------------------------------------------------------------------------
(* Events *)

\* An event is taken that leaves the page's calls alone.
LEMMA EventKeeps ==
    ASSUME IInv, NEW s \in Ids, queue[s] # <<>>, Taken(s), UNCHANGED eventFrame, UNCHANGED bounds,
           NEW strip, Shows(strip), tabs' = strip, active' \in {0} \union Ids, AttemptsOK(auto)'
    PROVE  IInv'
<1>1. UNCHANGED <<profile, stale, creating, closedTabs, listed, calls, moves>>
  BY DEF eventFrame, loading, bounds
<1>2. BackendSound' /\ Lasting
  BY <1>1, TakenKeeps DEF IInv
<1>3. Shows(tabs)' /\ CallsSound' /\ CreatingSound'
  BY <1>1, <1>2, ShowsLasts, NothingBegins DEF IInv
<1>4. closedTabs' \in Seq([id : Ids, p : Profiles]) /\ moves' \in Nat
  BY <1>1 DEF IInv, PageSound
<1> QED BY <1>1, <1>2, <1>3, <1>4, PageStepKeeps

\* A step that leaves the automatic reconnects alone keeps what is said of them.
LEMMA AutoSame ==
    ASSUME IInv, UNCHANGED auto
    PROVE  AttemptsOK(auto)'
BY DEF IInv, PageSound, AttemptsOK

\* The sender of an event has been opened.
LEMMA Sender ==
    ASSUME IInv, NEW s \in Ids, queue[s] # <<>>
    PROVE  Opened(s) /\ profile \in [Ids -> Profiles] /\ active \in {0} \union Ids /\ Shows(tabs)
BY DEF IInv, BackendSound, PageSound

\* An event acceptRuntimeEvent turns away keeps the invariant.
LEMMA DropEventKeeps ==
    ASSUME IInv, NEW s \in Ids, DropEvent(s), UNCHANGED bounds
    PROVE  IInv'
<1>1. queue[s] # <<>> /\ Taken(s) /\ UNCHANGED eventFrame /\ UNCHANGED <<tabs, active, auto>>
  BY DEF DropEvent, focus, recon
<1>2. AttemptsOK(auto)'
  BY <1>1, AutoSame
<1> QED BY <1>1, <1>2, EventKeeps, Sender

\* The connecting event keeps the invariant.
LEMMA ConnectingKeeps ==
    ASSUME IInv, NEW s \in Ids, OnConnecting(s), UNCHANGED bounds
    PROVE  IInv'
<1>1. queue[s] # <<>> /\ Taken(s) /\ UNCHANGED eventFrame /\ UNCHANGED auto
  BY DEF OnConnecting, Next1, recon
<1>2. AttemptsOK(auto)' /\ Opened(s) /\ profile \in [Ids -> Profiles] /\ active \in {0} \union Ids /\ Shows(tabs)
  BY <1>1, AutoSame, Sender
<1>3. active' \in {0} \union Ids
  BY <1>2 DEF OnConnecting, FocusIfNone, FinishFocus, focus
<1>4. CASE tabs' = tabs
  BY <1>1, <1>2, <1>3, <1>4, EventKeeps
<1>5. CASE s \notin TabIds /\ tabs' = Append(tabs, Tab(s, "connecting"))
  <2>1. Shows(Append(tabs, Tab(s, "connecting")))
    BY <1>2, <1>5, AppendShows DEF TabIds, TabStates
  <2> QED BY <1>1, <1>2, <1>3, <1>5, <2>1, EventKeeps
<1> QED BY <1>4, <1>5 DEF OnConnecting

\* The connected event keeps the invariant.
LEMMA ConnectedKeeps ==
    ASSUME IInv, NEW s \in Ids, OnConnected(s), UNCHANGED bounds
    PROVE  IInv'
<1>1. /\ queue[s] # <<>> /\ Taken(s) /\ UNCHANGED eventFrame /\ UNCHANGED <<active, auto>>
      /\ tabs' = Marked(tabs, {s}, "connected")
  BY DEF OnConnected, Next1, recon, focus
<1>2. AttemptsOK(auto)' /\ active' \in {0} \union Ids /\ Shows(tabs)
  BY <1>1, AutoSame, Sender
<1>3. Shows(Marked(tabs, {s}, "connected"))
  BY <1>2, MarkedShows DEF TabStates
<1> QED BY <1>1, <1>2, <1>3, EventKeeps

\* The event of a drop keeps the invariant.
LEMMA DroppedKeeps ==
    ASSUME IInv, BoundsAssumption, NEW s \in Ids, NEW type \in {"disconnected", "error"},
           OnDropped(s, type), UNCHANGED bounds
    PROVE  IInv'
<1>1. /\ queue[s] # <<>> /\ Taken(s) /\ UNCHANGED eventFrame /\ UNCHANGED active
      /\ Schedule({s}, Marked(tabs, {s}, type), auto, userClosing)
  BY DEF OnDropped, Next1, focus
<1>2. active' \in {0} \union Ids /\ Shows(Marked(tabs, {s}, type)) /\ AttemptsOK(auto)
  BY <1>1, Sender, MarkedShows DEF TabStates, IInv, PageSound
<1>3. AttemptsOK(auto)' /\ \E strip : Shows(strip) /\ tabs' = strip
  BY <1>1, <1>2, ScheduleKeeps
<1> QED BY <1>1, <1>2, <1>3, EventKeeps

\* The event of a session of the command line keeps the invariant.
LEMMA CliSessionKeeps ==
    ASSUME IInv, NEW s \in Ids, OnCliSession(s), UNCHANGED bounds
    PROVE  IInv'
<1>1. queue[s] # <<>> /\ Taken(s) /\ UNCHANGED eventFrame /\ UNCHANGED auto
  BY DEF OnCliSession, Next1, recon
<1>2. AttemptsOK(auto)' /\ Opened(s) /\ profile \in [Ids -> Profiles] /\ active \in {0} \union Ids /\ Shows(tabs)
  BY <1>1, AutoSame, Sender
<1>3. active' \in {0} \union Ids
  BY <1>2 DEF OnCliSession, FocusIfNone
<1>4. CASE tabs' = Marked(tabs, {s}, "connected")
  <2>1. Shows(Marked(tabs, {s}, "connected"))
    BY <1>2, MarkedShows DEF TabStates
  <2> QED BY <1>1, <1>2, <1>3, <1>4, <2>1, EventKeeps
<1>5. CASE s \notin TabIds /\ tabs' = Append(tabs, Tab(s, "connected"))
  <2>1. Shows(Append(tabs, Tab(s, "connected")))
    BY <1>2, <1>5, AppendShows DEF TabIds, TabStates
  <2> QED BY <1>1, <1>2, <1>3, <1>5, <2>1, EventKeeps
<1> QED BY <1>4, <1>5 DEF OnCliSession

\* The event of a recovery by the command line keeps the invariant.
LEMMA RecoveringKeeps ==
    ASSUME IInv, BoundsAssumption, NEW s \in Ids, OnCliSessionRecovering(s), UNCHANGED bounds
    PROVE  IInv'
<1>1. /\ queue[s] # <<>> /\ Taken(s) /\ UNCHANGED eventFrame /\ UNCHANGED active
      /\ auto' = Cleared(s) /\ tabs' = Marked(tabs, {s}, "reconnecting")
  BY DEF OnCliSessionRecovering, Next1, focus
<1>2. AttemptsOK(auto)'
  <2>1. AttemptsOK(Cleared(s))
    BY ClearedOK DEF IInv, PageSound
  <2> QED BY <1>1, <2>1 DEF AttemptsOK
<1>3. active' \in {0} \union Ids /\ Shows(Marked(tabs, {s}, "reconnecting"))
  BY <1>1, Sender, MarkedShows DEF TabStates
<1> QED BY <1>1, <1>2, <1>3, EventKeeps

\* The event that hands a tab over to another session keeps the invariant.
LEMMA ReplacedKeeps ==
    ASSUME IInv, BoundsAssumption, NEW s \in Ids, OnCliSessionReplaced(s), UNCHANGED bounds
    PROVE  IInv'
<1> DEFINE old == Head(queue[s]).old
<1>1. queue[s] # <<>> /\ UNCHANGED eventFrame /\ auto' = Cleared(old)
  BY DEF OnCliSessionReplaced, Next1
<1>2. AttemptsOK(auto)'
  <2>1. AttemptsOK(Cleared(old))
    BY ClearedOK DEF IInv, PageSound
  <2> QED BY <1>1, <2>1 DEF AttemptsOK
<1>3. Opened(s) /\ profile \in [Ids -> Profiles] /\ active \in {0} \union Ids /\ Shows(tabs)
  BY <1>1, Sender
<1>4. queue[s] \in Seq(Events)
  BY DEF IInv, BackendSound
<1>5. old # 0 => Opened(old) /\ profile[old] = profile[s]
  BY <1>1, <1>4 DEF IInv, BackendSound
<1>6. CASE ClosedMeanwhile(old, s)
  <2> DEFINE e == IF bstate[s] = "live" THEN <<[type |-> "disconnected", old |-> 0]>> ELSE <<>>
             q == Tail(queue[s]) \o e
  <2>1. /\ bstate' = [bstate EXCEPT ![s] = IF @ = "live" THEN "ended" ELSE @]
        /\ queue' = [queue EXCEPT ![s] = q]
        /\ UNCHANGED <<tabs, active>>
    BY <1>6 DEF OnCliSessionReplaced, IInv, BackendSound, focus
  <2>2. UNCHANGED <<profile, stale, creating, closedTabs, listed, calls, moves>>
    BY <1>1 DEF eventFrame, loading, bounds
  <2>3. /\ Lasting /\ bstate'[s] # "new"
        /\ bstate' \in [Ids -> {"new", "opening", "live", "ended", "failed"}]
    BY <1>3, <2>1, <2>2 DEF IInv, BackendSound, Lasting, Opened
  <2>4. e \in Seq(Events) /\ \A i \in DOMAIN e : e[i].old = 0
    <3>1. CASE bstate[s] = "live"
      BY <3>1 DEF Events, EventTypes
    <3>2. CASE bstate[s] # "live"
      BY <3>2
    <3> QED BY SMTT(40), <3>1, <3>2
  <2> HIDE DEF e
  <2>5. /\ Tail(queue[s]) \in Seq(Events)
        /\ \A i \in DOMAIN Tail(queue[s]) :
               i + 1 \in DOMAIN queue[s] /\ Tail(queue[s])[i] = queue[s][i + 1]
    BY SMTT(40), <1>1, <1>4
  <2>6. /\ q \in Seq(Events)
        /\ \A i \in DOMAIN q : \/ i \in DOMAIN Tail(queue[s]) /\ q[i] = Tail(queue[s])[i]
                               \/ /\ i - Len(Tail(queue[s])) \in DOMAIN e
                                  /\ q[i] = e[i - Len(Tail(queue[s]))]
    BY <2>4, <2>5
  <2> HIDE DEF q
  <2>7. ASSUME NEW i \in DOMAIN q, q[i].old # 0
        PROVE  Opened(q[i].old) /\ profile[q[i].old] = profile[s]
    <3>1. i \in DOMAIN Tail(queue[s]) /\ q[i] = Tail(queue[s])[i]
      BY <2>4, <2>6, <2>7
    <3>2. i + 1 \in DOMAIN queue[s] /\ q[i] = queue[s][i + 1]
      BY <2>5, <3>1
    <3> QED BY <2>7, <3>2 DEF IInv, BackendSound
  <2>8. Tells(s, q)
    BY <2>1, <2>2, <2>3, <2>6, <2>7 DEF Tells
  <2>9. \A t \in stale' : t \in Ids /\ bstate'[t] # "new"
    BY <2>2, <2>3 DEF IInv, BackendSound, Lasting, Opened
  <2>10. BackendSound'
    BY <1>3, <2>2, <2>3, <2>8, <2>9, QueueChanges DEF IInv
  <2>11. Shows(tabs)' /\ CallsSound' /\ CreatingSound'
    BY <1>3, <2>1, <2>2, <2>3, ShowsLasts, NothingBegins DEF IInv
  <2>12. closedTabs' \in Seq([id : Ids, p : Profiles]) /\ moves' \in Nat
    BY <2>2 DEF IInv, PageSound
  <2> QED BY <1>2, <1>3, <2>1, <2>2, <2>3, <2>10, <2>11, <2>12, PageStepKeeps
<1>7. CASE ~ClosedMeanwhile(old, s)
  <2>1. /\ Taken(s) /\ FollowTab(old, s)
        /\ tabs' = IF old \in TabIds THEN Replaced(tabs, old, s)
                   ELSE Append(Replaced(tabs, old, s), Tab(s, "connected"))
    BY <1>7 DEF OnCliSessionReplaced
  <2> HIDE DEF old
  <2>2. active' \in {0} \union Ids
    BY <1>3, <2>1 DEF FollowTab
  <2>3. \A i \in DOMAIN tabs : tabs[i].id = old => profile[s] = profile[old]
    <3>1. \A i \in DOMAIN tabs : tabs[i].id # 0
      BY <1>3 DEF Shows, Opened, Ids
    <3> QED BY <1>5, <3>1
  <2>4. Shows(Replaced(tabs, old, s))
    BY <1>3, <2>3, ReplacedShows
  <2>5. CASE tabs' = Replaced(tabs, old, s)
    BY <1>1, <1>2, <2>1, <2>2, <2>4, <2>5, EventKeeps
  <2>6. CASE old \notin TabIds /\ tabs' = Append(Replaced(tabs, old, s), Tab(s, "connected"))
    <3>1. \A i \in DOMAIN tabs : tabs[i].id # old
      BY <2>6 DEF TabIds
    <3>2. \A i \in DOMAIN Replaced(tabs, old, s) : Replaced(tabs, old, s)[i].id # s
      BY <1>3, <2>3, <3>1, ReplacedShows
    <3>3. Shows(Append(Replaced(tabs, old, s), Tab(s, "connected")))
      BY <1>3, <2>4, <3>2, AppendShows DEF TabStates
    <3> QED BY <1>1, <1>2, <2>1, <2>2, <2>6, <3>3, EventKeeps
  <2> QED BY <2>1, <2>5, <2>6
<1> QED BY <1>6, <1>7

\* Every event handled by the page keeps the invariant.
LEMMA EventsKeep ==
    ASSUME IInv, BoundsAssumption, NEW s \in Ids, Event(s), UNCHANGED bounds
    PROVE  IInv'
BY DropEventKeeps, ConnectingKeeps, ConnectedKeeps, DroppedKeeps, CliSessionKeeps, RecoveringKeeps,
   ReplacedKeeps DEF Event

-----------------------------------------------------------------------------
(* Answers *)

\* A call that ends disturbs the marks, the strip, the focus and the backend.
LEMMA AnswerKeeps ==
    ASSUME IInv, NEW n \in Slots, Quiescing(n), BackendSound', Lasting,
           NEW strip, Shows(strip), tabs' = strip,
           \/ Left(n)
           \/ UNCHANGED creating /\ calls[n].kind # "open",
           active' \in {0} \union Ids, closedTabs' \in Seq([id : Ids, p : Profiles]), AttemptsOK(auto)'
    PROVE  IInv'
<1>1. Finish(n) /\ UNCHANGED listed /\ moves' \in Nat
  BY DEF Quiescing, loading, bounds, IInv, PageSound
<1>2. CallsSound' /\ \A m \in Slots : calls'[m] = IF m = n THEN NoCall ELSE calls[m]
  BY <1>1, CallEnds DEF IInv
<1>3. CreatingSound'
  BY <1>2, CreatingEnds DEF IInv
<1>4. Shows(tabs)'
  BY ShowsLasts
<1> QED BY <1>1, <1>2, <1>3, <1>4, PageStepKeeps

\* A page step that leaves the backend alone.
LEMMA BackendLeft ==
    ASSUME IInv, UNCHANGED <<profile, bstate, queue, stale>>
    PROVE  BackendSound' /\ Lasting
BY BackendSame DEF IInv, backend

\* A step that leaves the closed tabs alone keeps what is said of them.
LEMMA ClosedSame ==
    ASSUME IInv, UNCHANGED closedTabs
    PROVE  closedTabs' \in Seq([id : Ids, p : Profiles])
BY DEF IInv, PageSound

\* Taking a reopened tab off the closed ones keeps what is said of them.
LEMMA ReopenedOK ==
    ASSUME IInv, NEW id, Reopened(id)
    PROVE  closedTabs' \in Seq([id : Ids, p : Profiles])
<1> DEFINE Records == [id : Ids, p : Profiles]
           kept == {i \in DOMAIN closedTabs : closedTabs[i].id # id}
<1>1. closedTabs \in Seq(Records) /\ kept \in SUBSET DOMAIN closedTabs /\ closedTabs' = Kept(closedTabs, kept)
  BY DEF IInv, PageSound, Reopened
<1> HIDE DEF Records, kept
<1>2. closedTabs' \in Seq(Records)
  BY <1>1, KeptItems
<1> QED BY <1>2 DEF Records

\* What is known of a call and of the session it was given.
LEMMA CallIs ==
    ASSUME IInv, NEW n \in Slots, calls[n] # NoCall
    PROVE  /\ calls[n] \in Requests /\ calls[n].p \in Profiles
           /\ calls[n].kind \in OfTab =>
                  calls[n].tab \in Ids /\ Opened(calls[n].tab) /\ profile[calls[n].tab] = calls[n].p
BY DEF IInv, CallsSound, Requests, Opened

\* A successful answer names a session the backend has opened.
LEMMA GivenSession ==
    ASSUME IInv, NEW n \in Slots, NEW kind \in {"open", "local", "reuse", "manual", "auto", "close"},
           Succeeded(n, kind)
    PROVE  /\ calls[n] # NoCall /\ calls[n].kind = kind
           /\ calls[n].got \in Ids /\ Opened(calls[n].got) /\ profile[calls[n].got] = calls[n].p
           /\ kind = "local" => calls[n].p = Local
<1>1. calls[n] # NoCall /\ calls[n].kind = kind /\ calls[n].st = "wait"
  BY DEF Succeeded, Ended, NoCall
<1> QED BY <1>1 DEF IInv, CallsSound, Opened

\* appendSession, when the opening call answers, keeps the invariant.
LEMMA OpenAnsweredKeeps ==
    ASSUME IInv, NEW n \in Slots, OpenAnswered(n)
    PROVE  IInv'
<1> DEFINE s == calls[n].got
<1>1. s \in Ids /\ Opened(s)
  BY GivenSession DEF OpenAnswered
<1>2. /\ Left(n) /\ Quiescing(n) /\ UNCHANGED auto /\ UNCHANGED <<profile, bstate, queue, stale>>
      /\ Reopened(calls[n].tab)
      /\ tabs' = IF s \in TabIds THEN Marked(tabs, {s}, "connected") ELSE Append(tabs, Tab(s, "connected"))
  BY DEF OpenAnswered, Quiescing
<1>3. /\ BackendSound' /\ Lasting /\ AttemptsOK(auto)'
      /\ closedTabs' \in Seq([id : Ids, p : Profiles])
  BY <1>2, BackendLeft, AutoSame, ReopenedOK
<1>4. active' \in {0} \union Ids
  BY <1>1 DEF OpenAnswered, FocusIfNone, FinishFocus, IInv, PageSound
<1> HIDE DEF s
<1>5. Shows(tabs) /\ profile \in [Ids -> Profiles]
  BY DEF IInv, BackendSound
<1>6. CASE tabs' = Marked(tabs, {s}, "connected")
  <2>1. Shows(Marked(tabs, {s}, "connected"))
    BY <1>5, MarkedShows DEF TabStates
  <2> QED BY <1>2, <1>3, <1>4, <1>6, <2>1, AnswerKeeps
<1>7. CASE s \notin TabIds /\ tabs' = Append(tabs, Tab(s, "connected"))
  <2>1. Shows(Append(tabs, Tab(s, "connected")))
    BY <1>1, <1>5, <1>7, AppendShows DEF TabIds, TabStates
  <2> QED BY <1>2, <1>3, <1>4, <1>7, <2>1, AnswerKeeps
<1> QED BY <1>2, <1>6, <1>7

\* The answer to connectLocal keeps the invariant.
LEMMA LocalAnsweredKeeps ==
    ASSUME IInv, NEW n \in Slots, LocalAnswered(n)
    PROVE  IInv'
<1> DEFINE s == calls[n].got
<1>1. s \in Ids /\ Opened(s) /\ profile[s] = Local /\ calls[n].kind # "open"
  BY GivenSession DEF LocalAnswered
<1>2. /\ Quiescing(n) /\ UNCHANGED <<creating, auto>> /\ UNCHANGED <<profile, bstate, queue, stale>>
      /\ Reopened(calls[n].tab) /\ tabs' = Append(tabs, Tab(s, "connected"))
  BY DEF LocalAnswered, Quiescing
<1>3. /\ BackendSound' /\ Lasting /\ AttemptsOK(auto)'
      /\ closedTabs' \in Seq([id : Ids, p : Profiles])
  BY <1>2, BackendLeft, AutoSame, ReopenedOK
<1>4. active' \in {0} \union Ids
  BY <1>1 DEF LocalAnswered, FinishFocus, IInv, PageSound
<1> HIDE DEF s
<1>5. Shows(Append(tabs, Tab(s, "connected")))
  BY <1>1, AppendShows DEF IInv, BackendSound, TabStates
<1> QED BY <1>1, <1>2, <1>3, <1>4, <1>5, AnswerKeeps

\* The answer to connectQuick on an existing tab keeps the invariant.
LEMMA ReuseAnsweredKeeps ==
    ASSUME IInv, NEW n \in Slots, ReuseAnswered(n)
    PROVE  IInv'
<1> DEFINE s == calls[n].got
           old == calls[n].tab
           p == calls[n].p
<1>1. /\ s \in Ids /\ Opened(s) /\ profile[s] = p /\ calls[n].kind = "reuse" /\ p \in Profiles
      /\ old \in Ids /\ Opened(old) /\ profile[old] = p
  BY GivenSession, CallIs DEF ReuseAnswered, OfTab
<1>2. /\ Finish(n) /\ UNCHANGED <<auto, closedTabs, listed, moves>>
      /\ UNCHANGED <<profile, bstate, queue, stale>>
      /\ tabs' = Replaced(tabs, old, s) /\ creating' = [creating EXCEPT ![p] = 0]
  BY DEF ReuseAnswered, Quiescing, loading, bounds
<1>3. /\ BackendSound' /\ Lasting /\ AttemptsOK(auto)'
      /\ closedTabs' \in Seq([id : Ids, p : Profiles]) /\ moves' \in Nat
  BY <1>2, BackendLeft, AutoSame, ClosedSame DEF IInv, PageSound
<1>4. active' \in {0} \union Ids
  BY <1>1 DEF ReuseAnswered, FinishFocus, IInv, PageSound
<1> HIDE DEF s, old, p
<1>5. Shows(tabs)'
  <2>1. Shows(Replaced(tabs, old, s))
    BY <1>1, ReplacedShows DEF IInv, BackendSound
  <2> QED BY <1>2, <1>3, <2>1, ShowsLasts
<1>6. CallsSound' /\ \A m \in Slots : calls'[m] = IF m = n THEN NoCall ELSE calls[m]
  BY <1>2, <1>3, CallEnds DEF IInv
<1>7. CreatingSound'
  <2>1. \A q \in Profiles : creating'[q] # 0 => creating'[q] = creating[q] /\ creating[q] # n
    BY <1>1, <1>2 DEF IInv, CreatingSound
  <2>2. creating' \in [Profiles -> {0} \union Slots]
    BY <1>2 DEF IInv, CreatingSound
  <2> QED BY <1>6, <2>1, <2>2 DEF IInv, CreatingSound
<1> QED BY <1>2, <1>3, <1>4, <1>5, <1>6, <1>7, PageStepKeeps

\* The failure of an opening call keeps the invariant.
LEMMA OpenFailedKeeps ==
    ASSUME IInv, NEW n \in Slots, OpenFailed(n)
    PROVE  IInv'
<1>1. Left(n) /\ Quiescing(n) /\ UNCHANGED <<profile, bstate, queue, stale, tabs, active, closedTabs, auto>>
  BY DEF OpenFailed, Quiescing, focus
<1>2. /\ BackendSound' /\ Lasting /\ AttemptsOK(auto)'
      /\ closedTabs' \in Seq([id : Ids, p : Profiles])
      /\ active' \in {0} \union Ids /\ Shows(tabs)
  BY <1>1, BackendLeft, AutoSame, ClosedSame DEF IInv, PageSound
<1> QED BY <1>1, <1>2, AnswerKeeps

\* discardUnclaimedSession keeps the invariant.
LEMMA DiscardKeeps ==
    ASSUME IInv, NEW s \in Ids, NEW p, DiscardUnclaimed(s, p), UNCHANGED <<profile, stale>>
    PROVE  BackendSound' /\ Lasting
BY BackendLeft, DisconnectKeeps DEF DiscardUnclaimed, IInv

\* replaceReconnectedTab
LEMMA TakeOverKeeps ==
    ASSUME IInv, NEW old \in Ids, NEW s \in Ids, Opened(s), profile[s] = profile[old], NEW p,
           TakeOver(old, s, p), UNCHANGED <<profile, stale>>
    PROVE  /\ BackendSound' /\ Lasting /\ active' \in {0} \union Ids
           /\ \E strip : Shows(strip) /\ tabs' = strip
<1>1. Shows(tabs) /\ profile \in [Ids -> Profiles] /\ active \in {0} \union Ids
  BY DEF IInv, BackendSound, PageSound
<1>2. CASE old \in TabIds
  <2>1. tabs' = Replaced(tabs, old, s) /\ FollowTab(old, s) /\ UNCHANGED <<bstate, queue>>
    BY <1>2 DEF TakeOver
  <2>2. Shows(Replaced(tabs, old, s))
    BY <1>1, ReplacedShows
  <2>3. active' \in {0} \union Ids
    BY <1>1, <2>1 DEF FollowTab
  <2> QED BY <2>1, <2>2, <2>3, BackendLeft
<1>3. CASE old \notin TabIds
  <2>1. DiscardUnclaimed(s, p) /\ UNCHANGED <<tabs, active>>
    BY <1>3 DEF TakeOver, focus
  <2> QED BY <1>1, <2>1, DiscardKeeps
<1> QED BY <1>2, <1>3

\* The fallback of a reconnect after a secret keeps the invariant.
LEMMA ManualFallbackKeeps ==
    ASSUME IInv, NEW n \in Slots, ManualFallback(n)
    PROVE  IInv'
<1>1. /\ calls[n] # NoCall /\ calls' = [calls EXCEPT ![n].st = "connect"]
      /\ UNCHANGED <<backend, active, creating, closedTabs, listed, moves>> /\ UNCHANGED <<tabs, auto>>
  BY DEF ManualFallback, Ended, NoCall, focus, loading, bounds
<1>2. Lasting /\ AttemptsOK(auto)' /\ Shows(tabs)
  BY <1>1, BackendSame, AutoSame DEF IInv
<1>3. CallsSound' /\ \A m \in Slots : calls'[m].kind = calls[m].kind /\ calls'[m].p = calls[m].p
  BY <1>1, <1>2, CallMoves DEF IInv
<1>4. CreatingSound'
  BY <1>1, <1>3, CreatingLasts DEF IInv
<1> QED BY <1>1, <1>2, <1>3, <1>4, StripKeeps

\* The answer to a manual reconnect keeps the invariant.
LEMMA ManualAnsweredKeeps ==
    ASSUME IInv, NEW n \in Slots, ManualAnswered(n)
    PROVE  IInv'
<1> DEFINE old == calls[n].tab
<1>1. calls[n] # NoCall /\ calls[n].kind = "manual"
  BY DEF ManualAnswered, Succeeded, FailedCall, Ended, NoCall
<1>2. old \in Ids /\ profile[old] = calls[n].p
  BY <1>1, CallIs DEF OfTab
<1>3. Quiescing(n) /\ UNCHANGED <<profile, stale, creating, closedTabs, auto>>
  BY DEF ManualAnswered, Quiescing
<1>4. AttemptsOK(auto)' /\ closedTabs' \in Seq([id : Ids, p : Profiles]) /\ calls[n].kind # "open"
  BY <1>1, <1>3, AutoSame, ClosedSame
<1>5. CASE Succeeded(n, "manual")
  <2>1. TakeOver(old, calls[n].got, calls[n].p)
    BY <1>5 DEF ManualAnswered
  <2>2. calls[n].got \in Ids /\ Opened(calls[n].got) /\ profile[calls[n].got] = profile[old]
    BY <1>2, <1>5, GivenSession
  <2>3. /\ BackendSound' /\ Lasting /\ active' \in {0} \union Ids
        /\ \E strip : Shows(strip) /\ tabs' = strip
    BY <1>2, <1>3, <2>1, <2>2, TakeOverKeeps
  <2> QED BY <1>3, <1>4, <2>3, AnswerKeeps
<1>6. CASE ~Succeeded(n, "manual")
  <2>1. tabs' = Marked(tabs, {old}, "error") /\ UNCHANGED <<bstate, queue, active>>
    BY <1>6 DEF ManualAnswered, focus
  <2>2. Shows(Marked(tabs, {old}, "error")) /\ active' \in {0} \union Ids
    BY <2>1, MarkedShows DEF IInv, PageSound, TabStates
  <2> QED BY <1>3, <1>4, <2>1, <2>2, BackendLeft, AnswerKeeps
<1> QED BY <1>5, <1>6

\* The answer to an automatic attempt keeps the invariant.
LEMMA AutoAnsweredKeeps ==
    ASSUME IInv, BoundsAssumption, NEW n \in Slots, AutoAnswered(n)
    PROVE  IInv'
<1> DEFINE old == calls[n].tab
           s == calls[n].got
<1>1. /\ s \in Ids /\ Opened(s) /\ profile[s] = profile[old] /\ old \in Ids /\ calls[n].kind # "open"
  BY GivenSession, CallIs DEF AutoAnswered, OfTab
<1>2. Quiescing(n) /\ UNCHANGED <<profile, stale, creating, closedTabs>>
  BY DEF AutoAnswered, Quiescing
<1>3. closedTabs' \in Seq([id : Ids, p : Profiles])
  BY <1>2, ClosedSame
<1>4. CASE Own(n)
  <2>1. TakeOver(old, s, calls[n].p) /\ auto' = Cleared(old)
    BY <1>4 DEF AutoAnswered
  <2>2. AttemptsOK(auto)'
    <3>1. AttemptsOK(Cleared(old))
      BY ClearedOK DEF IInv, PageSound
    <3> QED BY <2>1, <3>1 DEF AttemptsOK
  <2>3. /\ BackendSound' /\ Lasting /\ active' \in {0} \union Ids
        /\ \E strip : Shows(strip) /\ tabs' = strip
    BY <1>1, <1>2, <2>1, TakeOverKeeps
  <2> QED BY <1>1, <1>2, <1>3, <2>2, <2>3, AnswerKeeps
<1>5. CASE ~Own(n)
  <2>1. /\ UNCHANGED <<tabs, active, auto>>
        /\ UNCHANGED <<bstate, queue>> \/ DiscardUnclaimed(s, calls[n].p)
    BY <1>5 DEF AutoAnswered, focus
  <2>2. BackendSound' /\ Lasting
    BY <1>1, <1>2, <2>1, BackendLeft, DiscardKeeps
  <2>3. AttemptsOK(auto)' /\ Shows(tabs) /\ active' \in {0} \union Ids
    BY <2>1, AutoSame DEF IInv, PageSound
  <2> QED BY <1>1, <1>2, <1>3, <2>1, <2>2, <2>3, AnswerKeeps
<1> QED BY <1>4, <1>5

\* An attempt may lose its call, and may end.
LEMMA AttemptMarked ==
    ASSUME NEW table, AttemptsOK(table), NEW id \in Ids
    PROVE  /\ AttemptsOK([table EXCEPT ![id].call = 0])
           /\ AttemptsOK([table EXCEPT ![id].st = "idle", ![id].call = 0])
<1> DEFINE Entries == [att : 0..AutoReconnectMax, st : {"none", "idle", "timer", "flight", "gaveup"},
                       call : {0} \union Slots]
           over == [table[id] EXCEPT !.call = 0]
           ended == [table[id] EXCEPT !.st = "idle", !.call = 0]
<1>1. table \in [Ids -> Entries] /\ \A i \in Ids : table[i].st = "timer" => table[i].att < AutoReconnectMax
  BY DEF AttemptsOK
<1>2. over \in Entries /\ (over.st = "timer" => over.att < AutoReconnectMax)
  BY <1>1
<1>3. ended \in Entries /\ ended.st # "timer"
  BY <1>1
<1>4. ASSUME NEW v \in Entries, v.st = "timer" => v.att < AutoReconnectMax
      PROVE  AttemptsOK([table EXCEPT ![id] = v])
  <2> HIDE DEF Entries
  <2>1. [table EXCEPT ![id] = v] \in [Ids -> Entries]
    BY <1>1
  <2>2. \A i \in Ids : [table EXCEPT ![id] = v][i] = IF i = id THEN v ELSE table[i]
    BY <1>1
  <2> QED BY <1>1, <1>4, <2>1, <2>2 DEF AttemptsOK, Entries
<1>5. AttemptsOK([table EXCEPT ![id] = over]) /\ AttemptsOK([table EXCEPT ![id] = ended])
  BY <1>2, <1>3, <1>4
<1> QED BY <1>5

\* The failure of an automatic attempt keeps the invariant.
LEMMA AutoFailedKeeps ==
    ASSUME IInv, BoundsAssumption, NEW n \in Slots, AutoFailed(n)
    PROVE  IInv'
<1> DEFINE old == calls[n].tab
<1>1. calls[n] # NoCall /\ calls[n].kind = "auto"
  BY DEF AutoFailed, FailedCall, Ended, NoCall
<1>2. old \in Ids
  BY <1>1, CallIs DEF OfTab
<1>3. Quiescing(n) /\ UNCHANGED <<profile, bstate, queue, stale, active, creating, closedTabs>>
  BY DEF AutoFailed, Quiescing, focus
<1>4. /\ BackendSound' /\ Lasting /\ closedTabs' \in Seq([id : Ids, p : Profiles])
      /\ active' \in {0} \union Ids /\ calls[n].kind # "open"
  BY <1>1, <1>3, BackendLeft, ClosedSame DEF IInv, PageSound
<1>5. /\ Shows(tabs) /\ Shows(Marked(tabs, {old}, "error")) /\ AttemptsOK(auto)
      /\ AutoReconnectMax \in Nat
  BY MarkedShows DEF IInv, PageSound, TabStates, BoundsAssumption
<1>6. CASE UNCHANGED <<tabs, auto>>
  <2>1. AttemptsOK(auto)'
    BY <1>6, AutoSame
  <2> QED BY <1>3, <1>4, <1>5, <1>6, <2>1, AnswerKeeps
<1>7. CASE auto' = [auto EXCEPT ![old].call = 0] /\ UNCHANGED tabs
  <2>1. AttemptsOK(auto)'
    <3>1. AttemptsOK([auto EXCEPT ![old].call = 0])
      BY <1>2, <1>5, AttemptMarked
    <3> QED BY <1>7, <3>1 DEF AttemptsOK
  <2> QED BY <1>3, <1>4, <1>5, <1>7, <2>1, AnswerKeeps
<1>8. CASE /\ tabs' = Marked(tabs, {old}, "error")
           /\ auto' = [auto EXCEPT ![old] = [att |-> AutoReconnectMax, st |-> "gaveup", call |-> 0]]
  <2> DEFINE new == [att |-> AutoReconnectMax, st |-> "gaveup", call |-> 0]
  <2>1. /\ new \in [att : 0..AutoReconnectMax, st : {"none", "idle", "timer", "flight", "gaveup"},
                    call : {0} \union Slots]
        /\ new.st # "timer"
    BY <1>5
  <2>2. auto' = [auto EXCEPT ![old] = new]
    BY <1>8
  <2> HIDE DEF new
  <2>3. AttemptsOK(auto)'
    BY <1>5, <2>1, <2>2 DEF AttemptsOK
  <2> QED BY <1>3, <1>4, <1>5, <1>8, <2>3, AnswerKeeps
<1>9. CASE Schedule({old}, Marked(tabs, {old}, "error"), 
                    [auto EXCEPT ![old].st = "idle", ![old].call = 0], userClosing)
  <2>1. AttemptsOK([auto EXCEPT ![old].st = "idle", ![old].call = 0])
    BY <1>2, <1>5, AttemptMarked
  <2>2. AttemptsOK(auto)' /\ \E strip : Shows(strip) /\ tabs' = strip
    BY <1>5, <1>9, <2>1, ScheduleKeeps
  <2> QED BY <1>3, <1>4, <2>2, AnswerKeeps
<1> QED BY <1>6, <1>7, <1>8, <1>9 DEF AutoFailed

\* A close the backend refuses keeps the invariant.
LEMMA CloseRefusedKeeps ==
    ASSUME IInv, NEW n \in Slots, CloseRefused(n)
    PROVE  IInv'
<1>1. /\ Quiescing(n) /\ UNCHANGED <<profile, bstate, queue, stale, tabs, active, creating, closedTabs, auto>>
      /\ calls[n].kind # "open"
  BY DEF CloseRefused, Quiescing, closeFrame, focus, Ended
<1>2. /\ BackendSound' /\ Lasting /\ AttemptsOK(auto)'
      /\ closedTabs' \in Seq([id : Ids, p : Profiles])
      /\ active' \in {0} \union Ids /\ Shows(tabs)
  BY <1>1, BackendLeft, AutoSame, ClosedSame DEF IInv, PageSound
<1> QED BY <1>1, <1>2, AnswerKeeps

\* A close the backend confirms keeps the invariant.
LEMMA CloseConfirmedKeeps ==
    ASSUME IInv, BoundsAssumption, NEW n \in Slots, CloseConfirmed(n)
    PROVE  IInv'
<1> DEFINE id == calls[n].tab
<1>1. /\ calls[n] # NoCall /\ calls[n].kind = "close"
      /\ UNCHANGED <<profile, bstate, queue, stale, tabs, active, creating, listed, moves>>
      /\ auto' = Cleared(id)
  BY DEF CloseConfirmed, Ended, NoCall, closeFrame, loading, bounds, focus
<1>2. id \in Ids /\ calls[n].p \in Profiles
  BY <1>1, CallIs DEF OfTab
<1>3. BackendSound' /\ Lasting /\ active' \in {0} \union Ids /\ moves' \in Nat
  BY <1>1, BackendLeft DEF IInv, PageSound
<1>4. AttemptsOK(auto)'
  <2>1. AttemptsOK(Cleared(id))
    BY ClearedOK DEF IInv, PageSound
  <2> QED BY <1>1, <2>1 DEF AttemptsOK
<1>5. Shows(tabs)'
  BY <1>1, <1>3, ShowsLasts DEF IInv
<1>6. closedTabs' \in Seq([id : Ids, p : Profiles])
  <2> DEFINE Records == [id : Ids, p : Profiles]
             new == [id |-> id, p |-> calls[n].p]
             all == <<new>> \o closedTabs
             len == IF Len(closedTabs) < MaxClosed THEN Len(closedTabs) + 1 ELSE MaxClosed
  <2>1. closedTabs \in Seq(Records) /\ new \in Records /\ MaxClosed \in Nat
    BY <1>2 DEF IInv, PageSound, BoundsAssumption
  <2>2. closedTabs' = SubSeq(all, 1, len)
    BY DEF CloseConfirmed
  <2> HIDE DEF Records, new
  <2>3. all \in Seq(Records) /\ Len(all) = Len(closedTabs) + 1 /\ len \in 0..Len(all)
    BY <2>1
  <2> HIDE DEF all, len
  <2>4. SubSeq(all, 1, len) \in Seq(Records)
    BY <2>3
  <2> QED BY <2>2, <2>4 DEF Records
<1>7. /\ CallsSound'
      /\ \A m \in Slots : calls[m].kind = "open" => calls'[m].kind = "open" /\ calls'[m].p = calls[m].p
  <2> DEFINE new(m) == IF m = n THEN [calls[m] EXCEPT !.st = "close"]
                       ELSE IF auto[id].st = "flight" /\ auto[id].call = m THEN [calls[m] EXCEPT !.byClose = TRUE]
                       ELSE calls[m]
  <2>1. calls' = [m \in Slots |-> new(m)]
    BY DEF CloseConfirmed
  <2>2. ASSUME NEW m \in Slots, calls[m] # NoCall
        PROVE  /\ new(m) \in Requests
               /\ new(m).kind = calls[m].kind /\ new(m).p = calls[m].p /\ new(m).tab = calls[m].tab
               /\ \/ new(m).st # "wait"
                  \/ new(m).st = calls[m].st /\ new(m).got = calls[m].got
    <3>1. calls[m] \in Requests
      BY <2>2, CallIs
    <3>2. CASE new(m) = [calls[m] EXCEPT !.st = "close"]
      BY <3>1, <3>2 DEF Requests
    <3>3. CASE new(m) = [calls[m] EXCEPT !.byClose = TRUE]
      <4> DEFINE c == [calls[m] EXCEPT !.byClose = TRUE]
      <4>1. c \in Requests
        BY <3>1 DEF Requests
      <4>2. c.kind = calls[m].kind /\ c.p = calls[m].p /\ c.tab = calls[m].tab
        BY <3>1 DEF Requests
      <4>3. c.st = calls[m].st /\ c.got = calls[m].got
        BY <3>1 DEF Requests
      <4>4. new(m) = c
        BY <3>3
      <4> HIDE DEF c, new
      <4> QED BY <4>1, <4>2, <4>3, <4>4
    <3>4. CASE new(m) = calls[m]
      BY <3>1, <3>4
    <3> QED BY <3>2, <3>3, <3>4
  <2>3. ASSUME NEW m \in Slots, calls[m] = NoCall
        PROVE  new(m) = NoCall
    BY <1>1, <2>3 DEF NoCall
  <2> HIDE DEF new
  <2>4. calls' \in [Slots -> {NoCall} \union Requests]
    BY <2>1, <2>2, <2>3
  <2>5. CallsSound'
    BY <1>3, <2>1, <2>2, <2>3, <2>4, CallsLast DEF IInv
  <2>6. NoCall.kind # "open"
    BY DEF NoCall
  <2> QED BY <2>1, <2>2, <2>5, <2>6
<1>8. CreatingSound'
  BY <1>1, <1>7, CreatingLasts DEF IInv
<1> QED BY <1>1, <1>3, <1>4, <1>5, <1>6, <1>7, <1>8, PageStepKeeps

\* The end of closeTab keeps the invariant.
LEMMA CloseFinishedKeeps ==
    ASSUME IInv, NEW n \in Slots, CloseFinished(n)
    PROVE  /\ IInv'
           /\ active' # active => \A i \in DOMAIN tabs' : tabs'[i].id # active
<1> DEFINE id == calls[n].tab
           kept == {i \in DOMAIN tabs : tabs[i].id # id}
           left == Kept(tabs, kept)
           at == IF id \in TabIds THEN CHOOSE i \in DOMAIN tabs : tabs[i].id = id ELSE 1
<1>1. /\ Quiescing(n) /\ UNCHANGED <<profile, bstate, queue, stale, creating, closedTabs, auto>>
      /\ calls[n].kind # "open" /\ tabs' = left
      /\ active' = (IF active # id THEN active
                    ELSE IF left = <<>> THEN 0 ELSE left[IF at <= Len(left) THEN at ELSE Len(left)].id)
  BY DEF CloseFinished, Quiescing, closeFrame, focus, Ended, Activate
<1>2. /\ BackendSound' /\ Lasting /\ AttemptsOK(auto)'
      /\ closedTabs' \in Seq([id : Ids, p : Profiles])
      /\ active \in {0} \union Ids /\ Shows(tabs)
  BY <1>1, BackendLeft, AutoSame, ClosedSame DEF IInv, PageSound
<1>3. kept \in SUBSET DOMAIN tabs /\ \A i \in kept : tabs[i].id # id
  OBVIOUS
<1>4. at \in Nat /\ at >= 1
  <2>1. DOMAIN tabs = 1..Len(tabs)
    BY <1>2 DEF Shows
  <2> QED BY <2>1 DEF TabIds
<1> HIDE DEF kept, at
<1>5. Shows(left) /\ \A k \in DOMAIN left : left[k].id # id
  BY <1>2, <1>3, KeptShows
<1> HIDE DEF left, id
<1>6. active' \in {0} \union Ids
  <2>1. left \in Seq(TabRecords)
    BY <1>5 DEF Shows
  <2>2. CASE active = id /\ left # <<>>
    <3> DEFINE k == IF at <= Len(left) THEN at ELSE Len(left)
    <3>1. k \in DOMAIN left
      BY <1>4, <2>1, <2>2
    <3> HIDE DEF k
    <3>2. left[k] \in TabRecords
      BY <2>1, <3>1
    <3>3. left[k].id \in Ids
      BY <3>2 DEF TabRecords
    <3> QED BY <1>1, <2>2, <3>3 DEF k
  <2> QED BY <1>1, <1>2, <2>2
<1>7. IInv'
  BY <1>1, <1>2, <1>5, <1>6, AnswerKeeps
<1> QED BY <1>1, <1>5, <1>7

\* Every answer the page receives keeps the invariant.
LEMMA AnswersKeep ==
    ASSUME IInv, BoundsAssumption, NEW n \in Slots, Answer(n)
    PROVE  IInv'
BY OpenAnsweredKeeps, LocalAnsweredKeeps, ReuseAnsweredKeeps, OpenFailedKeeps, ManualFallbackKeeps,
   ManualAnsweredKeeps, AutoAnsweredKeeps, AutoFailedKeeps, CloseRefusedKeeps, CloseConfirmedKeeps,
   CloseFinishedKeeps DEF Answer

-----------------------------------------------------------------------------
(* Loading the page *)

\* The answer of ListSessions on its way to the page keeps the invariant.
LEMMA ListSessionsKeeps ==
    ASSUME IInv, ListSessions
    PROVE  IInv'
<1>1. /\ UNCHANGED <<profile, bstate, queue, stale>> /\ UNCHANGED <<calls, creating>> 
      /\ UNCHANGED <<tabs, active, closedTabs, auto, moves>>
  BY DEF ListSessions, loadFrame, backend, focus, recon, bounds
<1>2. BackendSound' /\ Lasting
  BY <1>1, BackendLeft
<1>3. Shows(tabs)' /\ CallsSound' /\ CreatingSound' /\ AttemptsOK(auto)'
  BY <1>1, <1>2, ShowsLasts, NothingBegins, AutoSame DEF IInv
<1>4. \A s \in DOMAIN listed' : Opened(s)' /\ listed'[s] \in {"connected", "connecting"}
  BY <1>1 DEF ListSessions, Opened
<1> QED BY <1>1, <1>2, <1>3, <1>4 DEF IInv, PageSound

\* What a concatenation returns.
LEMMA Joined ==
    ASSUME NEW S, NEW A \in Seq(S), NEW B \in Seq(S)
    PROVE  \A i \in DOMAIN (A \o B) : 
               \/ i \in DOMAIN A /\ (A \o B)[i] = A[i]
               \/ i - Len(A) \in DOMAIN B /\ (A \o B)[i] = B[i - Len(A)]
<1>1. /\ Len(A) \in Nat /\ Len(B) \in Nat
      /\ DOMAIN A = 1..Len(A) /\ DOMAIN B = 1..Len(B)
  OBVIOUS
<1>2. DOMAIN (A \o B) = 1..(Len(A) + Len(B))
  BY <1>1
<1> QED BY <1>1, <1>2, ConcatProperties

\* The answer of ListSessions gives a tab to every session without one, and
\* changes no tab of a session it does not name.
LEMMA HydratedShows ==
    ASSUME IInv, BoundsAssumption, Hydrate
    PROVE  /\ \E strip : Shows(strip) /\ tabs' = strip
           /\ \A i \in DOMAIN tabs' : tabs'[i].id \in DOMAIN listed \/ \E j \in DOMAIN tabs : tabs'[i] = tabs[j]
<1> DEFINE all == [s \in Ids |-> s]
           fresh == DOMAIN listed \ TabIds
           new == Kept(all, fresh)
           A == [i \in DOMAIN tabs |-> IF tabs[i].id \in DOMAIN listed 
                                       THEN [tabs[i] EXCEPT !.st = listed[tabs[i].id]] ELSE tabs[i]]
           B == [i \in DOMAIN new |-> Tab(new[i], listed[new[i]])]
<1>1. tabs' = A \o B
  BY DEF Hydrate
<1>2. /\ Shows(tabs) /\ profile \in [Ids -> Profiles] /\ MaxSessions \in Nat
      /\ \A s \in DOMAIN listed : s \in Ids /\ Opened(s) /\ listed[s] \in TabStates
  BY DEF IInv, BackendSound, PageSound, Opened, TabStates, BoundsAssumption
<1>3. /\ tabs \in Seq(TabRecords) /\ DOMAIN tabs = 1..Len(tabs) /\ Len(tabs) \in Nat
      /\ \A i \in DOMAIN tabs : tabs[i] \in TabRecords
  BY <1>2 DEF Shows
<1>4. all \in Seq(Ids) /\ fresh \in SUBSET DOMAIN all /\ \A s \in DOMAIN all : all[s] = s
  <2>1. all \in [1..MaxSessions -> Ids]
    BY DEF Ids
  <2>2. all \in Seq(Ids)
    BY <1>2, <2>1, SeqDef
  <2> QED BY <1>2, <2>2
<1>5. /\ fresh \in SUBSET DOMAIN listed
      /\ \A i \in DOMAIN tabs : tabs[i].id \notin fresh
  BY DEF TabIds
<1> HIDE DEF all, fresh
<1>6. /\ new \in Seq(Ids)
      /\ \A k \in DOMAIN new : new[k] \in fresh
      /\ \A k, m \in DOMAIN new : new[k] = new[m] => k = m
  <2>1. new \in Seq(Ids)
    BY <1>4, KeptItems
  <2>2. PICK from \in [DOMAIN new -> fresh] :
          /\ \A k \in DOMAIN new : new[k] = all[from[k]]
          /\ \A k, m \in DOMAIN new : from[k] = from[m] => k = m
    BY <1>4, KeptItems
  <2> HIDE DEF new
  <2>3. \A k \in DOMAIN new : new[k] = from[k] /\ from[k] \in fresh
    BY <1>4, <2>2
  <2> QED BY <2>1, <2>2, <2>3
<1>7. DOMAIN new = 1..Len(new) /\ Len(new) \in Nat
  BY <1>6
<1> HIDE DEF new
<1>8. \A i \in DOMAIN tabs : A[i] \in TabRecords /\ A[i].id = tabs[i].id /\ A[i].p = tabs[i].p
  <2> SUFFICES ASSUME NEW i \in DOMAIN tabs
               PROVE  A[i] \in TabRecords /\ A[i].id = tabs[i].id /\ A[i].p = tabs[i].p
    OBVIOUS
  <2>1. CASE tabs[i].id \in DOMAIN listed
    <3>1. A[i] = [tabs[i] EXCEPT !.st = listed[tabs[i].id]] /\ listed[tabs[i].id] \in TabStates
      BY <1>2, <2>1
    <3> QED BY <1>3, <3>1 DEF TabRecords
  <2>2. CASE tabs[i].id \notin DOMAIN listed
    BY <1>3, <2>2
  <2> QED BY <2>1, <2>2
<1>9. \A k \in DOMAIN new : /\ B[k] \in TabRecords /\ B[k].id = new[k] /\ B[k].p = profile[new[k]]
                           /\ Opened(new[k])
  BY <1>2, <1>5, <1>6 DEF Tab, TabRecords
<1>10. DOMAIN A = DOMAIN tabs /\ A \in [1..Len(tabs) -> TabRecords]
  BY <1>3, <1>8
<1>11. DOMAIN B = DOMAIN new /\ B \in [1..Len(new) -> TabRecords]
  BY <1>7, <1>9
<1>16. \A i \in DOMAIN tabs : A[i].id \in DOMAIN listed \/ A[i] = tabs[i]
  BY <1>8
<1>17. \A i \in DOMAIN new : B[i].id \in DOMAIN listed
  BY <1>5, <1>6, <1>9
<1> HIDE DEF A, B
<1>12. Shows(A)
  <2>1. A \in Seq(TabRecords)
    BY <1>3, <1>10, SeqDef
  <2> QED BY <1>2, <1>8, <1>10, <2>1 DEF Shows
<1>13. Shows(B)
  <2>1. B \in Seq(TabRecords)
    BY <1>7, <1>11, SeqDef
  <2> QED BY <1>6, <1>9, <1>11, <2>1 DEF Shows
<1>14. \A i \in DOMAIN A, j \in DOMAIN B : A[i].id # B[j].id
  BY <1>5, <1>6, <1>8, <1>9, <1>10, <1>11
<1>15. Shows(A \o B)
  BY <1>12, <1>13, <1>14, JoinedShows
<1>18. \A i \in DOMAIN (A \o B) : 
           \/ i \in DOMAIN A /\ (A \o B)[i] = A[i]
           \/ i - Len(A) \in DOMAIN B /\ (A \o B)[i] = B[i - Len(A)]
  <2>1. A \in Seq(TabRecords) /\ B \in Seq(TabRecords)
    BY <1>12, <1>13 DEF Shows
  <2> QED BY <2>1, Joined
<1>19. \A i \in DOMAIN (A \o B) : 
           \/ (A \o B)[i].id \in DOMAIN listed
           \/ \E j \in DOMAIN tabs : (A \o B)[i] = tabs[j]
  BY <1>10, <1>11, <1>16, <1>17, <1>18
<1> QED BY <1>1, <1>15, <1>19

\* Loading the tabs from ListSessions keeps the invariant.
LEMMA HydrateKeeps ==
    ASSUME IInv, BoundsAssumption, Hydrate
    PROVE  IInv'
<1>1. /\ UNCHANGED <<profile, bstate, queue, stale>> /\ UNCHANGED <<calls, creating>> 
      /\ UNCHANGED <<closedTabs, auto, listed, moves>>
  BY DEF Hydrate, backend, recon, bounds
<1>2. BackendSound' /\ Lasting
  BY <1>1, BackendLeft
<1>3. CallsSound' /\ CreatingSound' /\ AttemptsOK(auto)'
  BY <1>1, <1>2, NothingBegins, AutoSame DEF IInv
<1>4. Shows(tabs)'
  BY <1>2, HydratedShows, ShowsLasts
<1>5. active' \in {0} \union Ids
  BY DEF Hydrate, FocusIfNone, focus, IInv, PageSound, Opened
<1> QED BY <1>1, <1>2, <1>3, <1>4, <1>5, PageStepKeeps DEF IInv, PageSound

\* Restoring the workspace's profiles keeps the invariant.
LEMMA RestoreKeeps ==
    ASSUME IInv, NEW n \in Slots, NEW p \in Saved, Restore(n, p)
    PROVE  IInv'
<1>1. /\ UNCHANGED <<profile, bstate, queue, stale>> /\ p \in Profiles
      /\ UNCHANGED <<tabs, active, closedTabs, auto, listed, moves>>
  BY DEF Restore, backend, recon, bounds, Profiles
<1>2. BackendSound' /\ Lasting
  BY <1>1, BackendLeft
<1>3. Shows(tabs)' /\ AttemptsOK(auto)'
  BY <1>1, <1>2, ShowsLasts, AutoSame DEF IInv
<1>4. CallsSound' /\ CreatingSound'
  <2>1. CASE OpenSession(n, p, 0, TRUE)
    BY <1>1, <1>2, <2>1, OpenBegins DEF IInv
  <2>2. CASE UNCHANGED <<creating, calls>>
    BY <1>2, <2>2, NothingBegins DEF IInv
  <2> QED BY <2>1, <2>2 DEF Restore
<1> QED BY <1>1, <1>2, <1>3, <1>4, PageStepKeeps DEF IInv, PageSound

\* The end of the loading keeps the invariant.
LEMMA RestoreDoneKeeps ==
    ASSUME IInv, RestoreDone
    PROVE  IInv'
<1>1. /\ UNCHANGED <<profile, bstate, queue, stale>> /\ UNCHANGED <<calls, creating>> 
      /\ UNCHANGED <<tabs, closedTabs, auto, listed, moves>>
  BY DEF RestoreDone, loadFrame, backend, recon, bounds
<1>2. BackendSound' /\ Lasting
  BY <1>1, BackendLeft
<1>3. Shows(tabs)' /\ CallsSound' /\ CreatingSound' /\ AttemptsOK(auto)'
  BY <1>1, <1>2, ShowsLasts, NothingBegins, AutoSame DEF IInv
<1>4. active' \in {0} \union Ids
  BY DEF RestoreDone, FinishFocus, focus, IInv, PageSound, Shows, Opened
<1> QED BY <1>1, <1>2, <1>3, <1>4, PageStepKeeps DEF IInv, PageSound

-----------------------------------------------------------------------------
(* The invariant *)

\* The initial states satisfy the invariant.
LEMMA Initially ==
    ASSUME ProfilesAssumption, BoundsAssumption, Init
    PROVE  IInv
<1>1. PICK p \in Saved \union {Local} :
        /\ profile = [s \in Ids |-> IF s = 1 THEN p ELSE Local]
        /\ bstate = [s \in Ids |-> IF s = 1 /\ p # Local THEN "live" ELSE "new"]
  BY DEF Init
<1>2. 1 \in Ids /\ AutoReconnectMax \in Nat
  BY DEF Ids, BoundsAssumption
<1>3. BackendSound
  <2>1. profile \in [Ids -> Profiles]
    BY <1>1 DEF Profiles
  <2>2. bstate \in [Ids -> {"new", "opening", "live", "ended", "failed"}]
    BY <1>1
  <2>3. queue = [s \in Ids |-> <<>>] /\ stale = {}
    BY DEF Init
  <2>4. queue \in [Ids -> Seq(Events)]
    BY <2>3
  <2> QED BY <2>1, <2>2, <2>3, <2>4 DEF BackendSound
<1>4. Shows(tabs) /\ active \in {0} \union Ids
  <2>1. CASE tabs = <<>> /\ active = 0
    BY <2>1 DEF Shows
  <2>2. CASE tabs = <<Tab(1, "connected")>> /\ active = 1 /\ bstate[1] = "live"
    <3>1. Tab(1, "connected") \in TabRecords
      BY <1>2, <1>3 DEF Tab, TabRecords, TabStates, BackendSound
    <3>2. tabs \in Seq(TabRecords) /\ DOMAIN tabs = {1} /\ tabs[1] = Tab(1, "connected")
      BY <2>2, <3>1
    <3>3. tabs[1].id = 1 /\ tabs[1].p = profile[1]
      BY <3>2 DEF Tab
    <3> QED BY <1>2, <2>2, <3>2, <3>3 DEF Shows, Opened
  <2> QED BY <2>1, <2>2 DEF Init
<1>5. CallsSound /\ CreatingSound
  <2>1. calls = [n \in Slots |-> NoCall] /\ creating = [q \in Profiles |-> 0]
    BY DEF Init
  <2> QED BY <2>1 DEF CallsSound, CreatingSound
<1>6. AttemptsOK(auto)
  <2>1. auto = [s \in Ids |-> Idle]
    BY DEF Init
  <2>2. Idle \in [att : 0..AutoReconnectMax, st : {"none", "idle", "timer", "flight", "gaveup"},
                  call : {0} \union Slots] /\ Idle.st = "none"
    BY <1>2 DEF Idle
  <2> HIDE DEF Idle
  <2> QED BY <2>1, <2>2 DEF AttemptsOK
<1>7. /\ closedTabs \in Seq([id : Ids, p : Profiles]) /\ moves \in Nat
      /\ DOMAIN listed = {}
  <2>1. closedTabs = <<>> /\ listed = <<>> /\ moves \in {0, 1}
    BY DEF Init
  <2> QED BY <2>1
<1> QED BY <1>3, <1>4, <1>5, <1>6, <1>7 DEF IInv, PageSound

\* A stuttering step keeps the invariant.
LEMMA Stuttering ==
    ASSUME IInv, UNCHANGED vars
    PROVE  IInv'
<1>1. UNCHANGED <<profile, bstate, queue, stale>> /\ UNCHANGED <<calls, creating>>
      /\ UNCHANGED <<tabs, active, closedTabs, auto, listed, moves>>
  BY DEF vars, backend, focus, recon, loading, bounds
<1>2. BackendSound' /\ Lasting
  BY <1>1, BackendLeft
<1>3. Shows(tabs)' /\ CallsSound' /\ CreatingSound' /\ AttemptsOK(auto)'
  BY <1>1, <1>2, ShowsLasts, NothingBegins, AutoSame DEF IInv
<1> QED BY <1>1, <1>2, <1>3, PageStepKeeps DEF IInv, PageSound

\* Every step of the page keeps the invariant.
LEMMA PageKeeps ==
    ASSUME IInv, BoundsAssumption, PageStep
    PROVE  IInv'
BY EventsKeep, TimerKeeps, RetryKeeps, AnswersKeep, ListSessionsKeeps, HydrateKeeps, RestoreDoneKeeps,
   RestoreKeeps DEF PageStep

\* The invariant holds throughout: however acts, events, answers and timers
\* interleave, the page's tables agree with each other and with the sessions
\* that were opened.
THEOREM Inductive == Spec => []IInv
<1>1. Init => IInv
  BY Initially, ProfilesAssumption, BoundsAssumption
<1>2. IInv /\ [Next]_vars => IInv'
  BY UserKeeps, PageKeeps, BackendKeeps, Stuttering, BoundsAssumption DEF Next
<1> QED BY <1>1, <1>2, PTL DEF Spec

\* The tables keep their types, a profile is marked as being created only while
\* an open of it is under way, and no tab makes more automatic attempts than
\* the limit (useSessions.ts, creatingProfiles and autoReconnect).
THEOREM WellFormed == Spec => []Consistent
<1>1. IInv => Consistent
  <2> SUFFICES ASSUME IInv PROVE Consistent
    OBVIOUS
  <2>1. tabs \in Seq(TabRecords) /\ active \in {0} \union Ids
    BY DEF IInv, Shows, PageSound
  <2>2. \A q \in Profiles : creating[q] # 0 => calls[creating[q]].kind = "open"
    BY DEF IInv, CreatingSound
  <2>3. \A id \in Ids : auto[id].att <= AutoReconnectMax
    <3> TAKE id \in Ids
    <3>1. auto[id].att \in 0..AutoReconnectMax
      BY DEF IInv, PageSound, AttemptsOK
    <3> QED BY <3>1
  <2> QED BY <2>1, <2>2, <2>3 DEF Consistent, TabRecords, TabStates
<1> QED BY <1>1, Inductive, PTL

\* No remote session has two tabs, whatever replaces, restores, reopens or
\* merges it (useSessions.ts, appendSession and replaceSessionTabs).
THEOREM OneTab == Spec => []OneTabPerSession
<1>1. IInv => OneTabPerSession
  BY DEF IInv, Shows, OneTabPerSession
<1> QED BY <1>1, Inductive, PTL

-----------------------------------------------------------------------------
(* The focus *)

\* The focus may leave a tab the user chose only with the tab, or for the user.
MayMove == \/ active \notin TabIds
           \/ \A i \in DOMAIN tabs' : tabs'[i].id # active
           \/ holder # User
           \/ moves' # moves

\* Tabs name sessions, and no request of a call is the user's.
LEMMA FocusFacts ==
    ASSUME IInv, BoundsAssumption
    PROVE  /\ 0 \notin TabIds /\ \A n \in Slots : n # User
           /\ 0 # User
<1>1. \A i \in DOMAIN tabs : tabs[i].id # 0
  BY DEF IInv, Shows, Opened, Ids
<1>2. MaxCalls \in Nat
  BY DEF BoundsAssumption
<1> QED BY <1>1, <1>2 DEF TabIds, Slots, User

\* setActiveTabState(current => current || id) and finishFocusRequest.
LEMMA MildFocus ==
    ASSUME IInv, BoundsAssumption, NEW id, NEW n \in Slots \union {0}, 
           FocusIfNone(id) \/ FinishFocus(n, id), active' # active
    PROVE  MayMove
BY FocusFacts DEF MayMove, FocusIfNone, FinishFocus

\* A tab that takes over a session leaves the one it had.
LEMMA ReplacedGone ==
    ASSUME Shows(tabs), NEW old, NEW new, new # old
    PROVE  \A i \in DOMAIN Replaced(tabs, old, new) : Replaced(tabs, old, new)[i].id # old
BY DEF Replaced, Tab

\* replaceReconnectedTab moves the focus only with the tab it replaces.
LEMMA FollowedFocus ==
    ASSUME IInv, NEW old, NEW s, FollowTab(old, s), active' # active,
           \/ tabs' = Replaced(tabs, old, s)
           \/ tabs' = Append(Replaced(tabs, old, s), Tab(s, "connected")) /\ old \notin TabIds
    PROVE  MayMove
<1>1. active = old /\ s # old
  BY DEF FollowTab
<1>2. CASE tabs' = Replaced(tabs, old, s)
  BY <1>1, <1>2, ReplacedGone DEF MayMove, IInv
<1>3. CASE old \notin TabIds
  BY <1>1, <1>3 DEF MayMove
<1> QED BY <1>2, <1>3

\* What the user does moves the focus only where the user puts it.
LEMMA UserFocus ==
    ASSUME IInv, UserAct
    PROVE  MayMove
BY DEF UserAct, Ask, IInv, PageSound, MayMove

\* Events move the focus only as FocusKept allows.
LEMMA EventFocus ==
    ASSUME IInv, BoundsAssumption, NEW s \in Ids, Event(s), active' # active
    PROVE  MayMove
<1>1. ASSUME OnConnecting(s) PROVE MayMove
  <2> DEFINE n == creating[profile[s]]
  <2>1. queue[s] # <<>> /\ profile[s] \in Profiles
    BY <1>1 DEF OnConnecting, Next1, IInv, BackendSound
  <2>2. n \in Slots \union {0}
    BY <2>1 DEF IInv, CreatingSound
  <2>3. FocusIfNone(s) \/ FinishFocus(n, s)
    BY <1>1 DEF OnConnecting, focus
  <2> HIDE DEF n
  <2> QED BY <2>2, <2>3, MildFocus
<1>2. ASSUME OnCliSession(s) PROVE MayMove
  BY <1>2, MildFocus DEF OnCliSession
<1>3. ASSUME OnCliSessionReplaced(s) PROVE MayMove
  <2> DEFINE old == Head(queue[s]).old
  <2>1. /\ FollowTab(old, s)
        /\ tabs' = IF old \in TabIds THEN Replaced(tabs, old, s)
                   ELSE Append(Replaced(tabs, old, s), Tab(s, "connected"))
    BY <1>3 DEF OnCliSessionReplaced, focus
  <2> HIDE DEF old
  <2> QED BY <2>1, FollowedFocus
<1>4. ASSUME UNCHANGED focus PROVE FALSE
  BY <1>4 DEF focus
<1> QED BY <1>1, <1>2, <1>3, <1>4
        DEF Event, DropEvent, OnConnected, OnDropped, OnCliSessionRecovering

\* Answers move the focus only as FocusKept allows.
LEMMA AnswerFocus ==
    ASSUME IInv, BoundsAssumption, NEW n \in Slots, Answer(n), active' # active
    PROVE  MayMove
<1>1. ASSUME UNCHANGED focus PROVE FALSE
  BY <1>1 DEF focus
<1>2. ASSUME OpenAnswered(n) \/ LocalAnswered(n) \/ ReuseAnswered(n) PROVE MayMove
  <2>1. FocusIfNone(calls[n].got) \/ FinishFocus(n, calls[n].got)
    BY <1>2 DEF OpenAnswered, LocalAnswered, ReuseAnswered
  <2> QED BY <2>1, MildFocus
<1>3. ASSUME ManualAnswered(n) \/ AutoAnswered(n) PROVE MayMove
  <2>1. TakeOver(calls[n].tab, calls[n].got, calls[n].p)
    BY <1>1, <1>3 DEF ManualAnswered, AutoAnswered
  <2>2. /\ tabs' = Replaced(tabs, calls[n].tab, calls[n].got)
        /\ FollowTab(calls[n].tab, calls[n].got)
    BY <1>1, <2>1 DEF TakeOver
  <2> QED BY <2>2, FollowedFocus
<1>4. ASSUME CloseFinished(n) PROVE MayMove
  BY <1>4, CloseFinishedKeeps DEF MayMove
<1> QED BY SMTT(40), <1>1, <1>2, <1>3, <1>4
        DEF Answer, OpenFailed, ManualFallback, AutoFailed, CloseRefused, CloseConfirmed

\* Every step of the page moves the focus only as FocusKept allows.
LEMMA PageFocus ==
    ASSUME IInv, BoundsAssumption, PageStep, active' # active
    PROVE  MayMove
<1>1. ASSUME UNCHANGED focus PROVE FALSE
  BY <1>1 DEF focus
<1>2. ASSUME Hydrate PROVE MayMove
  <2>1. PICK s \in DOMAIN listed : FocusIfNone(s)
    BY <1>1, <1>2 DEF Hydrate
  <2> QED BY <2>1, MildFocus
<1>3. ASSUME RestoreDone PROVE MayMove
  <2>1. \E i \in DOMAIN tabs : FinishFocus(0, tabs[i].id)
    BY <1>1, <1>3 DEF RestoreDone
  <2> QED BY <2>1, MildFocus
<1> QED BY <1>1, <1>2, <1>3, EventFocus, AnswerFocus
        DEF PageStep, TimerFires, timerFrame, Retry, ListSessions, Restore

\* Nobody but the user takes the focus from a tab the user chose: answers,
\* events and restored workspaces move it only when its tab goes
\* (useSessions.ts, focusRevision).
THEOREM FocusStays == Spec => FocusKept
<1>1. IInv /\ [Next]_vars =>
        [active' # active => \/ active \notin TabIds
                             \/ active \notin {t.id : t \in {tabs'[i] : i \in DOMAIN tabs'}}
                             \/ holder # User \/ moves' # moves]_vars
  <2> SUFFICES ASSUME IInv, [Next]_vars, active' # active
               PROVE  \/ active \notin TabIds
                      \/ active \notin {t.id : t \in {tabs'[i] : i \in DOMAIN tabs'}}
                      \/ holder # User \/ moves' # moves
    OBVIOUS
  <2>1. CASE UserAct
    BY <2>1, UserFocus DEF MayMove
  <2>2. CASE PageStep
    BY <2>2, PageFocus, BoundsAssumption DEF MayMove
  <2>3. CASE BackendStep
    <3>1. UNCHANGED backendFrame
      BY <2>3 DEF BackendStep, BDisconnect, BConnect, BHandshake, BDrop, BCliRecover, BCliReplace, BCli,
                  World
    <3> QED BY SMTT(40), <3>1 DEF backendFrame, focus
  <2>4. CASE UNCHANGED vars
    BY <2>4 DEF vars, focus
  <2> QED BY <2>1, <2>2, <2>3, <2>4 DEF Next
<1> QED BY <1>1, Inductive, PTL DEF Spec, FocusKept

-----------------------------------------------------------------------------
(* A live session with a tab is shown live, or the page is about to hear    *)
(* of it.                                                                   *)

Over(s) == bstate[s] \in {"ended", "failed"}
Telling == {"connected", "cli", "replaced"}
ToldIn(q) == \E i \in DOMAIN q : q[i].type \in Telling

\* The handshake is under way, an event that makes the tab connected is on its
\* way, or the session is about to be given up for another.
Due(s) ==
    \/ bstate[s] = "opening"
    \/ ToldIn(queue[s])
    \/ \E n \in Slots : calls[n].kind = "manual" /\ calls[n].st = "reconnect" /\ calls[n].tab = s

\* What a tab may show of a session.
Fits(id, st) ==
    \/ id \in DOMAIN listed \/ st = "connected" \/ Over(id)
    \/ st \in {"connecting", "reconnecting"} /\ Due(id)

\* Only what a session that goes on sends is in its queue.
QueueFits(b, q) ==
    /\ b = "opening" => \A i \in DOMAIN q : q[i].type = "connecting"
    /\ b = "live" => \A i \in DOMAIN q :
         /\ q[i].type \in Telling \union {"connecting"}
         /\ q[i].type = "connecting" => \E j \in DOMAIN q : j > i /\ q[j].type = "connected"

TabsFit == \A i \in DOMAIN tabs : Fits(tabs[i].id, tabs[i].st)
TimersFit == \A id \in Ids : auto[id].st \in {"timer", "flight"} => id \in DOMAIN listed \/ Over(id)
CallsFit == \A n \in Slots : calls[n].kind = "manual" /\ calls[n].st # "reconnect" => Over(calls[n].tab)
QueuesFit == \A s \in Ids : QueueFits(bstate[s], queue[s])

\* Ids are used in their order, so the running session of a profile is its last,
\* and no event of it is refused.
OrderFits ==
    /\ \A s, t \in Ids : bstate[s] # "new" /\ bstate[t] = "new" => s < t
    /\ \A t \in Ids : bstate[t] = "new" => profile[t] = Local
    /\ \A s, t \in Ids : bstate[s] \in {"opening", "live"} /\ profile[s] # Local /\ profile[t] = profile[s] => t <= s
SeenFits ==
    /\ seen \in [Profiles -> {0} \union Ids]
    /\ \A p \in Profiles : seen[p] # 0 => Opened(seen[p]) /\ profile[seen[p]] = p
ListedFits == load = "mounted" => listed = <<>>

LiveInv == TabsFit /\ TimersFit /\ CallsFit /\ QueuesFit /\ OrderFits /\ SeenFits /\ ListedFits

\* The same after a step, of a tab as it is then.
DueNext(s) ==
    \/ bstate'[s] = "opening"
    \/ ToldIn(queue'[s])
    \/ \E n \in Slots : calls'[n].kind = "manual" /\ calls'[n].st = "reconnect" /\ calls'[n].tab = s
OverNext(s) == bstate'[s] \in {"ended", "failed"}
FitsNext(id, st) ==
    \/ id \in DOMAIN listed' \/ st = "connected" \/ OverNext(id)
    \/ st \in {"connecting", "reconnecting"} /\ DueNext(id)

\* What fits of session s still does after the step.
Carries(s) == (Over(s) => OverNext(s)) /\ (Due(s) => DueNext(s) \/ OverNext(s))
OverStays == \A s \in Ids : Over(s) => OverNext(s)

\* Each tab is one of before, of a session that carries over, or fits anew.
StripFits == \A i \in DOMAIN tabs' :
    \/ FitsNext(tabs'[i].id, tabs'[i].st)
    \/ \E j \in DOMAIN tabs : /\ tabs'[i].id = tabs[j].id /\ tabs'[i].st = tabs[j].st
                              /\ Carries(tabs[j].id)

\* A manual reconnect begins with giving up the session it finds.
CallsCarry == \A n \in Slots :
    /\ calls[n].kind = "manual" /\ calls[n].st = "reconnect" =>
         calls'[n].kind = "manual" /\ calls'[n].st = "reconnect" /\ calls'[n].tab = calls[n].tab
    /\ calls'[n].kind = "manual" /\ calls'[n].st # "reconnect" =>
         calls[n].kind = "manual" /\ calls[n].st # "reconnect" /\ calls'[n].tab = calls[n].tab

\* Only a session that is over is reconnected automatically.
TimersCarry == \A id \in Ids : auto'[id].st \in {"timer", "flight"} =>
    auto[id].st \in {"timer", "flight"} \/ id \in DOMAIN listed \/ Over(id)

\* A strip that fits so does after a step that StripFits describes,
LEMMA StripKept ==
    ASSUME TabsFit, StripFits, DOMAIN listed \subseteq DOMAIN listed'
    PROVE  TabsFit'
<1>1. \A i \in DOMAIN tabs' : FitsNext(tabs'[i].id, tabs'[i].st)
  <2> SUFFICES ASSUME NEW i \in DOMAIN tabs', NEW j \in DOMAIN tabs,
                      tabs'[i].id = tabs[j].id, tabs'[i].st = tabs[j].st, Carries(tabs[j].id)
               PROVE  FitsNext(tabs'[i].id, tabs'[i].st)
    BY DEF StripFits
  <2> QED BY DEF TabsFit, Fits, FitsNext, Carries
<1> QED BY <1>1 DEF TabsFit, Fits, FitsNext, Over, OverNext, Due, DueNext

\* and so do the timers,
LEMMA TimersKept ==
    ASSUME TimersFit, TimersCarry, OverStays, DOMAIN listed \subseteq DOMAIN listed'
    PROVE  TimersFit'
BY DEF TimersFit, TimersCarry, OverStays, Over, OverNext

\* and the calls.
LEMMA CallsKept ==
    ASSUME IInv, CallsFit, CallsCarry, OverStays
    PROVE  CallsFit'
<1> SUFFICES ASSUME NEW n \in Slots, calls'[n].kind = "manual", calls'[n].st # "reconnect"
             PROVE  OverNext(calls'[n].tab)
  BY DEF CallsFit, Over, OverNext
<1>1. calls[n].kind = "manual" /\ calls[n].st # "reconnect" /\ calls'[n].tab = calls[n].tab
  BY DEF CallsCarry
<1>2. Over(calls[n].tab)
  BY <1>1 DEF CallsFit
<1>3. calls[n].tab \in Ids
  BY <1>1 DEF IInv, CallsSound, NoCall, OfTab, Opened
<1> QED BY <1>1, <1>2, <1>3 DEF OverStays

\* A step of the page: the parts that may be disturbed.
LEMMA StepFits ==
    ASSUME IInv, LiveInv, OverStays, StripFits, TimersCarry, CallsCarry,
           QueuesFit', OrderFits', SeenFits', UNCHANGED listed, load' # "mounted" \/ UNCHANGED load
    PROVE  LiveInv'
<1>1. TabsFit' /\ TimersFit' /\ CallsFit'
  BY StripKept, TimersKept, CallsKept DEF LiveInv
<1> QED BY <1>1 DEF LiveInv, ListedFits

\* Steps that leave the backend and its events alone.
LEMMA CalmCarries ==
    ASSUME UNCHANGED <<bstate, queue>>, CallsCarry
    PROVE  OverStays /\ \A s : Carries(s)
<1>1. \A s : Due(s) => DueNext(s)
  BY DEF Due, DueNext, CallsCarry
<1> QED BY <1>1 DEF OverStays, Carries, Over, OverNext

\* nor what the backend's events and ids say,
LEMMA CalmFits ==
    ASSUME LiveInv, UNCHANGED <<profile, bstate, queue>>
    PROVE  QueuesFit' /\ OrderFits'
BY DEF LiveInv, QueuesFit, QueueFits, OrderFits

\* so only the strip, the timers and the calls are left to look at.
LEMMA CalmStepFits ==
    ASSUME IInv, LiveInv, UNCHANGED <<profile, bstate, queue, listed, load>>, SeenFits',
           StripFits, TimersCarry, CallsCarry
    PROVE  LiveInv'
BY CalmCarries, CalmFits, StepFits

-----------------------------------------------------------------------------
(* The strip, the timers and the calls, one change at a time *)

\* What the tabs of a changed strip show.
LEMMA MarkedStates ==
    ASSUME NEW items, Shows(items), NEW ids, NEW st \in TabStates
    PROVE  /\ DOMAIN Marked(items, ids, st) = DOMAIN items
           /\ \A i \in DOMAIN items : /\ Marked(items, ids, st)[i].id = items[i].id
                                      /\ Marked(items, ids, st)[i].st = IF items[i].id \in ids THEN st ELSE items[i].st
<1> SUFFICES ASSUME NEW i \in DOMAIN items
             PROVE  Marked(items, ids, st)[i].st = IF items[i].id \in ids THEN st ELSE items[i].st
  BY MarkedShows
<1>1. items[i] \in TabRecords
  BY DEF Shows
<1> QED BY <1>1 DEF Marked, TabRecords

\* A strip left alone fits if the sessions of its tabs carry over.
LEMMA SameStrip ==
    ASSUME UNCHANGED tabs, \A i \in DOMAIN tabs : Carries(tabs[i].id)
    PROVE  StripFits
BY DEF StripFits

\* Marked tabs fit if the mark does, and the others carry over.
LEMMA MarkedFits ==
    ASSUME Shows(tabs), NEW ids, NEW st \in TabStates, tabs' = Marked(tabs, ids, st),
           \A i \in DOMAIN tabs : IF tabs[i].id \in ids THEN FitsNext(tabs[i].id, st) ELSE Carries(tabs[i].id)
    PROVE  StripFits
<1>1. /\ DOMAIN tabs' = DOMAIN tabs
      /\ \A i \in DOMAIN tabs : /\ tabs'[i].id = tabs[i].id
                                /\ tabs'[i].st = IF tabs[i].id \in ids THEN st ELSE tabs[i].st
  BY MarkedStates
<1> QED BY <1>1 DEF StripFits

\* A tab added fits if its state does.
LEMMA AppendFits ==
    ASSUME NEW items, NEW s, NEW st, Shows(items), FitsNext(s, st), tabs' = Append(items, Tab(s, st)),
           \A i \in DOMAIN items : 
               \/ FitsNext(items[i].id, items[i].st)
               \/ \E j \in DOMAIN tabs : /\ items[i].id = tabs[j].id /\ items[i].st = tabs[j].st
                                         /\ Carries(tabs[j].id)
    PROVE  StripFits
<1>1. items \in Seq(TabRecords) /\ Tab(s, st).id = s /\ Tab(s, st).st = st
  BY DEF Shows, Tab
<1> HIDE DEF TabRecords
<1>2. \A i \in DOMAIN tabs' : (i \in DOMAIN items /\ tabs'[i] = items[i]) \/ tabs'[i] = Tab(s, st)
  BY <1>1
<1> QED BY <1>1, <1>2 DEF StripFits

\* What replaceSessionTabs leaves: the tab that takes over the new session,
\* and tabs of neither.
LEMMA ReplacedStates ==
    ASSUME NEW items, Shows(items), NEW old, NEW new
    PROVE  \A i \in DOMAIN Replaced(items, old, new) :
               \/ Replaced(items, old, new)[i] = Tab(new, "connected")
               \/ \E j \in DOMAIN items : /\ Replaced(items, old, new)[i] = items[j]
                                          /\ items[j].id # old /\ items[j].id # new
<1> DEFINE kept == {i \in DOMAIN items : items[i].id # new \/ items[i].id = old}
           K == Kept(items, kept)
           R == Replaced(items, old, new)
<1>1. \A k \in DOMAIN K : \E i \in kept : K[k] = items[i]
  <2>1. kept \in SUBSET DOMAIN items
    OBVIOUS
  <2> HIDE DEF kept
  <2> QED BY <2>1, KeptShows
<1>2. R = [i \in DOMAIN K |-> IF K[i].id = old THEN Tab(new, "connected") ELSE K[i]]
  BY DEF Replaced
<1>3. \A k \in DOMAIN K : \E i \in DOMAIN items : K[k] = items[i] /\ (items[i].id # new \/ items[i].id = old)
  BY <1>1
<1> HIDE DEF kept, K, R
<1>4. \A i \in DOMAIN R : \/ R[i] = Tab(new, "connected")
                          \/ \E j \in DOMAIN items : R[i] = items[j] /\ items[j].id # old /\ items[j].id # new
  BY <1>2, <1>3
<1> QED BY <1>4 DEF R

\* So the strip fits, for the tab that takes over is connected.
LEMMA ReplacedFits ==
    ASSUME Shows(tabs), NEW old, NEW new, tabs' = Replaced(tabs, old, new),
           \A i \in DOMAIN tabs : tabs[i].id # new => Carries(tabs[i].id)
    PROVE  StripFits
<1>1. \A i \in DOMAIN tabs' : \/ tabs'[i] = Tab(new, "connected")
                              \/ \E j \in DOMAIN tabs : tabs'[i] = tabs[j] /\ tabs[j].id # new
  BY ReplacedStates
<1>2. Tab(new, "connected").st = "connected"
  BY DEF Tab
<1> QED BY <1>1, <1>2 DEF StripFits, FitsNext

\* The table of attempts.
LEMMA TimersSame ==
    ASSUME UNCHANGED auto
    PROVE  TimersCarry
BY DEF TimersCarry

\* clearAutoReconnect starts no timer.
LEMMA TimersCleared ==
    ASSUME AttemptsOK(auto), NEW id, auto' = Cleared(id)
    PROVE  TimersCarry
<1>1. \A t \in Ids : auto'[t] = Idle \/ auto'[t] = auto[t]
  BY DEF Cleared, AttemptsOK
<1> QED BY <1>1 DEF TimersCarry, Idle

\* scheduleAutoReconnect changes the tabs and the timers of the given sessions.
LEMMA ScheduleStates ==
    ASSUME NEW ids, NEW items, NEW table, NEW closing, Shows(items), AttemptsOK(table),
           Schedule(ids, items, table, closing)
    PROVE  /\ \A id \in Ids : auto'[id].st \in {"timer", "flight"} => table[id].st \in {"timer", "flight"} \/ id \in ids
           /\ DOMAIN tabs' = DOMAIN items
           /\ \A i \in DOMAIN items : /\ tabs'[i].id = items[i].id
                                      /\ tabs'[i].st = items[i].st \/ items[i].id \in ids
<1>1. PICK online \in BOOLEAN :
        LET want == {id \in ids \ closing : 
                       /\ online /\ table[id].st \notin {"timer", "flight", "gaveup"}
                       /\ \E i \in DOMAIN items : items[i].id = id /\ items[i].p \in Reconnecting}
            over == {id \in want : table[id].att >= AutoReconnectMax}
        IN  /\ auto' = [id \in Ids |-> IF id \in over THEN [table[id] EXCEPT !.st = "gaveup"]
                                       ELSE IF id \in want THEN [table[id] EXCEPT !.st = "timer"] ELSE table[id]]
            /\ tabs' = Marked(Marked(items, want \ over, "reconnecting"), over, "error")
  BY DEF Schedule
<1> DEFINE want == {id \in ids \ closing : 
                       /\ online /\ table[id].st \notin {"timer", "flight", "gaveup"}
                       /\ \E i \in DOMAIN items : items[i].id = id /\ items[i].p \in Reconnecting}
           over == {id \in want : table[id].att >= AutoReconnectMax}
<1>2. /\ auto' = [id \in Ids |-> IF id \in over THEN [table[id] EXCEPT !.st = "gaveup"]
                                 ELSE IF id \in want THEN [table[id] EXCEPT !.st = "timer"] ELSE table[id]]
      /\ tabs' = Marked(Marked(items, want \ over, "reconnecting"), over, "error")
  BY <1>1
<1>3. want \in SUBSET ids /\ over \in SUBSET want
  OBVIOUS
<1> HIDE DEF want, over
<1>4. ASSUME NEW id \in Ids, auto'[id].st \in {"timer", "flight"}
      PROVE  table[id].st \in {"timer", "flight"} \/ id \in ids
  <2>1. table[id] \in [att : 0..AutoReconnectMax, st : {"none", "idle", "timer", "flight", "gaveup"},
                       call : {0} \union Slots]
    BY DEF AttemptsOK
  <2> QED BY <1>2, <1>3, <1>4, <2>1
<1> DEFINE first == Marked(items, want \ over, "reconnecting")
<1>5. /\ Shows(first) /\ DOMAIN first = DOMAIN items
      /\ \A i \in DOMAIN items : /\ first[i].id = items[i].id
                                 /\ first[i].st = IF items[i].id \in want \ over THEN "reconnecting" ELSE items[i].st
  BY MarkedShows, MarkedStates DEF TabStates
<1>6. tabs' = Marked(first, over, "error")
  BY <1>2
<1> HIDE DEF first
<1>7. /\ DOMAIN tabs' = DOMAIN first
      /\ \A i \in DOMAIN first : /\ tabs'[i].id = first[i].id
                                 /\ tabs'[i].st = IF first[i].id \in over THEN "error" ELSE first[i].st
  BY <1>5, <1>6, MarkedStates DEF TabStates
<1>8. /\ DOMAIN tabs' = DOMAIN items
      /\ \A i \in DOMAIN items : /\ tabs'[i].id = items[i].id
                                 /\ tabs'[i].st = items[i].st \/ items[i].id \in ids
  BY <1>3, <1>5, <1>7
<1> QED BY <1>4, <1>8

\* It does so for sessions that are over.
LEMMA ScheduleFits ==
    ASSUME NEW ids, NEW items, NEW table, NEW closing, Shows(items), AttemptsOK(table),
           Schedule(ids, items, table, closing), UNCHANGED listed,
           \A id \in ids : id \in DOMAIN listed \/ (id \in Ids /\ Over(id) /\ OverNext(id)),
           \A id \in Ids \ ids : table[id].st \in {"timer", "flight"} => auto[id].st \in {"timer", "flight"},
           \A i \in DOMAIN items : items[i].id \notin ids =>
               \E j \in DOMAIN tabs : /\ items[i].id = tabs[j].id /\ items[i].st = tabs[j].st
                                      /\ Carries(tabs[j].id)
    PROVE  StripFits /\ TimersCarry
<1>1. /\ \A id \in Ids : auto'[id].st \in {"timer", "flight"} => table[id].st \in {"timer", "flight"} \/ id \in ids
      /\ DOMAIN tabs' = DOMAIN items
      /\ \A i \in DOMAIN items : /\ tabs'[i].id = items[i].id
                                 /\ tabs'[i].st = items[i].st \/ items[i].id \in ids
  BY ScheduleStates
<1>2. TimersCarry
  BY <1>1 DEF TimersCarry
<1>3. StripFits
  <2> SUFFICES ASSUME NEW i \in DOMAIN items
               PROVE  \/ FitsNext(tabs'[i].id, tabs'[i].st)
                      \/ \E j \in DOMAIN tabs : /\ tabs'[i].id = tabs[j].id /\ tabs'[i].st = tabs[j].st
                                                /\ Carries(tabs[j].id)
    BY <1>1 DEF StripFits
  <2>1. CASE items[i].id \in ids
    BY <1>1, <2>1 DEF FitsNext
  <2>2. CASE items[i].id \notin ids
    BY <1>1, <2>2
  <2> QED BY <2>1, <2>2
<1> QED BY <1>2, <1>3

\* A call that begins, ends or does not change.
LEMMA BeginCarries ==
    ASSUME IInv, NEW n \in Slots, NEW kind, NEW p, NEW tab, NEW pre, NEW st,
           kind = "manual" => st = "reconnect", Begin(n, kind, p, tab, pre, st)
    PROVE  CallsCarry /\ calls'[n].kind = kind /\ calls'[n].st = st /\ calls'[n].tab = tab
<1> DEFINE new == [kind |-> kind, p |-> p, tab |-> tab, pre |-> pre, st |-> st,
                   got |-> 0, byClose |-> FALSE]
<1>1. calls[n] = NoCall /\ calls' = [calls EXCEPT ![n] = new] /\ NoCall.kind # "manual"
  BY DEF Begin, Free, NoCall
<1>2. new.kind = kind /\ new.st = st /\ new.tab = tab
  OBVIOUS
<1> HIDE DEF new
<1>3. \A m \in Slots : calls'[m] = IF m = n THEN new ELSE calls[m]
  BY <1>1 DEF IInv, CallsSound
<1> QED BY <1>1, <1>2, <1>3 DEF CallsCarry

\* A call that ends.
LEMMA FinishCarries ==
    ASSUME IInv, NEW n \in Slots, Finish(n), calls[n].kind # "manual" \/ calls[n].st # "reconnect"
    PROVE  CallsCarry
<1>1. \A m \in Slots : calls'[m] = IF m = n THEN NoCall ELSE calls[m]
  BY DEF Finish, IInv, CallsSound
<1>2. NoCall.kind # "manual"
  BY DEF NoCall
<1> QED BY <1>1, <1>2 DEF CallsCarry

\* Calls left alone.
LEMMA SameCalls ==
    ASSUME UNCHANGED calls
    PROVE  CallsCarry
BY DEF CallsCarry

\* What is remembered of a profile's generations.
LEMMA SeenSame ==
    ASSUME LiveInv, Lasting, UNCHANGED seen
    PROVE  SeenFits'
BY DEF LiveInv, SeenFits, Lasting, Opened

\* A generation that is remembered is of a session of that profile.
LEMMA RememberFits ==
    ASSUME LiveInv, Lasting, NEW s, Opened(s), profile[s] \in Profiles, Remember(s)
    PROVE  SeenFits'
<1>1. /\ seen' \in [Profiles -> {0} \union Ids]
      /\ \A p \in Profiles : seen'[p] = seen[p] \/ (p = profile[s] /\ seen'[p] = s)
  BY DEF LiveInv, SeenFits, Remember, Opened
<1> QED BY <1>1 DEF LiveInv, SeenFits, Lasting, Opened

-----------------------------------------------------------------------------
(* What the user does *)

\* An act of the user leaves the backend alone.
LEMMA AskFits ==
    ASSUME IInv, LiveInv, Ask, StripFits, TimersCarry, CallsCarry
    PROVE  LiveInv'
<1>1. UNCHANGED <<profile, bstate, queue, listed, load, seen>> /\ Lasting
  BY DEF Ask, loading, Lasting, Opened
<1>2. SeenFits'
  BY <1>1, SeenSame
<1> QED BY <1>1, <1>2, CalmStepFits

\* Acts that only ask the backend.
LEMMA AskingFits ==
    ASSUME IInv, LiveInv, Ask, UNCHANGED <<tabs, auto>>, CallsCarry
    PROVE  LiveInv'
<1>1. StripFits
  BY CalmCarries, SameStrip DEF Ask
<1> QED BY <1>1, TimersSame, AskFits

\* Reopening a closed tab (reopenClosedTab) keeps the invariant.
LEMMA ReopenFits ==
    ASSUME IInv, LiveInv, Ask, NEW n \in Slots, ReopenClosedTab(n)
    PROVE  LiveInv'
<1> DEFINE tab == Head(closedTabs)
<1>1. CASE tab.p = Local
  BY <1>1, ProfilesAssumption, BeginCarries, AskingFits DEF ReopenClosedTab, ConnectLocal
<1>2. CASE tab.p # Local /\ tab.p \in Quick
  BY <1>2, BeginCarries, AskingFits DEF ReopenClosedTab
<1>3. CASE tab.p # Local /\ tab.p \notin Quick
  BY <1>3, BeginCarries, AskingFits DEF ReopenClosedTab, OpenSession
<1> QED BY <1>1, <1>2, <1>3

\* A quick connection (connectQuick) keeps the invariant.
LEMMA ConnectQuickFits ==
    ASSUME IInv, LiveInv, Ask, NEW n \in Slots, NEW p \in Quick, ConnectQuick(n, p)
    PROVE  LiveInv'
<1> DEFINE dead == {i \in DOMAIN tabs : tabs[i].p = p /\ tabs[i].st \in {"error", "disconnected"}}
           id == tabs[CHOOSE i \in dead : \A j \in dead : i <= j].id
<1>1. \/ Begin(n, "open", p, 0, FALSE, "connect")
      \/ Begin(n, "reuse", p, id, FALSE, "connect")
  BY DEF ConnectQuick, OpenSession
<1>2. UNCHANGED <<tabs, auto>>
  BY DEF ConnectQuick
<1> HIDE DEF id
<1>3. CallsCarry
  BY <1>1, BeginCarries
<1> QED BY <1>2, <1>3, AskingFits

\* The tab that is reconnected by hand waits for its call.
LEMMA ReconnectTabFits ==
    ASSUME IInv, LiveInv, Ask, NEW n \in Slots, NEW i \in DOMAIN tabs, ReconnectTab(n, i)
    PROVE  LiveInv'
<1> DEFINE id == tabs[i].id
<1>1. TimersCarry
  BY TimersCleared DEF ReconnectTab, IInv, PageSound
<1>2. CASE tabs[i].p = Local
  <2>1. Begin(n, "local", Local, 0, FALSE, "connect") /\ UNCHANGED tabs
    BY <1>2 DEF ReconnectTab
  <2>2. CallsCarry
    BY <2>1, BeginCarries
  <2>3. StripFits
    BY <2>1, <2>2, CalmCarries, SameStrip DEF Ask
  <2> QED BY <1>1, <2>2, <2>3, AskFits
<1>3. CASE tabs[i].p # Local
  <2>1. /\ Begin(n, "manual", tabs[i].p, id, FALSE, "reconnect")
        /\ tabs' = Marked(tabs, {id}, "reconnecting")
    BY <1>3 DEF ReconnectTab
  <2>2. CallsCarry /\ calls'[n].kind = "manual" /\ calls'[n].st = "reconnect" /\ calls'[n].tab = id
    <3> DEFINE kind == "manual"
               st == "reconnect"
    <3>1. Begin(n, kind, tabs[i].p, id, FALSE, st) /\ (kind = "manual" => st = "reconnect")
      BY <2>1
    <3> HIDE DEF kind, st, id
    <3>2. CallsCarry /\ calls'[n].kind = kind /\ calls'[n].st = st /\ calls'[n].tab = id
      BY <3>1, BeginCarries
    <3> QED BY <3>2 DEF kind, st
  <2>3. FitsNext(id, "reconnecting")
    BY <2>2 DEF FitsNext, DueNext
  <2>4. \A s : Carries(s)
    BY <2>2, CalmCarries DEF Ask
  <2>5. StripFits
    BY <2>1, <2>3, <2>4, MarkedFits DEF IInv, TabStates
  <2> QED BY <1>1, <2>2, <2>5, AskFits
<1> QED BY <1>2, <1>3

\* Reordering the tabs (reorderTabs) keeps the invariant.
LEMMA ReorderTabsFits ==
    ASSUME IInv, LiveInv, Ask, NEW i \in DOMAIN tabs, NEW j \in DOMAIN tabs, ReorderTabs(i, j)
    PROVE  LiveInv'
<1> DEFINE at(k) == IF k = j THEN i ELSE IF i <= k /\ k < j THEN k + 1
                    ELSE IF j < k /\ k <= i THEN k - 1 ELSE k
<1>1. DOMAIN tabs = 1..Len(tabs) /\ Len(tabs) \in Nat
  BY DEF IInv, Shows
<1>2. \A k \in DOMAIN tabs : at(k) \in DOMAIN tabs
  BY <1>1
<1>3. DOMAIN tabs' = DOMAIN tabs /\ \A k \in DOMAIN tabs : tabs'[k] = tabs[at(k)]
  BY DEF ReorderTabs
<1> HIDE DEF at
<1>4. CallsCarry /\ TimersCarry
  BY SameCalls, TimersSame DEF ReorderTabs
<1>5. StripFits
  BY <1>2, <1>3, <1>4, CalmCarries DEF StripFits, Ask
<1> QED BY <1>4, <1>5, AskFits

\* Whatever the user does keeps the invariant.
LEMMA UserFits ==
    ASSUME IInv, LiveInv, UserAct
    PROVE  LiveInv'
<1>1. Ask
  BY DEF UserAct
<1>2. ASSUME NEW n \in Slots, NEW p \in Saved, ConnectProfile(n, p) PROVE LiveInv'
  <2>1. Begin(n, "open", p, 0, FALSE, "connect") \/ UNCHANGED calls
    BY <1>2 DEF ConnectProfile, OpenSession
  <2> QED BY <1>1, <1>2, <2>1, BeginCarries, SameCalls, AskingFits DEF ConnectProfile
<1>3. ASSUME NEW n \in Slots, NEW p \in Saved, SubmitSecret(n, p) PROVE LiveInv'
  BY <1>1, <1>3, BeginCarries, AskingFits DEF SubmitSecret, OpenSession
<1>4. ASSUME NEW n \in Slots, ConnectLocal(n, 0) PROVE LiveInv'
  BY <1>1, <1>4, BeginCarries, AskingFits DEF ConnectLocal
<1>5. ASSUME NEW n \in Slots, NEW i \in DOMAIN tabs, CloseTab(n, i) PROVE LiveInv'
  BY <1>1, <1>5, BeginCarries, AskingFits DEF CloseTab
<1>6. ASSUME NEW i \in DOMAIN tabs, SelectTab(i) PROVE LiveInv'
  BY <1>1, <1>6, SameCalls, AskingFits DEF SelectTab
<1> QED BY <1>1, <1>2, <1>3, <1>4, <1>5, <1>6, ConnectQuickFits, ReopenFits, ReconnectTabFits,
           ReorderTabsFits DEF UserAct

-----------------------------------------------------------------------------
(* Timers *)

\* A timer that fires keeps the invariant: its session is over, so a tab it
\* marks disconnected fits.
LEMMA TimerFits ==
    ASSUME IInv, LiveInv, NEW id \in Ids, TimerFires(id)
    PROVE  LiveInv'
<1>1. /\ UNCHANGED <<profile, bstate, queue, listed, load, seen>> /\ Lasting
      /\ auto[id].st = "timer" /\ AttemptsOK(auto) /\ Shows(tabs)
  BY DEF TimerFires, timerFrame, backend, loading, Lasting, Opened, IInv, PageSound
<1>2. SeenFits'
  BY <1>1, SeenSame
<1>3. FitsNext(id, "disconnected")
  <2>1. id \in DOMAIN listed \/ Over(id)
    BY <1>1 DEF LiveInv, TimersFit
  <2> QED BY <1>1, <2>1 DEF FitsNext, Over, OverNext
<1>4. CASE /\ auto' = Cleared(id)
           /\ tabs' = Marked(tabs, {id}, "disconnected") \/ tabs' = tabs
           /\ UNCHANGED calls
  <2>1. TimersCarry /\ CallsCarry /\ \A s : Carries(s)
    BY <1>1, <1>4, TimersCleared, SameCalls, CalmCarries
  <2>2. StripFits
    BY <1>1, <1>3, <1>4, <2>1, MarkedFits, SameStrip DEF TabStates
  <2> QED BY <1>1, <1>2, <2>1, <2>2, CalmStepFits
<1>5. CASE /\ auto' = [auto EXCEPT ![id].st = "idle"]
           /\ tabs' = Marked(tabs, {id}, "disconnected")
           /\ UNCHANGED calls
  <2>1. TimersCarry
    BY <1>1, <1>5 DEF TimersCarry, AttemptsOK
  <2>2. CallsCarry /\ \A s : Carries(s)
    BY <1>1, <1>5, SameCalls, CalmCarries
  <2>3. StripFits
    BY <1>1, <1>3, <1>5, <2>2, MarkedFits DEF TabStates
  <2> QED BY <1>1, <1>2, <2>1, <2>2, <2>3, CalmStepFits
<1>6. ASSUME NEW n \in Slots, Begin(n, "auto", profile[id], id, TRUE, "connect"),
             auto' = [auto EXCEPT ![id] = [att |-> @.att + 1, st |-> "flight", call |-> n]],
             UNCHANGED tabs
      PROVE  LiveInv'
  <2>1. TimersCarry
    BY <1>1, <1>6 DEF TimersCarry, AttemptsOK
  <2>2. CallsCarry
    BY <1>6, BeginCarries
  <2>3. StripFits
    BY <1>1, <1>6, <2>2, CalmCarries, SameStrip
  <2> QED BY <1>1, <1>2, <2>1, <2>2, <2>3, CalmStepFits
<1> QED BY <1>4, <1>5, <1>6 DEF TimerFires

\* Retrying on being online or visible again keeps the invariant: only tabs
\* of sessions that are over look dead.
LEMMA RetryFits ==
    ASSUME IInv, LiveInv, Retry
    PROVE  LiveInv'
<1> DEFINE ids == {tabs[i].id : i \in {j \in DOMAIN tabs :
                     /\ tabs[j].p # Local /\ tabs[j].st \in {"error", "disconnected"}
                     /\ auto[tabs[j].id].st \notin {"flight", "gaveup"}}}
<1>1. /\ UNCHANGED <<profile, bstate, queue, listed, load, seen, calls>> /\ Lasting
      /\ Schedule(ids, tabs, auto, userClosing) /\ AttemptsOK(auto) /\ Shows(tabs)
  BY DEF Retry, backend, loading, Lasting, Opened, IInv, PageSound
<1>2. CallsCarry /\ \A s : Carries(s)
  BY <1>1, SameCalls, CalmCarries
<1>3. \A id \in ids : id \in DOMAIN listed \/ (id \in Ids /\ Over(id) /\ OverNext(id))
  <2> SUFFICES ASSUME NEW i \in DOMAIN tabs, tabs[i].st \in {"error", "disconnected"}
               PROVE  tabs[i].id \in DOMAIN listed \/ (tabs[i].id \in Ids /\ Over(tabs[i].id) /\ OverNext(tabs[i].id))
    OBVIOUS
  <2>1. tabs[i].id \in Ids
    BY DEF IInv, Shows, Opened
  <2>2. tabs[i].id \in DOMAIN listed \/ Over(tabs[i].id)
    BY DEF LiveInv, TabsFit, Fits
  <2> QED BY <1>1, <2>1, <2>2 DEF Over, OverNext
<1> HIDE DEF ids
<1>4. StripFits /\ TimersCarry
  BY <1>1, <1>2, <1>3, ScheduleFits
<1>5. SeenFits'
  BY <1>1, SeenSame
<1> QED BY <1>1, <1>2, <1>4, <1>5, CalmStepFits

-----------------------------------------------------------------------------
(* Events *)

\* Who sends is opened.
LEMMA SenderFits ==
    ASSUME IInv, LiveInv, NEW s \in Ids, queue[s] # <<>>
    PROVE  /\ Opened(s) /\ queue[s] \in Seq(Events) /\ profile[s] \in Profiles
           /\ QueueFits(bstate[s], queue[s])
           /\ bstate[s] \in {"opening", "live"} \/ Over(s)
BY DEF IInv, BackendSound, Opened, LiveInv, QueuesFit, Over

\* The page takes an event: the other sessions carry over, and so does the
\* sender of one that does not make the tab connected.
LEMMA TakenFits ==
    ASSUME IInv, LiveInv, NEW s \in Ids, queue[s] # <<>>, Taken(s), UNCHANGED <<profile, calls>>
    PROVE  /\ OverStays /\ QueuesFit' /\ OrderFits' /\ Lasting
           /\ \A t \in Ids : t # s \/ Over(s) \/ Head(queue[s]).type \notin Telling => Carries(t)
<1>1. /\ bstate' = bstate /\ queue' = [queue EXCEPT ![s] = Tail(queue[s])]
      /\ \A t \in Ids : queue'[t] = IF t = s THEN Tail(queue[s]) ELSE queue[t]
  BY DEF Taken, IInv, BackendSound
<1>2. queue[s] \in Seq(Events) /\ QueueFits(bstate[s], queue[s])
  BY SenderFits
<1> DEFINE q == queue[s]
           r == Tail(q)
<1> HIDE DEF Events
<1>3. /\ DOMAIN q = 1..Len(q) /\ Len(q) \in Nat \ {0}
      /\ DOMAIN r = 1..(Len(q) - 1) /\ \A i \in DOMAIN r : i + 1 \in DOMAIN q /\ r[i] = q[i + 1]
  BY <1>2
<1>4. \A j \in DOMAIN q : j > 1 => j - 1 \in DOMAIN r /\ r[j - 1] = q[j]
  BY <1>3
<1>5. Head(q) = q[1]
  BY <1>2
<1> HIDE DEF q, r
<1>6. QueueFits(bstate[s], r)
  <2>1. QueueFits(bstate[s], q)
    BY <1>2 DEF q
  <2>2. ASSUME bstate[s] = "live", NEW i \in DOMAIN r, r[i].type = "connecting"
        PROVE  \E j \in DOMAIN r : j > i /\ r[j].type = "connected"
    <3>1. i \in Nat /\ i >= 1 /\ i + 1 \in DOMAIN q /\ q[i + 1].type = "connecting"
      BY <1>3, <2>2
    <3>2. PICK j \in DOMAIN q : j > i + 1 /\ q[j].type = "connected"
      BY <2>1, <2>2, <3>1 DEF QueueFits
    <3>3. j - 1 \in DOMAIN r /\ j - 1 > i /\ r[j - 1].type = "connected"
      <4>1. j \in Nat /\ j > 1 /\ j - 1 > i
        BY <1>3, <3>1, <3>2
      <4> QED BY <1>4, <3>2, <4>1
    <3> QED BY <3>3
  <2> QED BY <1>3, <2>1, <2>2 DEF QueueFits
<1>7. QueuesFit'
  <2> SUFFICES ASSUME NEW t \in Ids PROVE QueueFits(bstate'[t], queue'[t])
    BY DEF QueuesFit, QueueFits
  <2>1. QueueFits(bstate[t], queue[t])
    BY DEF LiveInv, QueuesFit
  <2> QED BY <1>1, <1>6, <2>1 DEF r, q
<1>8. OverStays /\ OrderFits' /\ Lasting
  BY <1>1 DEF OverStays, Over, OverNext, LiveInv, OrderFits, Lasting, Opened
<1>9. ASSUME NEW t \in Ids, t # s \/ Over(s) \/ Head(q).type \notin Telling PROVE Carries(t)
  <2>1. ASSUME ToldIn(queue[t]), ~Over(t) PROVE ToldIn(queue'[t])
    <3>1. CASE t # s
      BY <1>1, <2>1, <3>1
    <3>2. CASE t = s
      <4>1. PICK i \in DOMAIN q : q[i].type \in Telling
        BY <2>1, <3>2 DEF ToldIn, q
      <4>2. i \in Nat /\ i > 1
        BY <1>3, <1>5, <1>9, <2>1, <3>2, <4>1
      <4>3. i - 1 \in DOMAIN r /\ r[i - 1].type \in Telling
        BY <1>4, <4>1, <4>2
      <4>4. queue'[t] = r
        BY <1>1, <3>2 DEF r, q
      <4> QED BY <4>3, <4>4 DEF ToldIn
    <3> QED BY <3>1, <3>2
  <2> QED BY <1>1, <2>1 DEF Carries, Due, DueNext, Over, OverNext
<1> QED BY <1>7, <1>8, <1>9 DEF q

\* Steps that take an event.
LEMMA EventStepFits ==
    ASSUME IInv, LiveInv, NEW s \in Ids, queue[s] # <<>>, Taken(s), UNCHANGED eventFrame,
           Remember(s) \/ UNCHANGED seen, StripFits, TimersCarry
    PROVE  LiveInv'
<1>1. UNCHANGED <<profile, calls, listed, load>>
  BY DEF eventFrame, loading
<1>2. OverStays /\ QueuesFit' /\ OrderFits' /\ Lasting
  BY <1>1, TakenFits
<1>3. SeenFits'
  BY <1>2, SenderFits, RememberFits, SeenSame
<1> QED BY <1>1, <1>2, <1>3, SameCalls, StepFits

\* An event that is refused is of a session that is over.
LEMMA DropEventFits ==
    ASSUME IInv, LiveInv, NEW s \in Ids, DropEvent(s)
    PROVE  LiveInv'
<1>1. /\ queue[s] # <<>> /\ Taken(s) /\ UNCHANGED eventFrame /\ UNCHANGED <<tabs, seen, auto>>
      /\ UNCHANGED <<profile, calls>> /\ ~Accepts(s)
  BY DEF DropEvent, eventFrame, recon
<1>2. Over(s)
  <2>1. profile[s] # Local /\ ~(s >= seen[profile[s]]) /\ profile[s] \in Profiles
    BY <1>1, SenderFits DEF Accepts
  <2>2. seen[profile[s]] \in {0} \union Ids /\ s \in Nat \ {0}
    BY <2>1 DEF LiveInv, SeenFits, Ids
  <2>3. seen[profile[s]] # 0
    BY <2>1, <2>2
  <2>4. seen[profile[s]] \in Ids /\ profile[seen[profile[s]]] = profile[s]
    BY <2>1, <2>2, <2>3 DEF LiveInv, SeenFits
  <2>5. ~(seen[profile[s]] <= s)
    BY <2>1, <2>2, <2>4 DEF Ids
  <2>6. bstate[s] \notin {"opening", "live"}
    BY <2>1, <2>4, <2>5 DEF LiveInv, OrderFits
  <2> QED BY <1>1, <2>6, SenderFits
<1>3. \A t \in Ids : Carries(t)
  BY <1>1, <1>2, TakenFits
<1>4. StripFits
  BY <1>1, <1>3, SameStrip DEF IInv, Shows, Opened
<1> QED BY <1>1, <1>4, TimersSame, EventStepFits

\* What the sender of an accepted event carries over.
LEMMA HeardFits ==
    ASSUME IInv, LiveInv, NEW s \in Ids, NEW type \in EventTypes, Next1(s, type), Taken(s), UNCHANGED eventFrame
    PROVE  /\ queue[s] # <<>> /\ Remember(s) /\ Shows(tabs) /\ UNCHANGED listed /\ AttemptsOK(auto)
           /\ Opened(s)
           /\ \A i \in DOMAIN tabs : tabs[i].id \in Ids /\ (tabs[i].id # s => Carries(tabs[i].id))
           /\ type \notin Telling => \A i \in DOMAIN tabs : Carries(tabs[i].id)
           /\ type \notin Telling \union {"connecting"} => Over(s) /\ OverNext(s)
           /\ type = "connecting" => FitsNext(s, "connecting")
<1>1. /\ queue[s] # <<>> /\ Head(queue[s]).type = type /\ Remember(s) /\ Shows(tabs)
      /\ UNCHANGED <<profile, calls, listed>> /\ AttemptsOK(auto)
  BY DEF Next1, eventFrame, loading, IInv, PageSound
<1>2. /\ Opened(s) /\ queue[s] \in Seq(Events) /\ QueueFits(bstate[s], queue[s])
      /\ bstate[s] \in {"opening", "live"} \/ Over(s)
  BY <1>1, SenderFits
<1>3. /\ OverStays
      /\ \A t \in Ids : t # s \/ Over(s) \/ type \notin Telling => Carries(t)
  BY <1>1, TakenFits
<1>4. \A i \in DOMAIN tabs : tabs[i].id \in Ids
  BY DEF IInv, Shows, Opened
<1>5. 1 \in DOMAIN queue[s] /\ queue[s][1].type = type
  BY <1>1, <1>2
<1>6. ASSUME type \notin Telling \union {"connecting"} PROVE Over(s) /\ OverNext(s)
  <2>1. Over(s)
    BY <1>2, <1>5, <1>6 DEF QueueFits
  <2> QED BY <1>3, <2>1 DEF OverStays
<1>7. ASSUME type = "connecting" PROVE FitsNext(s, "connecting")
  <2>1. Carries(s)
    BY <1>3, <1>7 DEF Telling
  <2>2. Over(s) \/ Due(s)
    <3>1. CASE bstate[s] = "live"
      BY <1>2, <1>5, <1>7, <3>1 DEF QueueFits, Due, ToldIn, Telling
    <3>2. CASE bstate[s] = "opening"
      BY <3>2 DEF Due
    <3> QED BY <1>2, <3>1, <3>2
  <2> QED BY <2>1, <2>2 DEF Carries, FitsNext
<1> QED BY <1>1, <1>2, <1>3, <1>4, <1>6, <1>7

\* terminal:connecting keeps the invariant: the event that makes the tab
\* connected follows it.
LEMMA ConnectingFits ==
    ASSUME IInv, LiveInv, NEW s \in Ids, OnConnecting(s)
    PROVE  LiveInv'
<1>1. /\ Next1(s, "connecting") /\ Taken(s) /\ UNCHANGED eventFrame /\ UNCHANGED auto
      /\ tabs' = tabs \/ tabs' = Append(tabs, Tab(s, "connecting"))
  BY DEF OnConnecting, recon
<1>2. /\ queue[s] # <<>> /\ Remember(s) /\ Shows(tabs) /\ FitsNext(s, "connecting")
      /\ \A i \in DOMAIN tabs : Carries(tabs[i].id)
  BY <1>1, HeardFits DEF EventTypes, Telling
<1>3. StripFits
  BY <1>1, <1>2, SameStrip, AppendFits
<1> QED BY <1>1, <1>2, <1>3, TimersSame, EventStepFits

\* terminal:connected keeps the invariant.
LEMMA ConnectedFits ==
    ASSUME IInv, LiveInv, NEW s \in Ids, OnConnected(s)
    PROVE  LiveInv'
<1>1. /\ Next1(s, "connected") /\ Taken(s) /\ UNCHANGED eventFrame /\ UNCHANGED auto
      /\ tabs' = Marked(tabs, {s}, "connected")
  BY DEF OnConnected, recon
<1>2. /\ queue[s] # <<>> /\ Remember(s) /\ Shows(tabs)
      /\ \A i \in DOMAIN tabs : tabs[i].id # s => Carries(tabs[i].id)
  BY <1>1, HeardFits DEF EventTypes
<1>3. StripFits
  BY <1>1, <1>2, MarkedFits DEF FitsNext, TabStates
<1> QED BY <1>1, <1>2, <1>3, TimersSame, EventStepFits

\* terminal:disconnected and terminal:error keep the invariant: a session that
\* goes on sends neither.
LEMMA DroppedFits ==
    ASSUME IInv, LiveInv, NEW s \in Ids, NEW type \in {"disconnected", "error"}, OnDropped(s, type)
    PROVE  LiveInv'
<1> DEFINE items == Marked(tabs, {s}, type)
<1>1. /\ Next1(s, type) /\ Taken(s) /\ UNCHANGED eventFrame
      /\ Schedule({s}, items, auto, userClosing)
  BY DEF OnDropped
<1>2. type \in EventTypes /\ type \in TabStates /\ type \notin Telling \union {"connecting"}
  BY DEF EventTypes, TabStates, Telling
<1>3. /\ queue[s] # <<>> /\ Remember(s) /\ Shows(tabs) /\ UNCHANGED listed /\ AttemptsOK(auto)
      /\ Over(s) /\ OverNext(s)
      /\ \A i \in DOMAIN tabs : Carries(tabs[i].id)
  BY <1>1, <1>2, HeardFits
<1>4. Shows(items) /\ DOMAIN items = DOMAIN tabs
  BY <1>2, <1>3, MarkedShows
<1>5. \A i \in DOMAIN items : items[i].id \notin {s} =>
         /\ items[i].id = tabs[i].id /\ items[i].st = tabs[i].st /\ Carries(tabs[i].id)
  BY <1>2, <1>3, <1>4, MarkedStates
<1> HIDE DEF items
<1>6. \A id \in {s} : id \in DOMAIN listed \/ (id \in Ids /\ Over(id) /\ OverNext(id))
  BY <1>3
<1>7. StripFits /\ TimersCarry
  BY <1>1, <1>3, <1>4, <1>5, <1>6, ScheduleFits
<1> QED BY <1>1, <1>3, <1>7, EventStepFits

\* terminal:cli-session keeps the invariant.
LEMMA CliSessionFits ==
    ASSUME IInv, LiveInv, NEW s \in Ids, OnCliSession(s)
    PROVE  LiveInv'
<1>1. /\ Next1(s, "cli") /\ Taken(s) /\ UNCHANGED eventFrame /\ UNCHANGED auto
      /\ tabs' = IF s \in TabIds THEN Marked(tabs, {s}, "connected") ELSE Append(tabs, Tab(s, "connected"))
  BY DEF OnCliSession, recon
<1>2. /\ queue[s] # <<>> /\ Remember(s) /\ Shows(tabs)
      /\ \A i \in DOMAIN tabs : tabs[i].id # s => Carries(tabs[i].id)
  BY <1>1, HeardFits DEF EventTypes
<1>3. FitsNext(s, "connected")
  BY DEF FitsNext
<1>4. CASE s \in TabIds
  <2>1. StripFits
    BY <1>1, <1>2, <1>3, <1>4, MarkedFits DEF TabStates
  <2> QED BY <1>1, <1>2, <2>1, TimersSame, EventStepFits
<1>5. CASE s \notin TabIds
  <2>1. \A i \in DOMAIN tabs : tabs[i].id # s
    BY <1>5 DEF TabIds
  <2>2. StripFits
    BY <1>1, <1>2, <1>3, <1>5, <2>1, AppendFits
  <2> QED BY <1>1, <1>2, <2>2, TimersSame, EventStepFits
<1> QED BY <1>4, <1>5

\* terminal:cli-session-recovering keeps the invariant.
LEMMA RecoveringFits ==
    ASSUME IInv, LiveInv, NEW s \in Ids, OnCliSessionRecovering(s)
    PROVE  LiveInv'
<1>1. /\ Next1(s, "recovering") /\ Taken(s) /\ UNCHANGED eventFrame /\ auto' = Cleared(s)
      /\ tabs' = Marked(tabs, {s}, "reconnecting")
  BY DEF OnCliSessionRecovering
<1>2. /\ queue[s] # <<>> /\ Remember(s) /\ Shows(tabs) /\ AttemptsOK(auto) /\ OverNext(s)
      /\ \A i \in DOMAIN tabs : tabs[i].id # s => Carries(tabs[i].id)
  BY <1>1, HeardFits DEF EventTypes, Telling
<1>3. StripFits
  BY <1>1, <1>2, MarkedFits DEF FitsNext, TabStates
<1> QED BY <1>1, <1>2, <1>3, TimersCleared, EventStepFits

\* A session is handed over: its tab takes the new one, or, when the user has
\* closed it meanwhile, the new one is given up.
LEMMA HandedOverFits ==
    ASSUME IInv, LiveInv, NEW s \in Ids, OnCliSessionReplaced(s)
    PROVE  LiveInv'
<1> DEFINE old == Head(queue[s]).old
<1>1. /\ Next1(s, "replaced") /\ UNCHANGED eventFrame /\ auto' = Cleared(old)
      /\ queue[s] # <<>> /\ Head(queue[s]).type = "replaced" /\ Remember(s)
      /\ UNCHANGED <<profile, calls, listed, load>>
  BY DEF OnCliSessionReplaced, Next1, eventFrame, loading
<1>2. Opened(s) /\ queue[s] \in Seq(Events) /\ QueueFits(bstate[s], queue[s]) /\ profile[s] \in Profiles
  BY <1>1, SenderFits
<1>3. TimersCarry /\ CallsCarry
  BY <1>1, TimersCleared, SameCalls DEF IInv, PageSound
<1>4. CASE ClosedMeanwhile(old, s)
  <2> DEFINE q == Tail(queue[s]) \o IF bstate[s] = "live" THEN <<[type |-> "disconnected", old |-> 0]>> ELSE <<>>
  <2>1. /\ bstate' = [bstate EXCEPT ![s] = IF @ = "live" THEN "ended" ELSE @]
        /\ queue' = [queue EXCEPT ![s] = q]
        /\ UNCHANGED tabs /\ \A i \in DOMAIN tabs : tabs[i].id # s
    BY <1>4 DEF OnCliSessionReplaced, ClosedMeanwhile, TabIds
  <2> HIDE DEF q
  <2>2. OverNext(s)
    <3>1. 1 \in DOMAIN queue[s] /\ queue[s][1].type = "replaced"
      BY <1>1, <1>2
    <3>2. bstate[s] # "opening"
      BY <1>2, <3>1 DEF QueueFits
    <3> QED BY <1>2, <2>1, <3>2 DEF OverNext, IInv, BackendSound, Opened
  <2>3. \A t \in Ids : t # s => bstate'[t] = bstate[t] /\ queue'[t] = queue[t]
    BY <2>1 DEF IInv, BackendSound
  <2>4. OverStays /\ OrderFits' /\ Lasting /\ \A t \in Ids : t # s => Carries(t)
    <3>1. OverStays /\ \A t \in Ids : t # s => Carries(t)
      BY <1>1, <2>2, <2>3 DEF OverStays, Carries, Over, OverNext, Due, DueNext
    <3>2. \A t \in Ids : (bstate'[t] = "new" <=> bstate[t] = "new")
                        /\ (bstate'[t] \in {"opening", "live"} => bstate[t] \in {"opening", "live"})
      BY <1>2, <2>2, <2>3 DEF OverNext, Opened
    <3> QED BY <1>1, <3>1, <3>2 DEF LiveInv, OrderFits, Lasting, Opened
  <2>5. QueuesFit'
    <3> SUFFICES ASSUME NEW t \in Ids PROVE QueueFits(bstate'[t], queue'[t])
      BY DEF QueuesFit, QueueFits
    <3> QED BY <2>2, <2>3 DEF LiveInv, QueuesFit, QueueFits, OverNext
  <2>6. StripFits
    BY <2>1, <2>4, SameStrip DEF IInv, Shows, Opened
  <2>7. SeenFits'
    BY <1>1, <1>2, <2>4, RememberFits
  <2> QED BY <1>1, <1>3, <2>4, <2>5, <2>6, <2>7, StepFits
<1>5. CASE ~ClosedMeanwhile(old, s)
  <2>1. /\ Taken(s)
        /\ tabs' = IF old \in TabIds THEN Replaced(tabs, old, s)
                   ELSE Append(Replaced(tabs, old, s), Tab(s, "connected"))
    BY <1>5 DEF OnCliSessionReplaced
  <2>2. Shows(tabs) /\ \A i \in DOMAIN tabs : tabs[i].id # s => Carries(tabs[i].id)
    BY <1>1, <2>1, HeardFits DEF EventTypes
  <2> HIDE DEF old
  <2>3. CASE old \in TabIds
    <3>1. StripFits
      BY <2>1, <2>2, <2>3, ReplacedFits
    <3> QED BY <1>1, <1>3, <2>1, <3>1, EventStepFits
  <2>4. CASE old \notin TabIds
    <3> DEFINE items == Replaced(tabs, old, s)
    <3>1. \A i \in DOMAIN tabs : tabs[i].id # old
      BY <2>4 DEF TabIds
    <3>2. Shows(items)
      BY <1>2, <2>2, <3>1, ReplacedShows DEF IInv, BackendSound
    <3>3. FitsNext(s, "connected") /\ Tab(s, "connected").id = s /\ Tab(s, "connected").st = "connected"
      BY DEF FitsNext, Tab
    <3>4. \A i \in DOMAIN items :
               \/ items[i] = Tab(s, "connected")
               \/ \E j \in DOMAIN tabs : items[i] = tabs[j] /\ tabs[j].id # s
      BY <2>2, ReplacedStates
    <3> HIDE DEF items
    <3>5. \A i \in DOMAIN items :
               \/ FitsNext(items[i].id, items[i].st)
               \/ \E j \in DOMAIN tabs : /\ items[i].id = tabs[j].id /\ items[i].st = tabs[j].st
                                         /\ Carries(tabs[j].id)
      BY <2>2, <3>3, <3>4
    <3>6. tabs' = Append(items, Tab(s, "connected"))
      BY <2>1, <2>4 DEF items
    <3>7. StripFits
      BY <3>2, <3>3, <3>5, <3>6, AppendFits
    <3> QED BY <1>1, <1>3, <2>1, <3>7, EventStepFits
  <2> QED BY <2>3, <2>4
<1> QED BY <1>4, <1>5

\* Every event keeps the invariant.
LEMMA EventsFit ==
    ASSUME IInv, LiveInv, NEW s \in Ids, Event(s)
    PROVE  LiveInv'
BY DropEventFits, ConnectingFits, ConnectedFits, DroppedFits, CliSessionFits, RecoveringFits, HandedOverFits
   DEF Event

-----------------------------------------------------------------------------
(* Answers *)

\* A session is given up, or left alone.
LEMMA GivenUpFits ==
    ASSUME IInv, LiveInv, NEW s \in Ids, Opened(s), Disconnect(s) \/ UNCHANGED <<bstate, queue>>,
           UNCHANGED profile
    PROVE  /\ OverStays /\ QueuesFit' /\ OrderFits' /\ Lasting
           /\ \A t \in Ids : (bstate'[t] = bstate[t] /\ queue'[t] = queue[t]) \/ (t = s /\ OverNext(s))
           /\ Disconnect(s) => OverNext(s)
           /\ CallsCarry => \A t \in Ids : Carries(t)
<1>1. /\ \A t \in Ids : (bstate'[t] = bstate[t] /\ queue'[t] = queue[t]) \/ (t = s /\ OverNext(s))
      /\ Disconnect(s) => OverNext(s)
  BY DEF Disconnect, Disconnected, IInv, BackendSound, Opened, OverNext
<1>2. QueuesFit'
  <2> SUFFICES ASSUME NEW t \in Ids PROVE QueueFits(bstate'[t], queue'[t])
    BY DEF QueuesFit, QueueFits
  <2> QED BY <1>1 DEF LiveInv, QueuesFit, QueueFits, OverNext
<1>3. OverStays /\ Lasting
  BY <1>1 DEF OverStays, Over, OverNext, Lasting, Opened
<1>4. OrderFits'
  <2>1. \A t \in Ids : (bstate'[t] = "new" <=> bstate[t] = "new")
                      /\ (bstate'[t] \in {"opening", "live"} => bstate[t] \in {"opening", "live"})
    BY <1>1 DEF OverNext, Opened
  <2> QED BY <2>1 DEF LiveInv, OrderFits
<1>5. ASSUME CallsCarry, NEW t \in Ids PROVE Carries(t)
  <2>1. CASE bstate'[t] = bstate[t] /\ queue'[t] = queue[t]
    BY <1>5, <2>1 DEF Carries, Over, OverNext, Due, DueNext, CallsCarry
  <2>2. CASE OverNext(t)
    BY <2>2 DEF Carries
  <2> QED BY <1>1, <2>1, <2>2
<1> QED BY <1>1, <1>2, <1>3, <1>4, <1>5

\* Answers that leave the backend alone.
LEMMA CalmAnswerFits ==
    ASSUME IInv, LiveInv, NEW n \in Slots, Quiescing(n), calls[n].kind # "manual" \/ calls[n].st # "reconnect",
           UNCHANGED <<bstate, queue>>, SeenFits', StripFits, TimersCarry
    PROVE  LiveInv'
<1>1. CallsCarry /\ UNCHANGED <<profile, listed, load>>
  BY FinishCarries DEF Quiescing, loading
<1> QED BY <1>1, CalmStepFits

\* What every answer that leaves the backend alone brings along.
LEMMA CalmAnswer ==
    ASSUME IInv, LiveInv, NEW n \in Slots, Quiescing(n), calls[n].kind # "manual" \/ calls[n].st # "reconnect",
           UNCHANGED <<bstate, queue>>
    PROVE  /\ \A s : Carries(s)
           /\ Lasting /\ Shows(tabs) /\ AttemptsOK(auto) /\ UNCHANGED listed
<1>1. CallsCarry /\ UNCHANGED <<profile, listed>>
  BY FinishCarries DEF Quiescing, loading
<1> QED BY <1>1, CalmCarries DEF Lasting, Opened, IInv, PageSound

\* The answer of an open (appendSession) keeps the invariant.
LEMMA OpenAnsweredFits ==
    ASSUME IInv, LiveInv, NEW n \in Slots, OpenAnswered(n)
    PROVE  LiveInv'
<1> DEFINE s == calls[n].got
<1>1. /\ Quiescing(n) /\ UNCHANGED <<bstate, queue>> /\ Remember(s) /\ UNCHANGED auto
      /\ tabs' = IF s \in TabIds THEN Marked(tabs, {s}, "connected") ELSE Append(tabs, Tab(s, "connected"))
      /\ Succeeded(n, "open")
  BY DEF OpenAnswered
<1>2. calls[n] # NoCall /\ calls[n].kind = "open" /\ Opened(s) /\ profile[s] = calls[n].p
  BY <1>1, GivenSession
<1>3. profile[s] \in Profiles
  BY <1>2, CallIs
<1>4. (\A t : Carries(t)) /\ Lasting /\ Shows(tabs)
  BY <1>1, <1>2, CalmAnswer
<1> HIDE DEF s
<1>5. SeenFits'
  BY <1>1, <1>2, <1>3, <1>4, RememberFits
<1>6. StripFits
  BY <1>1, <1>4, MarkedFits, AppendFits DEF FitsNext, TabStates
<1> QED BY <1>1, <1>2, <1>5, <1>6, TimersSame, CalmAnswerFits

\* The answer of a local terminal's connect keeps the invariant.
LEMMA LocalAnsweredFits ==
    ASSUME IInv, LiveInv, NEW n \in Slots, LocalAnswered(n)
    PROVE  LiveInv'
<1>1. /\ Quiescing(n) /\ UNCHANGED <<bstate, queue>> /\ UNCHANGED <<seen, auto>>
      /\ tabs' = Append(tabs, Tab(calls[n].got, "connected")) /\ calls[n].kind = "local"
  BY DEF LocalAnswered, Succeeded, Ended
<1>2. (\A t : Carries(t)) /\ Lasting /\ Shows(tabs)
  BY <1>1, CalmAnswer
<1>3. SeenFits'
  BY <1>1, <1>2, SeenSame
<1>4. StripFits
  BY <1>1, <1>2, AppendFits DEF FitsNext
<1> QED BY <1>1, <1>3, <1>4, TimersSame, CalmAnswerFits

\* A quick connection that takes over a dead tab keeps the invariant.
LEMMA ReuseAnsweredFits ==
    ASSUME IInv, LiveInv, NEW n \in Slots, ReuseAnswered(n)
    PROVE  LiveInv'
<1> DEFINE s == calls[n].got
<1>1. /\ Quiescing(n) /\ UNCHANGED <<bstate, queue>> /\ Remember(s) /\ UNCHANGED auto
      /\ tabs' = Replaced(tabs, calls[n].tab, s) /\ Succeeded(n, "reuse")
  BY DEF ReuseAnswered
<1>2. calls[n] # NoCall /\ calls[n].kind = "reuse" /\ Opened(s) /\ profile[s] = calls[n].p
  BY <1>1, GivenSession
<1>3. profile[s] \in Profiles
  BY <1>2, CallIs
<1>4. (\A t : Carries(t)) /\ Lasting /\ Shows(tabs)
  BY <1>1, <1>2, CalmAnswer
<1> HIDE DEF s
<1>5. SeenFits'
  BY <1>1, <1>2, <1>3, <1>4, RememberFits
<1>6. StripFits
  BY <1>1, <1>4, ReplacedFits
<1> QED BY <1>1, <1>2, <1>5, <1>6, TimersSame, CalmAnswerFits

\* An open that fails keeps the invariant.
LEMMA OpenFailedFits ==
    ASSUME IInv, LiveInv, NEW n \in Slots, OpenFailed(n)
    PROVE  LiveInv'
<1>1. /\ Quiescing(n) /\ UNCHANGED <<bstate, queue>> /\ UNCHANGED <<tabs, seen, auto>>
      /\ calls[n].kind # "manual"
  BY DEF OpenFailed, FailedCall, Ended
<1>2. (\A t : Carries(t)) /\ Lasting
  BY <1>1, CalmAnswer
<1> QED BY <1>1, <1>2, SeenSame, SameStrip, TimersSame, CalmAnswerFits

\* replaceReconnectedTab, which gives up the session when its tab is gone.
LEMMA TakeOverFits ==
    ASSUME IInv, LiveInv, NEW old, NEW s \in Ids, Opened(s), profile[s] \in Profiles, NEW p,
           TakeOver(old, s, p), UNCHANGED <<profile, listed, load>>, CallsCarry, TimersCarry
    PROVE  LiveInv'
<1>1. Disconnect(s) \/ UNCHANGED <<bstate, queue>>
  BY DEF TakeOver, DiscardUnclaimed
<1>2. OverStays /\ QueuesFit' /\ OrderFits' /\ Lasting /\ \A t \in Ids : Carries(t)
  BY <1>1, GivenUpFits
<1>3. SeenFits'
  BY <1>2, SeenSame, RememberFits DEF TakeOver
<1>4. Shows(tabs) /\ \A i \in DOMAIN tabs : Carries(tabs[i].id)
  BY <1>2 DEF IInv, Shows, Opened
<1>5. StripFits
  BY <1>4, ReplacedFits, SameStrip DEF TakeOver
<1> QED BY <1>2, <1>3, <1>5, StepFits

\* The fallback to a connect comes when the session was not found running.
LEMMA ManualFallbackFits ==
    ASSUME IInv, LiveInv, NEW n \in Slots, ManualFallback(n)
    PROVE  LiveInv'
<1>1. /\ UNCHANGED <<profile, bstate, queue, tabs, seen, auto, listed, load>>
      /\ calls[n].kind = "manual" /\ calls[n].st = "missing"
      /\ calls' = [calls EXCEPT ![n].st = "connect"]
  BY DEF ManualFallback, backend, loading, Ended
<1>2. CallsCarry
  <2>1. calls[n] # NoCall
    BY <1>1 DEF NoCall
  <2>2. calls[n] \in Requests
    BY <2>1, CallIs
  <2>3. calls'[n] = [calls[n] EXCEPT !.st = "connect"] /\ \A m \in Slots : m # n => calls'[m] = calls[m]
    BY <1>1 DEF IInv, CallsSound
  <2> QED BY <1>1, <2>2, <2>3 DEF CallsCarry, Requests
<1>3. (\A t : Carries(t)) /\ Lasting
  BY <1>1, <1>2, CalmCarries DEF Lasting, Opened
<1> QED BY <1>1, <1>2, <1>3, SeenSame, SameStrip, TimersSame, CalmStepFits

\* A reconnect by hand that fails is of a session that it gave up.
LEMMA ManualAnsweredFits ==
    ASSUME IInv, LiveInv, NEW n \in Slots, ManualAnswered(n)
    PROVE  LiveInv'
<1> DEFINE old == calls[n].tab
<1>1. /\ Quiescing(n) /\ UNCHANGED auto /\ calls[n].kind = "manual" /\ calls[n].st # "reconnect"
      /\ calls[n] # NoCall
  BY DEF ManualAnswered, Succeeded, FailedCall, Ended, NoCall
<1>2. CallsCarry /\ UNCHANGED <<profile, listed, load>>
  BY <1>1, FinishCarries DEF Quiescing, loading
<1>3. calls[n].p \in Profiles
  BY <1>1, CallIs
<1>4. CASE Succeeded(n, "manual")
  <2>1. Opened(calls[n].got) /\ calls[n].got \in Ids /\ profile[calls[n].got] = calls[n].p
    BY <1>4, GivenSession
  <2>2. TakeOver(old, calls[n].got, calls[n].p)
    BY <1>4 DEF ManualAnswered
  <2> QED BY <1>1, <1>2, <1>3, <2>1, <2>2, TakeOverFits, TimersSame
<1>5. CASE ~Succeeded(n, "manual")
  <2>1. tabs' = Marked(tabs, {old}, "error") /\ UNCHANGED <<bstate, queue, seen>>
    BY <1>5 DEF ManualAnswered
  <2>2. (\A t : Carries(t)) /\ Lasting /\ Shows(tabs)
    BY <1>1, <2>1, CalmAnswer
  <2>3. FitsNext(old, "error")
    BY <1>1, <2>1 DEF LiveInv, CallsFit, FitsNext, Over, OverNext
  <2>4. StripFits
    BY <2>1, <2>2, <2>3, MarkedFits DEF TabStates
  <2> QED BY <1>1, <2>1, <2>2, <2>4, SeenSame, TimersSame, CalmAnswerFits
<1> QED BY <1>4, <1>5

\* The answer of an automatic attempt keeps the invariant.
LEMMA AutoAnsweredFits ==
    ASSUME IInv, LiveInv, NEW n \in Slots, AutoAnswered(n)
    PROVE  LiveInv'
<1> DEFINE old == calls[n].tab
           s == calls[n].got
<1>1. /\ Quiescing(n) /\ calls[n].kind = "auto" /\ calls[n] # NoCall
      /\ Opened(s) /\ s \in Ids /\ profile[s] = calls[n].p
  BY GivenSession DEF AutoAnswered
<1>2. CallsCarry /\ UNCHANGED <<profile, listed, load>>
  BY <1>1, FinishCarries DEF Quiescing, loading
<1>3. calls[n].p \in Profiles
  BY <1>1, CallIs
<1>4. CASE Own(n)
  <2>1. TakeOver(old, s, calls[n].p) /\ auto' = Cleared(old)
    BY <1>4 DEF AutoAnswered
  <2>2. TimersCarry
    BY <2>1, TimersCleared DEF IInv, PageSound
  <2> QED BY <1>1, <1>2, <1>3, <2>1, <2>2, TakeOverFits
<1>5. CASE ~Own(n)
  <2>1. /\ Disconnect(s) \/ UNCHANGED <<bstate, queue>>
        /\ UNCHANGED <<tabs, seen, auto>>
    BY <1>5 DEF AutoAnswered, DiscardUnclaimed
  <2>2. OverStays /\ QueuesFit' /\ OrderFits' /\ Lasting /\ \A t \in Ids : Carries(t)
    BY <1>1, <1>2, <2>1, GivenUpFits
  <2>3. StripFits
    BY <2>1, <2>2, SameStrip DEF IInv, Shows, Opened
  <2> QED BY <1>2, <2>1, <2>2, <2>3, SeenSame, TimersSame, StepFits
<1> QED BY <1>4, <1>5

\* An attempt that fails and is still the tab's is of a session that is over.
LEMMA AutoFailedFits ==
    ASSUME IInv, LiveInv, NEW n \in Slots, AutoFailed(n)
    PROVE  LiveInv'
<1> DEFINE old == calls[n].tab
           shown == Marked(tabs, {old}, "error")
           table == [auto EXCEPT ![old].st = "idle", ![old].call = 0]
<1>1. /\ Quiescing(n) /\ calls[n].kind = "auto" /\ calls[n] # NoCall
      /\ UNCHANGED <<bstate, queue, seen>>
  BY DEF AutoFailed, FailedCall, Ended, NoCall
<1>2. (\A t : Carries(t)) /\ Lasting /\ Shows(tabs) /\ AttemptsOK(auto) /\ UNCHANGED listed
  BY <1>1, CalmAnswer
<1>3. old \in Ids
  BY <1>1, CallIs DEF OfTab
<1>4. SeenFits'
  BY <1>1, <1>2, SeenSame
<1>5. Own(n) => old \in DOMAIN listed \/ (Over(old) /\ OverNext(old))
  BY <1>1, <1>3 DEF Own, LiveInv, TimersFit, Over, OverNext
<1>6. Own(n) => FitsNext(old, "error")
  BY <1>2, <1>5 DEF FitsNext
<1>7. CASE UNCHANGED <<tabs, auto>>
  BY <1>1, <1>2, <1>4, <1>7, SameStrip, TimersSame, CalmAnswerFits
<1>8. CASE auto' = [auto EXCEPT ![old].call = 0] /\ UNCHANGED tabs
  <2>1. \A t \in Ids : auto'[t].st = auto[t].st
    BY <1>2, <1>3, <1>8 DEF AttemptsOK
  <2>2. TimersCarry
    BY <2>1 DEF TimersCarry
  <2> QED BY <1>1, <1>2, <1>4, <1>8, <2>2, SameStrip, CalmAnswerFits
<1>9. CASE /\ Own(n) /\ tabs' = shown
           /\ auto' = [auto EXCEPT ![old] = [att |-> AutoReconnectMax, st |-> "gaveup", call |-> 0]]
  <2>1. TimersCarry
    BY <1>2, <1>3, <1>9 DEF TimersCarry, AttemptsOK
  <2>2. StripFits
    BY <1>2, <1>6, <1>9, MarkedFits DEF TabStates
  <2> QED BY <1>1, <1>4, <2>1, <2>2, CalmAnswerFits
<1>10. CASE Own(n) /\ Schedule({old}, shown, table, userClosing)
  <2>1. /\ Shows(shown) /\ DOMAIN shown = DOMAIN tabs
        /\ \A i \in DOMAIN shown : shown[i].id \notin {old} =>
              /\ shown[i].id = tabs[i].id /\ shown[i].st = tabs[i].st /\ Carries(tabs[i].id)
    BY <1>2, MarkedShows, MarkedStates DEF TabStates
  <2>2. AttemptsOK(table) /\ \A t \in Ids \ {old} : table[t] = auto[t]
    BY <1>2, <1>3 DEF AttemptsOK
  <2> HIDE DEF shown, table
  <2>3. StripFits /\ TimersCarry
    BY <1>2, <1>3, <1>5, <1>10, <2>1, <2>2, ScheduleFits
  <2> QED BY <1>1, <1>4, <2>3, CalmAnswerFits
<1> QED BY <1>7, <1>8, <1>9, <1>10 DEF AutoFailed

\* A close the user takes back keeps the invariant.
LEMMA CloseRefusedFits ==
    ASSUME IInv, LiveInv, NEW n \in Slots, CloseRefused(n)
    PROVE  LiveInv'
<1>1. /\ Finish(n) /\ calls[n].kind = "close"
      /\ UNCHANGED <<profile, bstate, queue, tabs, seen, auto, listed, load>>
  BY DEF CloseRefused, closeFrame, loading, Ended
<1>2. CallsCarry
  BY <1>1, FinishCarries
<1>3. (\A t : Carries(t)) /\ Lasting
  BY <1>1, <1>2, CalmCarries DEF Lasting, Opened
<1> QED BY <1>1, <1>2, <1>3, SeenSame, SameStrip, TimersSame, CalmStepFits

\* A close the user confirms keeps the invariant.
LEMMA CloseConfirmedFits ==
    ASSUME IInv, LiveInv, NEW n \in Slots, CloseConfirmed(n)
    PROVE  LiveInv'
<1> DEFINE id == calls[n].tab
           new(m) == IF m = n THEN [calls[m] EXCEPT !.st = "close"]
                     ELSE IF auto[id].st = "flight" /\ auto[id].call = m THEN [calls[m] EXCEPT !.byClose = TRUE]
                     ELSE calls[m]
<1>1. /\ auto' = Cleared(id) /\ calls[n].kind = "close" /\ calls' = [m \in Slots |-> new(m)]
      /\ UNCHANGED <<profile, bstate, queue, tabs, seen, listed, load>>
  BY DEF CloseConfirmed, closeFrame, loading, Ended
<1>2. CallsCarry
  <2>1. \A m \in Slots : calls[m] \in {NoCall} \union Requests
    BY DEF IInv, CallsSound
  <2>2. \A m \in Slots : 
           \/ new(m).kind = calls[m].kind /\ new(m).tab = calls[m].tab /\ (m # n => new(m).st = calls[m].st)
           \/ new(m).kind # "manual" /\ calls[m].kind # "manual"
    <3> SUFFICES ASSUME NEW m \in Slots
                 PROVE  \/ new(m).kind = calls[m].kind /\ new(m).tab = calls[m].tab /\ (m # n => new(m).st = calls[m].st)
                        \/ new(m).kind # "manual" /\ calls[m].kind # "manual"
      OBVIOUS
    <3>1. CASE calls[m] = NoCall
      BY <1>1, <3>1 DEF NoCall
    <3>2. CASE calls[m] \in Requests
      BY <3>2 DEF Requests
    <3> QED BY <2>1, <3>1, <3>2
  <2> HIDE DEF new
  <2> QED BY <1>1, <2>2 DEF CallsCarry
<1>3. (\A t : Carries(t)) /\ Lasting
  BY <1>1, <1>2, CalmCarries DEF Lasting, Opened
<1>4. TimersCarry
  BY <1>1, TimersCleared DEF IInv, PageSound
<1> QED BY <1>1, <1>2, <1>3, <1>4, SeenSame, SameStrip, CalmStepFits

\* The end of a close, which removes the tab, keeps the invariant.
LEMMA CloseFinishedFits ==
    ASSUME IInv, LiveInv, NEW n \in Slots, CloseFinished(n)
    PROVE  LiveInv'
<1> DEFINE kept == {i \in DOMAIN tabs : tabs[i].id # calls[n].tab}
<1>1. /\ Finish(n) /\ calls[n].kind = "close" /\ tabs' = Kept(tabs, kept)
      /\ UNCHANGED <<profile, bstate, queue, seen, auto, listed, load>>
  BY DEF CloseFinished, closeFrame, loading, Ended
<1>2. CallsCarry
  BY <1>1, FinishCarries
<1>3. (\A t : Carries(t)) /\ Lasting
  BY <1>1, <1>2, CalmCarries DEF Lasting, Opened
<1>4. kept \in SUBSET DOMAIN tabs
  OBVIOUS
<1> HIDE DEF kept
<1>5. \A k \in DOMAIN tabs' : \E i \in kept : tabs'[k] = tabs[i]
  BY <1>1, <1>4, KeptShows DEF IInv
<1>6. StripFits
  BY <1>3, <1>4, <1>5 DEF StripFits
<1> QED BY <1>1, <1>2, <1>3, <1>6, SeenSame, TimersSame, CalmStepFits

\* Every answer keeps the invariant.
LEMMA AnswersFit ==
    ASSUME IInv, LiveInv, NEW n \in Slots, Answer(n)
    PROVE  LiveInv'
BY OpenAnsweredFits, LocalAnsweredFits, ReuseAnsweredFits, OpenFailedFits, ManualFallbackFits,
   ManualAnsweredFits, AutoAnsweredFits, AutoFailedFits, CloseRefusedFits, CloseConfirmedFits,
   CloseFinishedFits DEF Answer

-----------------------------------------------------------------------------
(* Loading the page *)

\* Before the page asks for the sessions, none is listed.
LEMMA ListSessionsFits ==
    ASSUME IInv, LiveInv, ListSessions
    PROVE  LiveInv'
<1>1. /\ UNCHANGED <<profile, bstate, queue, tabs, seen, auto, calls>>
      /\ load = "mounted" /\ load' = "asked"
  BY DEF ListSessions, loadFrame, backend, recon
<1>2. DOMAIN listed \subseteq DOMAIN listed'
  BY <1>1 DEF LiveInv, ListedFits
<1>3. CallsCarry /\ TimersCarry /\ Lasting
  BY <1>1, SameCalls, TimersSame DEF Lasting, Opened
<1>4. OverStays /\ \A t : Carries(t)
  BY <1>1, <1>3, CalmCarries
<1>5. TabsFit' /\ TimersFit' /\ CallsFit'
  BY <1>1, <1>2, <1>3, <1>4, SameStrip, StripKept, TimersKept, CallsKept DEF LiveInv
<1>6. QueuesFit' /\ OrderFits' /\ SeenFits'
  BY <1>1, <1>3, CalmFits, SeenSame
<1> QED BY <1>1, <1>5, <1>6 DEF LiveInv, ListedFits

\* A finite set of numbers has a greatest one, which Max gives.
LEMMA MaxIsIn ==
    ASSUME NEW T \in SUBSET Nat, IsFiniteSet(T), T # {}
    PROVE  Max(T) \in T
<1>1. Cardinality(T) \in Nat /\ Cardinality(T) # 0
  BY FS_CardinalityType, FS_EmptySet
<1>2. PICK s \in T : Cardinality({j \in T : j <= s}) = Cardinality(T)
  BY <1>1, Numbered
<1>3. {j \in T : j <= s} \in SUBSET T
  OBVIOUS
<1>4. {j \in T : j <= s} = T
  BY <1>2, <1>3, FS_Subset
<1>5. \A t \in T : s >= t
  BY <1>4
<1> QED BY <1>5 DEF Max

\* Merging the answer of ListSessions keeps the invariant: the tabs it changes
\* are of the sessions it named.
LEMMA HydrateFits ==
    ASSUME IInv, LiveInv, BoundsAssumption, Hydrate
    PROVE  LiveInv'
<1>1. /\ UNCHANGED <<profile, bstate, queue, auto, calls, listed>> /\ load' = "restoring"
      /\ seen' = [p \in Profiles |-> Max({seen[p]} \union {s \in DOMAIN listed : profile[s] = p /\ p # Local})]
  BY DEF Hydrate, backend, recon
<1>2. CallsCarry /\ TimersCarry /\ Lasting
  BY <1>1, SameCalls, TimersSame DEF Lasting, Opened
<1>3. OverStays /\ \A t : Carries(t)
  BY <1>1, <1>2, CalmCarries
<1>4. StripFits
  BY <1>1, <1>3, HydratedShows DEF StripFits, FitsNext
<1>5. ASSUME NEW p \in Profiles
      PROVE  /\ seen'[p] \in {0} \union Ids
             /\ seen'[p] # 0 => Opened(seen'[p]) /\ profile[seen'[p]] = p
  <2> DEFINE T == {seen[p]} \union {s \in DOMAIN listed : profile[s] = p /\ p # Local}
  <2>1. /\ seen[p] \in {0} \union Ids /\ (seen[p] # 0 => Opened(seen[p]) /\ profile[seen[p]] = p)
        /\ \A s \in DOMAIN listed : Opened(s) /\ s \in Ids
    BY DEF LiveInv, SeenFits, IInv, PageSound, Opened
  <2>2. T \in SUBSET (0..MaxSessions) /\ T # {} /\ MaxSessions \in Nat
    BY <2>1 DEF Ids, BoundsAssumption
  <2>4. seen'[p] = Max(T)
    BY <1>1
  <2> HIDE DEF T
  <2>3. IsFiniteSet(T) /\ T \in SUBSET Nat
    <3>1. IsFiniteSet(0..MaxSessions)
      BY <2>2, FS_Interval
    <3>2. IsFiniteSet(T)
      BY <2>2, <3>1, FS_Subset
    <3> QED BY <2>2, <3>2
  <2>5. Max(T) \in T
    BY <2>2, <2>3, MaxIsIn
  <2> QED BY <2>1, <2>4, <2>5 DEF T
<1>6. SeenFits'
  <2>1. seen' \in [Profiles -> {0} \union Ids]
    BY <1>1, <1>5
  <2> QED BY <1>2, <1>5, <2>1 DEF SeenFits, Lasting, Opened
<1>7. QueuesFit' /\ OrderFits'
  BY <1>1, CalmFits
<1> QED BY <1>1, <1>2, <1>3, <1>4, <1>6, <1>7, StepFits

\* Restoring the workspace's profiles keeps the invariant.
LEMMA RestoreFits ==
    ASSUME IInv, LiveInv, NEW n \in Slots, NEW p \in Saved, Restore(n, p)
    PROVE  LiveInv'
<1>1. UNCHANGED <<profile, bstate, queue, tabs, seen, auto, listed, load>>
  BY DEF Restore, backend, recon
<1>2. CallsCarry
  <2>1. Begin(n, "open", p, 0, TRUE, "connect") \/ UNCHANGED calls
    BY DEF Restore, OpenSession
  <2> QED BY <2>1, BeginCarries, SameCalls
<1>3. (\A t : Carries(t)) /\ Lasting
  BY <1>1, <1>2, CalmCarries DEF Lasting, Opened
<1> QED BY <1>1, <1>2, <1>3, SeenSame, SameStrip, TimersSame, CalmStepFits

\* The end of the loading keeps the invariant.
LEMMA RestoreDoneFits ==
    ASSUME IInv, LiveInv, RestoreDone
    PROVE  LiveInv'
<1>1. UNCHANGED <<profile, bstate, queue, tabs, seen, auto, listed, calls>> /\ load' = "ready"
  BY DEF RestoreDone, loadFrame, backend, recon
<1>2. CallsCarry
  BY <1>1, SameCalls
<1>3. OverStays /\ (\A t : Carries(t)) /\ Lasting
  BY <1>1, <1>2, CalmCarries DEF Lasting, Opened
<1> QED BY <1>1, <1>2, <1>3, SeenSame, SameStrip, TimersSame, CalmFits, StepFits

\* Every step of the page keeps the invariant.
LEMMA PageFits ==
    ASSUME IInv, LiveInv, BoundsAssumption, PageStep
    PROVE  LiveInv'
BY EventsFit, TimerFits, RetryFits, AnswersFit, ListSessionsFits, HydrateFits, RestoreFits, RestoreDoneFits
   DEF PageStep

-----------------------------------------------------------------------------
(* The backend *)

\* What Append returns.
LEMMA Appended ==
    ASSUME NEW q \in Seq(Events), NEW e \in Events
    PROVE  /\ Len(q) \in Nat /\ DOMAIN q = 1..Len(q) /\ DOMAIN Append(q, e) = 1..(Len(q) + 1)
           /\ Append(q, e)[Len(q) + 1] = e
           /\ \A i \in DOMAIN q : i \in DOMAIN Append(q, e) /\ Append(q, e)[i] = q[i]
           /\ \A i \in DOMAIN Append(q, e) : i = Len(q) + 1 \/ i \in DOMAIN q
OBVIOUS

\* A session that goes on sends one more event.
LEMMA QueueGoesOn ==
    ASSUME NEW q \in Seq(Events), NEW e \in Events, e.type \in Telling,
           NEW b \in {"opening", "live"}, QueueFits(b, q), b = "opening" => e.type = "connected"
    PROVE  QueueFits("live", Append(q, e)) /\ ToldIn(Append(q, e))
<1> DEFINE r == Append(q, e)
           N == Len(q) + 1
<1>1. /\ Len(q) \in Nat /\ DOMAIN q = 1..Len(q) /\ DOMAIN r = 1..N /\ r[N] = e
      /\ \A i \in DOMAIN q : i \in DOMAIN r /\ r[i] = q[i]
      /\ \A i \in DOMAIN r : i = N \/ i \in DOMAIN q
  BY Appended
<1> HIDE DEF r
<1>2. ToldIn(r)
  BY <1>1 DEF ToldIn
<1>3. ASSUME NEW i \in DOMAIN r
      PROVE  /\ r[i].type \in Telling \union {"connecting"}
             /\ r[i].type = "connecting" => \E j \in DOMAIN r : j > i /\ r[j].type = "connected"
  <2>1. CASE i = N
    BY <1>1, <2>1 DEF Telling
  <2>2. CASE i \in DOMAIN q /\ b = "live"
    BY <1>1, <2>2 DEF QueueFits
  <2>3. CASE i \in DOMAIN q /\ b = "opening"
    <3>1. r[i].type = "connecting"
      BY <1>1, <2>3 DEF QueueFits
    <3>2. N \in DOMAIN r /\ N > i /\ r[N].type = "connected"
      BY <1>1, <2>3
    <3> QED BY <3>1, <3>2
  <2> QED BY <1>1, <2>1, <2>2, <2>3
<1>4. QueueFits("live", r)
  BY <1>3 DEF QueueFits
<1> QED BY <1>2, <1>4 DEF r

\* Sending one event appends it.
LEMMA SentOne ==
    ASSUME NEW q \in Seq(Events), NEW type \in EventTypes
    PROVE  /\ q \o Sent(<<type>>) = Append(q, [type |-> type, old |-> 0])
           /\ [type |-> type, old |-> 0] \in Events
<1> DEFINE e == [type |-> type, old |-> 0]
<1>1. Sent(<<type>>) = <<e>>
  BY DEF Sent
<1>2. e \in Events
  BY DEF Events
<1> HIDE DEF e, Events
<1>3. q \o <<e>> = Append(q, e)
  BY <1>2
<1> QED BY <1>1, <1>2, <1>3 DEF e

\* A step of the backend.
LEMMA BackendStepFits ==
    ASSUME IInv, LiveInv, UNCHANGED backendFrame, Lasting, OverStays, \A t \in Ids : Carries(t),
           QueuesFit', OrderFits', CallsFit'
    PROVE  LiveInv'
<1>1. UNCHANGED <<tabs, seen, auto, listed, load>>
  BY DEF backendFrame, recon, loading
<1>2. StripFits /\ TimersCarry
  BY <1>1, SameStrip, TimersSame DEF IInv, Shows, Opened
<1>3. TabsFit' /\ TimersFit'
  BY <1>1, <1>2, StripKept, TimersKept DEF LiveInv
<1>4. SeenFits'
  BY <1>1, SeenSame
<1> QED BY <1>1, <1>3, <1>4 DEF LiveInv, ListedFits

\* A session ends, or goes on with something to tell.
LEMMA TellingFits ==
    ASSUME IInv, LiveInv, NEW s \in Ids, Opened(s), NEW st, NEW q,
           bstate' = [bstate EXCEPT ![s] = st], queue' = [queue EXCEPT ![s] = q],
           UNCHANGED <<profile, backendFrame, calls>>,
           \/ st \in {"ended", "failed"}
           \/ bstate[s] \in {"opening", "live"} /\ st = "live" /\ QueueFits(st, q) /\ ToldIn(q)
    PROVE  LiveInv'
<1>1. /\ \A t \in Ids : t # s => bstate'[t] = bstate[t] /\ queue'[t] = queue[t]
      /\ bstate'[s] = st /\ queue'[s] = q /\ bstate[s] # "new"
  BY DEF IInv, BackendSound, Opened
<1>2. CallsCarry
  BY SameCalls
<1>3. OverStays /\ \A t \in Ids : Carries(t)
  <2>1. \A t \in Ids : Over(t) => OverNext(t)
    BY <1>1 DEF Over, OverNext
  <2>2. \A t \in Ids : Due(t) => DueNext(t) \/ OverNext(t)
    BY <1>1 DEF Due, DueNext, OverNext
  <2> QED BY <2>1, <2>2 DEF OverStays, Carries
<1>4. Lasting /\ OrderFits'
  <2>1. \A t \in Ids : (bstate'[t] = "new" <=> bstate[t] = "new")
                      /\ (bstate'[t] \in {"opening", "live"} => bstate[t] \in {"opening", "live"})
    BY <1>1
  <2> QED BY <2>1 DEF LiveInv, OrderFits, Lasting, Opened
<1>5. QueuesFit'
  <2> SUFFICES ASSUME NEW t \in Ids PROVE QueueFits(bstate'[t], queue'[t])
    BY DEF QueuesFit, QueueFits
  <2> QED BY <1>1 DEF LiveInv, QueuesFit, QueueFits
<1>6. CallsFit'
  BY <1>2, <1>3, CallsKept DEF LiveInv
<1> QED BY <1>3, <1>4, <1>5, <1>6, BackendStepFits

\* A session is opened, of a profile that has none running.
LEMMA OpeningFits ==
    ASSUME IInv, LiveInv, BoundsAssumption, Unused # {}, NEW p \in Profiles, p = Local \/ Current(p) = {},
           NEW st \in {"opening", "live"}, NEW q, QueueFits(st, q),
           profile' = [profile EXCEPT ![Newest] = p], bstate' = [bstate EXCEPT ![Newest] = st],
           queue' = [queue EXCEPT ![Newest] = q], UNCHANGED backendFrame, CallsCarry
    PROVE  LiveInv'
<1> DEFINE s == Newest
<1>1. s \in Ids /\ bstate[s] = "new" /\ \A t \in Ids : bstate[t] = "new" => s <= t
  BY NewestUnused DEF Unused
<1>2. \A t \in Ids : t # s => bstate'[t] = bstate[t] /\ queue'[t] = queue[t] /\ profile'[t] = profile[t]
  BY DEF IInv, BackendSound
<1>3. bstate'[s] = st /\ queue'[s] = q /\ profile'[s] = p /\ queue[s] = <<>>
  BY <1>1 DEF IInv, BackendSound, Opened
<1> HIDE DEF s
<1>4. OverStays /\ (\A t \in Ids : Carries(t)) /\ Lasting
  <2>1. \A t \in Ids : Over(t) => OverNext(t)
    BY <1>1, <1>2 DEF Over, OverNext
  <2>2. \A t \in Ids : Due(t) => DueNext(t)
    BY <1>1, <1>2, <1>3 DEF Due, DueNext, ToldIn, CallsCarry
  <2>3. Lasting
    BY <1>1, <1>2 DEF Lasting, Opened
  <2> QED BY <2>1, <2>2, <2>3 DEF OverStays, Carries
<1>5. QueuesFit'
  <2> SUFFICES ASSUME NEW t \in Ids PROVE QueueFits(bstate'[t], queue'[t])
    BY DEF QueuesFit, QueueFits
  <2> QED BY <1>2, <1>3 DEF LiveInv, QueuesFit
<1>6. OrderFits'
  <2>1. /\ \A a, t \in Ids : bstate[a] # "new" /\ bstate[t] = "new" => a < t
        /\ \A t \in Ids : bstate[t] = "new" => profile[t] = Local
        /\ \A a, t \in Ids : bstate[a] \in {"opening", "live"} /\ profile[a] # Local /\ profile[t] = profile[a] => t <= a
    BY DEF LiveInv, OrderFits
  <2>2. \A t \in Ids : t \in Nat
    BY DEF Ids
  <2>3. ASSUME NEW a \in Ids, NEW t \in Ids, bstate'[a] # "new", bstate'[t] = "new" PROVE a < t
    <3>1. t # s /\ bstate[t] = "new"
      BY <1>2, <1>3, <2>3
    <3>2. CASE a = s
      BY <1>1, <2>2, <3>1, <3>2
    <3>3. CASE a # s
      BY <1>2, <2>1, <2>3, <3>1, <3>3
    <3> QED BY <3>2, <3>3
  <2>4. \A t \in Ids : bstate'[t] = "new" => profile'[t] = Local
    BY <1>2, <1>3, <2>1
  <2>5. ASSUME NEW a \in Ids, NEW t \in Ids, bstate'[a] \in {"opening", "live"}, profile'[a] # Local,
               profile'[t] = profile'[a]
        PROVE  t <= a
    <3>1. CASE a = s
      <4>1. CASE t = s
        BY <2>2, <3>1, <4>1
      <4>2. CASE t # s
        <5>1. bstate[t] # "new"
          BY <1>2, <2>1, <2>5, <4>2
        <5>2. t < s
          BY <1>1, <2>1, <5>1
        <5> QED BY <2>2, <3>1, <5>2
      <4> QED BY <4>1, <4>2
    <3>2. CASE a # s
      <4>1. a \in Current(profile[a]) /\ bstate[a] \in {"opening", "live"} /\ profile[a] # Local
        BY <1>2, <2>5, <3>2 DEF Current
      <4>2. t # s
        BY <1>2, <1>3, <2>5, <3>2, <4>1
      <4> QED BY <1>2, <2>1, <2>5, <3>2, <4>1, <4>2
    <3> QED BY <3>1, <3>2
  <2> QED BY <2>3, <2>4, <2>5 DEF OrderFits
<1>7. CallsFit'
  BY <1>4, CallsKept DEF LiveInv
<1> QED BY <1>4, <1>5, <1>6, <1>7, BackendStepFits

\* A call that is answered, but for the reconnect by hand that begins.
LEMMA AnsweringCarries ==
    ASSUME IInv, NEW n \in Slots, calls[n] # NoCall, calls[n].kind # "manual" \/ calls[n].st # "reconnect",
           NEW st \in {"refused", "wait"}, NEW got,
           calls' = [calls EXCEPT ![n].st = st] \/ calls' = [calls EXCEPT ![n].st = st, ![n].got = got]
    PROVE  CallsCarry
<1>1. calls[n] \in Requests
  BY CallIs
<1>2. \A m \in Slots : m # n => calls'[m] = calls[m]
  BY DEF IInv, CallsSound
<1>3. calls'[n].kind = calls[n].kind /\ calls'[n].tab = calls[n].tab
  BY <1>1 DEF IInv, CallsSound, Requests
<1> QED BY <1>2, <1>3 DEF CallsCarry

\* A connect is refused, joins the session there is, or opens one.
LEMMA BConnectFits ==
    ASSUME IInv, LiveInv, BoundsAssumption, NEW n \in Slots, BConnect(n)
    PROVE  LiveInv'
<1> DEFINE p == calls[n].p
<1>1. calls[n] # NoCall /\ calls[n].st = "connect" /\ UNCHANGED backendFrame
  BY DEF BConnect
<1>2. p \in Profiles
  BY <1>1, CallIs
<1>3. ASSUME UNCHANGED <<profile, bstate, queue>>, CallsCarry PROVE LiveInv'
  <2>1. UNCHANGED <<tabs, seen, auto, listed, load>>
    BY <1>1 DEF backendFrame, recon, loading
  <2>2. (\A t : Carries(t)) /\ Lasting
    BY <1>3, CalmCarries DEF Lasting, Opened
  <2> QED BY <1>3, <2>1, <2>2, SeenSame, SameStrip, TimersSame, CalmStepFits
<1>4. CASE Answering(n, "refused") /\ UNCHANGED <<profile, bstate, queue>>
  <2>1. calls' = [calls EXCEPT ![n].st = "refused"]
    BY <1>4 DEF Answering
  <2>2. CallsCarry
    BY <1>1, <2>1, AnsweringCarries
  <2> QED BY <1>3, <1>4, <2>2
<1>5. ASSUME NEW s, calls' = [calls EXCEPT ![n].st = "wait", ![n].got = s] PROVE CallsCarry
  BY <1>1, <1>5, AnsweringCarries
<1>6. CASE /\ p = Local \/ Current(p) = {}
           /\ Unused # {}
           /\ calls' = [calls EXCEPT ![n].st = "wait", ![n].got = Newest]
           /\ profile' = [profile EXCEPT ![Newest] = p]
           /\ bstate' = [bstate EXCEPT ![Newest] = IF p = Local THEN "live" ELSE "opening"]
           /\ queue' = [queue EXCEPT ![Newest] = IF p = Local THEN <<>> ELSE Sent(<<"connecting">>)]
  <2> DEFINE st == IF p = Local THEN "live" ELSE "opening"
             q == IF p = Local THEN <<>> ELSE Sent(<<"connecting">>)
  <2>1. st \in {"opening", "live"} /\ QueueFits(st, q)
    BY DEF QueueFits, Sent
  <2>2. CallsCarry
    BY <1>5, <1>6
  <2>3. bstate' = [bstate EXCEPT ![Newest] = st] /\ queue' = [queue EXCEPT ![Newest] = q]
    BY <1>6
  <2> HIDE DEF st, q, p
  <2> QED BY <1>1, <1>2, <1>6, <2>1, <2>2, <2>3, OpeningFits
<1> QED BY <1>3, <1>4, <1>5, <1>6 DEF BConnect

\* A reconnect by hand begins by giving up the session it finds.
LEMMA BDisconnectFits ==
    ASSUME IInv, LiveInv, NEW n \in Slots, BDisconnect(n)
    PROVE  LiveInv'
<1> DEFINE s == calls[n].tab
<1>1. /\ calls[n] # NoCall /\ calls[n].kind \in {"close", "manual"}
      /\ Disconnect(s) /\ UNCHANGED profile /\ UNCHANGED backendFrame
  BY DEF BDisconnect, Ended, NoCall
<1>2. Opened(s) /\ s \in Ids /\ calls[n] \in Requests
  BY <1>1, CallIs DEF OfTab
<1>3. /\ OverStays /\ QueuesFit' /\ OrderFits' /\ Lasting /\ OverNext(s)
      /\ \A t \in Ids : (bstate'[t] = bstate[t] /\ queue'[t] = queue[t]) \/ t = s
  BY <1>1, <1>2, GivenUpFits
<1>4. PICK st : calls' = [calls EXCEPT ![n].st = st]
  BY DEF BDisconnect, Answering
<1>5. /\ \A m \in Slots : m # n => calls'[m] = calls[m]
      /\ calls'[n].kind = calls[n].kind /\ calls'[n].tab = s
  BY <1>2, <1>4 DEF IInv, CallsSound, Requests
<1> HIDE DEF s
<1>6. \A t \in Ids : Carries(t)
  <2> SUFFICES ASSUME NEW t \in Ids, t # s PROVE Carries(t)
    BY <1>3 DEF Carries
  <2>1. Due(t) => DueNext(t)
    BY <1>3, <1>5 DEF Due, DueNext, s
  <2> QED BY <1>3, <2>1 DEF Carries, OverStays
<1>7. CallsFit'
  <2> SUFFICES ASSUME NEW m \in Slots, calls'[m].kind = "manual", calls'[m].st # "reconnect"
               PROVE  OverNext(calls'[m].tab)
    BY DEF CallsFit, Over, OverNext
  <2>1. CASE m = n
    BY <1>3, <1>5, <2>1
  <2>2. CASE m # n
    <3>1. Over(calls[m].tab) /\ calls'[m].tab = calls[m].tab
      BY <1>5, <2>2 DEF LiveInv, CallsFit
    <3>2. calls[m].tab \in Ids
      BY <1>5, <2>2, CallIs DEF OfTab, NoCall
    <3> QED BY <1>3, <3>1, <3>2 DEF OverStays
  <2> QED BY <2>1, <2>2
<1> QED BY <1>1, <1>3, <1>6, <1>7, BackendStepFits

\* The end of a handshake keeps the invariant.
LEMMA BHandshakeFits ==
    ASSUME IInv, LiveInv, NEW s \in Ids, BHandshake(s)
    PROVE  LiveInv'
<1>1. PICK ok \in BOOLEAN :
         /\ bstate' = [bstate EXCEPT ![s] = IF ok THEN "live" ELSE "failed"]
         /\ queue' = [queue EXCEPT ![s] = queue[s] \o Sent(IF ok THEN <<"connected">> ELSE <<"error">>)]
  BY DEF BHandshake, IInv, BackendSound
<1>2. bstate[s] = "opening" /\ UNCHANGED <<profile, backendFrame, calls>>
  BY DEF BHandshake
<1>3. Opened(s) /\ queue[s] \in Seq(Events) /\ QueueFits(bstate[s], queue[s])
  BY <1>2 DEF IInv, BackendSound, Opened, LiveInv, QueuesFit
<1>4. CASE ok
  <2> DEFINE e == [type |-> "connected", old |-> 0]
             q == Append(queue[s], e)
  <2>1. queue[s] \o Sent(<<"connected">>) = q /\ e \in Events
    BY <1>3, SentOne DEF EventTypes
  <2>2. e.type = "connected" /\ e.type \in Telling
    BY DEF Telling
  <2> HIDE DEF e
  <2>3. QueueFits("live", q) /\ ToldIn(q)
    BY <1>2, <1>3, <2>1, <2>2, QueueGoesOn
  <2> HIDE DEF q
  <2> QED BY <1>1, <1>2, <1>3, <1>4, <2>1, <2>3, TellingFits
<1>5. CASE ~ok
  BY <1>1, <1>2, <1>3, <1>5, TellingFits
<1> QED BY <1>4, <1>5

\* A session that drops, or that the command line gives up, keeps the invariant.
LEMMA BDropFits ==
    ASSUME IInv, LiveInv, NEW s \in Ids, BDrop(s) \/ BCliRecover(s)
    PROVE  LiveInv'
<1>1. /\ UNCHANGED <<profile, backendFrame, calls>> /\ bstate[s] = "live"
      /\ bstate' = [bstate EXCEPT ![s] = "ended"]
  BY DEF BDrop, BCliRecover, World
<1>2. \E q : queue' = [queue EXCEPT ![s] = q]
  BY DEF BDrop, BCliRecover
<1> QED BY <1>1, <1>2, TellingFits DEF Opened

\* A session the command line uses goes on.
LEMMA GoesOnFits ==
    ASSUME IInv, LiveInv, NEW s \in Ids, bstate[s] = "live", NEW e \in Events, e.type \in Telling,
           queue' = [queue EXCEPT ![s] = Append(queue[s], e)], UNCHANGED <<profile, bstate, backendFrame, calls>>
    PROVE  LiveInv'
<1> DEFINE q == Append(queue[s], e)
<1>1. Opened(s) /\ queue[s] \in Seq(Events) /\ QueueFits("live", queue[s])
  BY DEF IInv, BackendSound, Opened, LiveInv, QueuesFit
<1>2. QueueFits("live", q) /\ ToldIn(q)
  BY <1>1, QueueGoesOn
<1>3. bstate' = [bstate EXCEPT ![s] = "live"]
  BY DEF IInv, BackendSound
<1> HIDE DEF q
<1> QED BY <1>1, <1>2, <1>3, TellingFits DEF q

\* The command line using or opening a session keeps the invariant.
LEMMA BCliFits ==
    ASSUME IInv, LiveInv, BoundsAssumption, NEW p \in Saved, BCli(p)
    PROVE  LiveInv'
<1>1. UNCHANGED <<backendFrame, calls>> /\ p \in Profiles
  BY DEF BCli, World, Profiles
<1>2. ASSUME NEW s \in Current(p), bstate[s] = "live", queue' = [queue EXCEPT ![s] = @ \o Sent(<<"cli">>)],
             UNCHANGED <<profile, bstate>>
      PROVE  LiveInv'
  <2>1. s \in Ids /\ queue[s] \in Seq(Events) /\ queue' = [queue EXCEPT ![s] = queue[s] \o Sent(<<"cli">>)]
    BY <1>2 DEF Current, IInv, BackendSound
  <2> DEFINE e == [type |-> "cli", old |-> 0]
  <2>2. queue[s] \o Sent(<<"cli">>) = Append(queue[s], e) /\ e \in Events /\ e.type \in Telling
    BY <2>1, SentOne DEF EventTypes, Telling
  <2> HIDE DEF e
  <2> QED BY <1>1, <1>2, <2>1, <2>2, GoesOnFits
<1>3. CASE /\ Current(p) = {} /\ Unused # {}
           /\ profile' = [profile EXCEPT ![Newest] = p]
           /\ bstate' = [bstate EXCEPT ![Newest] = "live"]
           /\ queue' = [queue EXCEPT ![Newest] = Sent(<<"connecting", "connected", "cli">>)]
  <2> DEFINE q == Sent(<<"connecting", "connected", "cli">>)
  <2>1. QueueFits("live", q)
    <3>1. /\ DOMAIN q = {1, 2, 3}
          /\ q[1].type = "connecting" /\ q[2].type = "connected" /\ q[3].type = "cli"
      BY DEF Sent
    <3> HIDE DEF q
    <3> QED BY <3>1 DEF QueueFits, Telling
  <2>2. CallsCarry
    BY <1>1, SameCalls
  <2> HIDE DEF q
  <2> QED BY <1>1, <1>3, <2>1, <2>2, OpeningFits DEF q
<1> QED BY <1>2, <1>3 DEF BCli

\* What a session that replaces another one sends first.
LEMMA QueueBegins ==
    ASSUME NEW first \in Seq(Events), Len(first) = 2, first[1].type = "connecting", first[2].type = "connected",
           NEW e \in Events, e.type \in Telling
    PROVE  QueueFits("live", Append(first, e))
<1> DEFINE q == Append(first, e)
           N == Len(first) + 1
<1>1. /\ DOMAIN first = 1..Len(first) /\ DOMAIN q = 1..N /\ q[N] = e
      /\ \A i \in DOMAIN first : q[i] = first[i]
  BY Appended
<1> HIDE DEF q
<1>2. /\ DOMAIN q = 1..3 /\ q[3] = e
      /\ \A i \in 1..2 : q[i] = first[i]
  BY <1>1
<1>3. ASSUME NEW i \in DOMAIN q
      PROVE  /\ q[i].type \in Telling \union {"connecting"}
             /\ q[i].type = "connecting" => \E j \in DOMAIN q : j > i /\ q[j].type = "connected"
  <2>1. i = 1 \/ i = 2 \/ i = 3
    BY <1>2
  <2>2. 2 \in DOMAIN q /\ q[2].type = "connected" /\ q[1].type = "connecting"
    BY <1>2
  <2> QED BY <1>2, <2>1, <2>2 DEF Telling
<1> QED BY <1>3 DEF QueueFits, q

\* The command line replacing a session keeps the invariant.
LEMMA BCliReplaceFits ==
    ASSUME IInv, LiveInv, BoundsAssumption, NEW old \in Ids, BCliReplace(old)
    PROVE  LiveInv'
<1> DEFINE e == [type |-> "replaced", old |-> old]
           p == profile[old]
<1>1. UNCHANGED <<backendFrame, calls>> /\ p \in Profiles
  BY DEF BCliReplace, IInv, BackendSound
<1>2. e \in Events /\ e.type = "replaced" /\ e.type \in Telling
  BY DEF Events, EventTypes, Telling
<1>3. CallsCarry
  BY <1>1, SameCalls
<1>4. CASE UNCHANGED <<profile, bstate, queue>>
  <2>1. UNCHANGED <<tabs, seen, auto, listed, load>>
    BY <1>1 DEF backendFrame, recon, loading
  <2>2. (\A t : Carries(t)) /\ Lasting
    BY <1>3, <1>4, CalmCarries DEF Lasting, Opened
  <2> QED BY <1>3, <1>4, <2>1, <2>2, SeenSame, SameStrip, TimersSame, CalmStepFits
<1>5. ASSUME NEW s \in Current(p), bstate[s] = "live", queue' = [queue EXCEPT ![s] = Append(@, e)],
             UNCHANGED <<profile, bstate>>
      PROVE  LiveInv'
  <2>1. s \in Ids /\ queue' = [queue EXCEPT ![s] = Append(queue[s], e)]
    BY <1>5 DEF Current, IInv, BackendSound
  <2> HIDE DEF e
  <2> QED BY <1>1, <1>2, <1>5, <2>1, GoesOnFits
<1>6. CASE /\ Current(p) = {} /\ Unused # {}
           /\ profile' = [profile EXCEPT ![Newest] = p]
           /\ bstate' = [bstate EXCEPT ![Newest] = "live"]
           /\ queue' = [queue EXCEPT ![Newest] = Append(Sent(<<"connecting", "connected">>), e)]
  <2> DEFINE first == Sent(<<"connecting", "connected">>)
             q == Append(first, e)
  <2>1. QueueFits("live", q)
    <3>1. first \in Seq(Events) /\ Len(first) = 2 /\ first[1].type = "connecting" /\ first[2].type = "connected"
      <4>1. <<"connecting", "connected">> \in Seq(EventTypes)
        BY DEF EventTypes
      <4>2. first \in Seq(Events)
        BY <4>1, Sending
      <4> QED BY <4>2 DEF Sent
    <3> HIDE DEF first, e
    <3> QED BY <1>2, <3>1, QueueBegins
  <2> HIDE DEF e, p
  <2>2. queue' = [queue EXCEPT ![Newest] = q]
    BY <1>6
  <2> HIDE DEF q
  <2> QED BY <1>1, <1>3, <1>6, <2>1, <2>2, OpeningFits
<1> QED BY <1>4, <1>5, <1>6 DEF BCliReplace

\* Every step of the backend keeps the invariant.
LEMMA BackendFits ==
    ASSUME IInv, LiveInv, BoundsAssumption, BackendStep
    PROVE  LiveInv'
BY BDisconnectFits, BConnectFits, BHandshakeFits, BDropFits, BCliFits, BCliReplaceFits DEF BackendStep

-----------------------------------------------------------------------------
(* The theorem *)

\* The initial states satisfy the invariant.
LEMMA FitsAtFirst ==
    ASSUME ProfilesAssumption, BoundsAssumption, Init
    PROVE  LiveInv
<1>1. PICK p \in Saved \union {Local} :
        /\ profile = [s \in Ids |-> IF s = 1 THEN p ELSE Local]
        /\ bstate = [s \in Ids |-> IF s = 1 /\ p # Local THEN "live" ELSE "new"]
  BY DEF Init
<1>2. 1 \in Ids /\ \A s \in Ids : s \in Nat /\ s >= 1
  BY DEF Ids, BoundsAssumption
<1>3. /\ queue = [s \in Ids |-> <<>>] /\ listed = <<>> /\ calls = [n \in Slots |-> NoCall]
      /\ auto = [s \in Ids |-> Idle]
  BY DEF Init
<1>4. TabsFit
  <2>1. tabs = <<>> \/ tabs = <<Tab(1, "connected")>>
    BY DEF Init
  <2>2. \A i \in DOMAIN tabs : tabs[i].st = "connected"
    BY <2>1 DEF Tab
  <2> QED BY <2>2 DEF TabsFit, Fits
<1>5. TimersFit /\ CallsFit /\ QueuesFit
  BY <1>3 DEF TimersFit, Idle, CallsFit, NoCall, QueuesFit, QueueFits
<1>6. OrderFits
  BY <1>1, <1>2 DEF OrderFits
<1>7. SeenFits
  <2>1. \/ seen = [q \in Profiles |-> 0]
        \/ seen = [q \in Profiles |-> IF bstate[1] = "live" /\ q = profile[1] THEN 1 ELSE 0]
    BY DEF Init
  <2> QED BY <1>2, <2>1 DEF SeenFits, Opened
<1> QED BY <1>3, <1>4, <1>5, <1>6, <1>7 DEF LiveInv, ListedFits

\* A stuttering step keeps the invariant.
LEMMA FitsStuttering ==
    ASSUME IInv, LiveInv, UNCHANGED vars
    PROVE  LiveInv'
<1>1. UNCHANGED <<profile, bstate, queue, tabs, seen, auto, calls, listed, load>>
  BY DEF vars, backend, recon, loading
<1>2. CallsCarry
  BY <1>1, SameCalls
<1>3. (\A t : Carries(t)) /\ Lasting
  BY <1>1, <1>2, CalmCarries DEF Lasting, Opened
<1> QED BY <1>1, <1>2, <1>3, SeenSame, SameStrip, TimersSame, CalmStepFits

\* What a tab shows fits its session: it is connected, or the session is over,
\* or an event, an answer or the end of a handshake that will correct it is on
\* its way (useSessions.ts, the handlers of terminal:* and scheduleAutoReconnect).
THEOREM ShownFits == Spec => []LiveInv
<1>1. Init => LiveInv
  BY FitsAtFirst, ProfilesAssumption, BoundsAssumption
<1>2. IInv /\ LiveInv /\ [Next]_vars => LiveInv'
  BY UserFits, PageFits, BackendFits, FitsStuttering, BoundsAssumption DEF Next
<1> QED BY <1>1, <1>2, Inductive, PTL DEF Spec

\* Once everything has been answered, a running session that has a tab is shown
\* as connected, whatever late events, failed attempts and timers came before
\* (useSessions.ts, acceptRuntimeEvent and scheduleAutoReconnect).
THEOREM ShownLive == Spec => []LiveSessionShownLive
<1>1. IInv /\ LiveInv => LiveSessionShownLive
  <2> SUFFICES ASSUME IInv, LiveInv, Quiet, NEW i \in DOMAIN tabs,
                      tabs[i].id \notin DOMAIN listed, bstate[tabs[i].id] = "live"
               PROVE  tabs[i].st = "connected"
    BY DEF LiveSessionShownLive
  <2>1. tabs[i].id \in Ids
    BY DEF IInv, Shows, Opened
  <2>2. ~Due(tabs[i].id)
    BY <2>1 DEF Quiet, Due, ToldIn, NoCall
  <2> QED BY <2>2 DEF LiveInv, TabsFit, Fits, Over
<1> QED BY <1>1, Inductive, ShownFits, PTL
=============================================================================
