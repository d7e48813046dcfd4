---------------------------- MODULE SessionLease ----------------------------
(***************************************************************************)
(* What the SSH manager promises about physical connections, with nothing  *)
(* of how: a runtime leases its one connection to one session at a time,   *)
(* and a session that has given it up, or was never given it, stays        *)
(* without.  SshRuntime implements this.                                   *)
(***************************************************************************)
CONSTANTS Runtimes, Calls, NoCall

VARIABLES
    holder,   \* the session that holds the runtime's lease
    spent     \* sessions that hold or have held a lease

lease == <<holder, spent>>

Init ==
    /\ holder = [r \in Runtimes |-> NoCall]
    /\ spent = {}

Acquire(r, s) ==
    /\ holder[r] = NoCall
    /\ s \in Calls \ spent
    /\ holder' = [holder EXCEPT ![r] = s]
    /\ spent' = spent \union {s}

Release(r) ==
    /\ holder[r] # NoCall
    /\ holder' = [holder EXCEPT ![r] = NoCall]
    /\ UNCHANGED spent

Next == \E r \in Runtimes : Release(r) \/ \E s \in Calls : Acquire(r, s)

Spec == Init /\ [][Next]_lease
=============================================================================
