---------------------------- MODULE UnlockLease ----------------------------
(***************************************************************************)
(* What unlocking the Connector promises: the signing key is in use only   *)
(* under the lease the owner opened last, work starts only under that      *)
(* lease, and the lease is withdrawn only when no work is left under it.   *)
(* A lease once withdrawn is never in force again.                         *)
(*                                                                         *)
(* ServiceLifecycle implements this specification: see Lease there.        *)
(***************************************************************************)
EXTENDS Naturals

CONSTANTS Workers      \* those who may come to work under a lease

VARIABLES
    lease,             \* the lease in force, 0 when locked
    spent,             \* the last lease ever opened
    working            \* the workers at work

vars == <<lease, spent, working>>

Init ==
    /\ lease = 0
    /\ spent = 0
    /\ working = {}

Unlock ==
    /\ lease = 0
    /\ lease' = spent + 1
    /\ spent' = spent + 1
    /\ UNCHANGED working

Begin(w) ==
    /\ lease > 0
    /\ w \notin working
    /\ working' = working \cup {w}
    /\ UNCHANGED <<lease, spent>>

End(w) ==
    /\ w \in working
    /\ working' = working \ {w}
    /\ UNCHANGED <<lease, spent>>

Withdraw ==
    /\ working = {}
    /\ lease' = 0
    /\ UNCHANGED <<spent, working>>

Next == Unlock \/ Withdraw \/ (\E w \in Workers : Begin(w) \/ End(w))

Spec == Init /\ [][Next]_vars
=============================================================================
