------------------------- MODULE MeteredExecution -------------------------
(***************************************************************************)
(* What the Connector's grant authority promises a device owner, with no   *)
(* clock, signer, handler, database row or crash in it:                    *)
(*                                                                         *)
(*   - a signed request is settled at most once, either spent (its         *)
(*     operation is handed to an executor) or refused, and for good;       *)
(*   - spending takes one use from the budget of the grant it names, and   *)
(*     only while that grant is live and has a use left;                   *)
(*   - a grant that lost its authority regains it only by being endowed    *)
(*     again by the owner, and never once its device or lineage is revoked.*)
(*                                                                         *)
(* ConnectorAuthority implements this specification: see Metered there.    *)
(***************************************************************************)
EXTENDS Naturals

CONSTANTS
    Requests,      \* the signed requests
    Grants,        \* grant lineages, one for each paired device
    GrantOf        \* [Requests -> Grants], the lineage a request names

VARIABLES
    settled,       \* [Requests -> {"fresh", "spent", "refused"}]
    budget,        \* [Grants -> Nat], uses left on the live revision
    live,          \* grants that may be spent from, expiry aside
    revoked        \* grants that will never be live again

vars == <<settled, budget, live, revoked>>

Init ==
    /\ settled = [r \in Requests |-> "fresh"]
    /\ budget = [g \in Grants |-> 0]
    /\ live = {}
    /\ revoked = {}

Spend(r) ==
    /\ settled[r] = "fresh"
    /\ GrantOf[r] \in live
    /\ budget[GrantOf[r]] > 0
    /\ settled' = [settled EXCEPT ![r] = "spent"]
    /\ budget' = [budget EXCEPT ![GrantOf[r]] = @ - 1]
    /\ UNCHANGED <<live, revoked>>

Refuse(r) ==
    /\ settled[r] = "fresh"
    /\ settled' = [settled EXCEPT ![r] = "refused"]
    /\ UNCHANGED <<budget, live, revoked>>

\* The owner approves a pairing or a replacement revision.
Endow(g) ==
    /\ g \notin revoked
    /\ budget'[g] \in Nat \ {0}
    /\ budget' = [budget EXCEPT ![g] = budget'[g]]
    /\ live' = live \cup {g}
    /\ UNCHANGED <<settled, revoked>>

\* The owner moves to a new policy revision: no grant bound to the old one
\* keeps its authority.
WithdrawAll ==
    /\ live' = {}
    /\ UNCHANGED <<settled, budget, revoked>>

Revoke(g) ==
    /\ revoked' = revoked \cup {g}
    /\ live' = live \ {g}
    /\ UNCHANGED <<settled, budget>>

Next ==
    \/ \E r \in Requests : Spend(r) \/ Refuse(r)
    \/ \E g \in Grants : Endow(g) \/ Revoke(g)
    \/ WithdrawAll

Spec == Init /\ [][Next]_vars
=============================================================================
