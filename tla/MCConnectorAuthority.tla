----------------------- MODULE MCConnectorAuthority -----------------------
(***************************************************************************)
(* Small instances of ConnectorAuthority for TLC.                          *)
(***************************************************************************)
EXTENDS ConnectorAuthority, TLC

CONSTANTS d1, d2, op1, op2, q1, q2

\* A request of device d, signed at time t for revision rev of its grant.
RequestBy(id, d, rev, pol, op, t, ttl) ==
    [id |-> id, subject_key_id |-> d, grant_id |-> d, grant_revision |-> rev,
     policy_revision |-> pol, operation |-> op, issued_at |-> t, deadline |-> t + ttl]

\* Copies of one request, and a later request under the same identifier, against a
\* grant that could pay for two executions.
ReplayRequests == {RequestBy(q1, d1, 1, 1, op1, t, 1) : t \in {0, 4}}
ReplayTerms    == {[max_uses |-> 2, lifetime |-> 6, scopes |-> {op1}]}
\* Two requests for the one use of a revision that may be replaced under them. One
\* asks for an operation the device has composed no executor for, and is valid for
\* less time.
OwnerRequests == {RequestBy(q1, d1, 1, 1, op1, 0, 2), RequestBy(q2, d1, 1, 1, op2, 0, 1)}
OwnerTerms    == {[max_uses |-> 1, lifetime |-> 2, scopes |-> {op1, op2}]}
\* Handlers are alike.
HandlersAlike == Permutations(Handlers)

\* d1's own request, and one that d2 signs for the grant of d1 under the same
\* request identifier: whichever arrives first takes the identifier.
SteadyRequests == {RequestBy(q1, d1, 1, 1, op1, 1, 2),
                   [RequestBy(q1, d2, 1, 1, op1, 1, 1) EXCEPT !.grant_id = d1]}
SteadyTerms    == {[max_uses |-> 1, lifetime |-> 3, scopes |-> {op1}]}

=============================================================================
