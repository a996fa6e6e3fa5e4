------------------------ MODULE MCConnectorExchange ------------------------
(***************************************************************************)
(* Small instances of ConnectorExchange for TLC.                           *)
(***************************************************************************)
EXTENDS ConnectorExchange, TLC

CONSTANTS c1, c2

\* Everyone calls the same operation.
OneOperation == [c \in Callers |-> "search"]

\* Two processes that call one operation are alike.
CallersAlike == Permutations(Callers)

\* The ledger is new, or holds the receipt of a call made under a later clock.
Earlier == [request |-> <<"earlier", 1>>, attempt |-> 0,
            receipt |-> [decision |-> "deny", outcome |-> "denied"], recorded_at |-> 1]
NewOrUsed == {<<>>, <<Earlier>>}

AheadOrNot == {0, 1}
BehindOrAhead == -1..1

=============================================================================
