---------------------------- MODULE SourceResults ----------------------------
(***************************************************************************)
(* What the parts of a source call hand to each other: the frame a worker  *)
(* process answers with, and the AdapterResult the runtime gets from the   *)
(* adapter. Texts, titles and URLs are left out: an item keeps its schema, *)
(* the identifiers the validators compare and whether its other fields are *)
(* within their bounds.                                                    *)
(***************************************************************************)
EXTENDS Naturals, Sequences, FiniteSets, SequencesExt

CONSTANTS
    MaximumItems,       \* OperationRuntimeSpec.maximum_items
    MaxLimit,           \* the catalog's largest "limit" option
    MaxForkItems        \* bound: the longest list the fork is taken to return

ASSUME SourceLimits ==
    /\ {MaximumItems, MaxLimit, MaxForkItems} \subseteq Nat \ {0}
    /\ MaximumItems < MaxLimit

\* A field that is None in the code.
None == "none"

FailureClasses ==
    {"transient", "invalid_input", "not_found", "setup_required",
     "authentication", "authorization", "policy", "rate_limit", "permanent"}

\* AdapterResult.__post_init__: what the constructor accepts.
WellFormed(result) ==
    /\ result.failure # None => result.items = <<>> /\ ~result.truncated
    /\ result.failure # None => result.partial = None
    /\ result.partial # None => result.items # <<>>
    /\ {result.failure, result.partial} \subseteq FailureClasses \cup {None}

Failed(class) ==
    [items |-> <<>>, failure |-> class, partial |-> None, truncated |-> FALSE]

\* A success; an adapter whose result the constructor refuses reports class.
Succeeded(items, partial, truncated, class) ==
    LET result == [items |-> items, failure |-> None, partial |-> partial,
                   truncated |-> truncated]
    IN  IF WellFormed(result) THEN result ELSE Failed(class)

\* Frames, as values: the worker writes the first two; a decoder that raises
\* its protocol error returns the third.
Success(items, partial, truncated) ==
    [type |-> "success", items |-> items, partial |-> partial, truncated |-> truncated]
Failure(code) == [type |-> "failure", code |-> code]
Refused == [type |-> "refused"]

\* How a worker breaks: it cannot be started, its pipe breaks, it exits with a
\* failure status, writes more than a frame may hold, or what is no frame.
Breaks == {"unspawned", "pipe", "exited", "oversized", "garbled"}
Broken(how) == [type |-> "broken", how |-> how]
\* The error of its class that the parent raises then.
Raised(class) == [type |-> "raised", class |-> class]

\* What an Agent-Reach execution returns to the worker, before any check:
\* identity says that protocol, source, operation and backend are the expected
\* ones; fits, that the encoded answer is within the frame's bound.
ForkSuccess(items, partial, truncated, identity, fits) ==
    [type |-> "success", items |-> items, partial |-> partial,
     truncated |-> truncated, identity |-> identity, fits |-> fits]
ForkFailure(code, identity) ==
    [type |-> "failure", code |-> code, identity |-> identity, fits |-> TRUE]
\* A raise, or a value of a type the contract does not know.
ForkForeign == [type |-> "foreign", identity |-> FALSE, fits |-> TRUE]

\* A limit option: 0 stands for one the caller leaves out.
Limits == 0..MaxLimit
LimitOr(limit, default) == IF limit = 0 THEN default ELSE limit

\* Identifiers that are compared without regard to case.
Names == {"a", "b"} \X {"lower", "upper"}
Casefold(name) == name[1]

Distinct(items) == Cardinality({items[i].id : i \in DOMAIN items}) = Len(items)
OfSchema(items, schema) == \A i \in DOMAIN items : items[i].schema = schema
AllDecode(items) == \A i \in DOMAIN items : items[i].ok

\* The lists of items a fork is taken to return when it may return limit: one
\* more than that is tried, up to MaxForkItems.
ForkLists(items, limit) == BoundedSeq(items, Min({limit + 1, MaxForkItems}))

\* Codes every source's contract knows, and one that none does.
SharedErrorCodes ==
    {"unsupported_protocol_version", "invalid_request", "unsupported_source",
     "unsupported_operation", "host_capability_missing", "backend_unavailable",
     "backend_incompatible", "deadline_exceeded", "cancelled", "permanent",
     "backend_contract_violation"}
UnknownCode == "unknown"

\* The sources the Connector serves: the executor's _ERROR_CODE_MAP, whose codes
\* travel in the signed response, followed by the adapter's _failure_class.
ConnectorFailureClass(code) ==
    CASE code \in {"invalid_input", "not_found", "authentication",
                   "authorization", "rate_limit"} -> code
      [] code = "backend_incompatible" -> "setup_required"
      [] code \in {"backend_unavailable", "cancelled", "deadline_exceeded",
                   "transient"} -> "transient"
      [] OTHER -> "permanent"
=============================================================================
