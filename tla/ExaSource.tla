------------------------------ MODULE ExaSource ------------------------------
(***************************************************************************)
(* The Exa source: two searches with a contract each, behind an artifact   *)
(* bundle the operator attests. A binding of its own retries (none), so    *)
(* the runner does not.                                                    *)
(***************************************************************************)
EXTENDS SourceResults

ExaResult(op, id) == [schema |-> op, id |-> id, ok |-> TRUE]
ExaMalformed(op) == [schema |-> op, id |-> 1, ok |-> FALSE]

\* ExaAdapter of one operation, called with its own call or with the other's.
ExaCalls ==
    [source : {"exa"}, op : {"search.web", "search.code"}, limit : Limits]

ExaRequest(call) == [call EXCEPT !.limit = LimitOr(@, MaximumItems)]

\* The worker and the parent bound the answer by MAX_ITEMS, not by the limit.
ExaItemLimit(request) == Min({request.limit, MaximumItems})

ExaErrorCodes ==
    SharedErrorCodes \cup {"invalid_input", "not_found", "authentication",
                           "authorization", "rate_limit", "transient"}

\* _success_value and _main: the frame for a fork result.
ExaWorker(request, fork) ==
    IF /\ fork.type = "success"
       /\ fork.identity /\ fork.fits
       /\ fork.partial = None
       /\ Len(fork.items) <= ExaItemLimit(request)
       /\ OfSchema(fork.items, request.op)
       /\ AllDecode(fork.items)
    THEN Success(fork.items, None, fork.truncated)
    ELSE IF fork.type = "failure" /\ fork.identity /\ fork.code \in ExaErrorCodes
    THEN Failure(fork.code)
    ELSE Failure("backend_contract_violation")

\* decode_response, in the parent: one schema for the frame.
ExaDecode(request, frame) ==
    IF \/ /\ frame.type = "success"
          /\ frame.partial = None
          /\ Len(frame.items) <= ExaItemLimit(request)
          /\ OfSchema(frame.items, request.op)
          /\ AllDecode(frame.items)
       \/ frame.type = "failure" /\ frame.code \in ExaErrorCodes
    THEN frame
    ELSE Refused

\* The parent's execute, where no frame is there to decode.
ExaBroken(how) ==
    Raised(IF how \in {"oversized", "garbled"} THEN "permanent" ELSE "transient")

ExaFailureClass(code) ==
    CASE code \in {"invalid_input", "not_found", "authentication",
                   "authorization", "rate_limit"} -> code
      [] code \in {"backend_unavailable", "backend_incompatible"} -> "setup_required"
      [] code \in {"cancelled", "deadline_exceeded", "transient"} -> "transient"
      [] OTHER -> "permanent"

\* ExaAdapter.execute, from the decoded response on.
ExaAdapted(decoded) ==
    CASE decoded.type = "success" ->
           Succeeded(decoded.items, None, decoded.truncated, "permanent")
      [] decoded.type = "failure" -> Failed(ExaFailureClass(decoded.code))
      [] decoded.type = "raised" -> Failed(decoded.class)
      [] OTHER -> Failed("permanent")

\* What the fork may return.
ExaForkLists(request) ==
    ForkLists({ExaResult("search.web", 1), ExaResult("search.code", 1),
               ExaMalformed(request.op)},
              ExaItemLimit(request))
=============================================================================
