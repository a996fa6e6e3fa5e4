---------------------------- MODULE XueqiuSource ----------------------------
(***************************************************************************)
(* The Xueqiu source: a stock search executed by the Connector with the    *)
(* owner's cookie. XueqiuExecutor asks a worker process of its own, whose  *)
(* answer becomes an operation result that the Connector signs and the     *)
(* VPS's _ConnectorAdapter turns into an AdapterResult.                    *)
(***************************************************************************)
EXTENDS SourceResults

\* A stock, by its symbol and whether its name fits the public bound.
Stock(symbol, fits) == [schema |-> "stock", id |-> symbol, short |-> fits, ok |-> TRUE]
XueqiuOther == [schema |-> "other", id |-> 1, short |-> TRUE, ok |-> TRUE]
XueqiuMalformed == [schema |-> "stock", id |-> 1, short |-> TRUE, ok |-> FALSE]

XueqiuCalls == [source : {"xueqiu"}, op : {"search.stocks"}, limit : Limits]

\* XueqiuExecutor.execute: the limit it asks for is never above the catalog's.
XueqiuRequest(call) ==
    LET requested == LimitOr(call.limit, MaximumItems)
    IN  [source |-> "xueqiu", op |-> call.op, limit |-> Min({requested, MaximumItems}),
         forced |-> requested > MaximumItems]

XueqiuErrorCodes ==
    SharedErrorCodes \cup {"invalid_input", "not_found", "authentication",
                           "authorization", "rate_limit", "transient"}

\* _success_value: what the worker lets through.
XueqiuAccepts(request, fork) ==
    /\ fork.identity
    /\ fork.partial = None
    /\ Len(fork.items) <= request.limit
    /\ OfSchema(fork.items, "stock")
    /\ AllDecode(fork.items)
    /\ Distinct(fork.items)

\* _execute_request and _main: an answer that does not fit is replaced.
XueqiuWorker(request, fork) ==
    IF fork.type = "success" /\ fork.fits /\ XueqiuAccepts(request, fork)
    THEN Success(fork.items, None, fork.truncated)
    ELSE IF fork.type = "failure" /\ fork.identity /\ fork.code \in XueqiuErrorCodes
    THEN Failure(fork.code)
    ELSE Failure("backend_contract_violation")

\* decode_response and _decode_success, in the Connector's process.
XueqiuDecode(request, frame) ==
    IF \/ /\ frame.type = "success"
          /\ Len(frame.items) <= request.limit
          /\ OfSchema(frame.items, "stock")
          /\ AllDecode(frame.items)
          /\ Distinct(frame.items)
       \/ frame.type = "failure" /\ frame.code \in XueqiuErrorCodes
    THEN frame
    ELSE Refused

\* The parent's execute, where no frame is there to decode: the Connector's
\* workers have a deadline, and their parents answer with a code of the contract.
XueqiuBroken(how) ==
    Failure(CASE how \in {"oversized", "garbled"} -> "backend_contract_violation"
              [] how = "unspawned" -> "backend_unavailable"
              [] how = "late" -> "deadline_exceeded"
              [] OTHER -> "transient")

\* _operation_result: a name cut to its public bound, or a limit cut to the
\* catalog's, makes the result a truncated one. Its last check, of the characters of
\* all items together, is left out: 20 items, whose identifier, symbol, exchange and
\* cut name the worker's contract bounds, are below the 16000 it allows.
XueqiuOperationResult(request, frame) ==
    [items |-> frame.items,
     truncated |-> \/ frame.truncated
                   \/ request.forced
                   \/ \E i \in DOMAIN frame.items : ~frame.items[i].short]

\* XueqiuExecutor.execute from the worker's response on, the signed response,
\* and _ConnectorAdapter.execute.
XueqiuAdapted(request, decoded) ==
    CASE decoded.type = "success" ->
           LET result == XueqiuOperationResult(request, decoded)
           IN  IF Len(result.items) > MaximumItems \/ ~Distinct(result.items)
               THEN Failed("permanent")
               ELSE Succeeded(result.items, None, result.truncated, "permanent")
      [] decoded.type = "failure" -> Failed(ConnectorFailureClass(decoded.code))
      [] OTHER -> Failed("permanent")

\* What the fork may return.
XueqiuForkLists(request) ==
    ForkLists({Stock(1, TRUE), Stock(2, FALSE), XueqiuOther, XueqiuMalformed},
              request.limit)
=============================================================================
