--------------------------- MODULE BilibiliSource ---------------------------
(***************************************************************************)
(* The Bilibili source: every operation answers with videos, and neither   *)
(* side compares a video with the one that was asked for.                  *)
(***************************************************************************)
EXTENDS SourceResults

BilibiliVideo(id) == [schema |-> "video", id |-> id, ok |-> TRUE]
BilibiliOther == [schema |-> "other", id |-> 1, ok |-> TRUE]
BilibiliMalformed == [schema |-> "video", id |-> 1, ok |-> FALSE]

BilibiliCalls ==
         [source : {"bilibili"}, op : {"search.videos", "browse.hot", "browse.rank"},
          limit : Limits]
    \cup [source : {"bilibili"}, op : {"read.video"}, video : {1, 2}]

\* _BilibiliAdapter.execute and encode_request.
BilibiliRequest(call) ==
    IF call.op = "read.video" THEN call
    ELSE [call EXCEPT !.limit = LimitOr(@, MaximumItems)]

BilibiliItemLimit(request) == IF request.op = "read.video" THEN 1 ELSE request.limit

BilibiliErrorCodes ==
    SharedErrorCodes \cup {"invalid_input", "not_found", "authentication",
                           "authorization", "rate_limit", "transient"}

\* The number of items both sides let through.
BilibiliSized(request, items) ==
    /\ Len(items) <= BilibiliItemLimit(request)
    /\ request.op = "read.video" => Len(items) = 1

\* _execute_request: the frame of the worker for a fork result.
BilibiliWorker(request, fork) ==
    IF /\ fork.type = "success"
       /\ fork.identity
       /\ fork.partial = None
       /\ BilibiliSized(request, fork.items)
       /\ OfSchema(fork.items, "video")
       /\ AllDecode(fork.items)
    THEN Success(fork.items, None, fork.truncated)
    ELSE IF fork.type = "failure" /\ fork.identity /\ fork.code \in BilibiliErrorCodes
    THEN Failure(fork.code)
    ELSE Failure("backend_contract_violation")

\* decode_response, in the parent: the frame names one schema for all items.
BilibiliDecode(request, frame) ==
    IF \/ /\ frame.type = "success"
          /\ frame.partial = None
          /\ BilibiliSized(request, frame.items)
          /\ AllDecode(frame.items)
       \/ frame.type = "failure" /\ frame.code \in BilibiliErrorCodes
    THEN frame
    ELSE Refused

\* The parent's execute, where no frame is there to decode.
BilibiliBroken(how) ==
    Raised(IF how \in {"oversized", "garbled"} THEN "permanent" ELSE "transient")

BilibiliFailureClass(code) ==
    CASE code \in {"invalid_input", "not_found", "authentication",
                   "authorization", "rate_limit"} -> code
      [] code \in {"cancelled", "deadline_exceeded", "transient"} -> "transient"
      [] OTHER -> "permanent"

\* ProductionBilibiliClient._execute and _BilibiliAdapter.execute.
BilibiliAdapted(decoded) ==
    CASE decoded.type = "success" ->
           Succeeded(decoded.items, None, decoded.truncated, "permanent")
      [] decoded.type = "failure" -> Failed(BilibiliFailureClass(decoded.code))
      [] decoded.type = "raised" -> Failed(decoded.class)
      [] OTHER -> Failed("permanent")

\* What the fork may return.
BilibiliForkLists(request) ==
    ForkLists({BilibiliVideo(1), BilibiliVideo(2), BilibiliOther, BilibiliMalformed},
              BilibiliItemLimit(request))
=============================================================================
