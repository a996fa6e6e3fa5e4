----------------------------- MODULE V2exSource -----------------------------
(***************************************************************************)
(* The V2EX source: the adapter's request, the worker's checks of what the *)
(* Agent-Reach fork returned, the parent's checks of the worker's frame,   *)
(* and the projection to an AdapterResult.                                 *)
(***************************************************************************)
EXTENDS SourceResults

CONSTANT MaxTopicItems      \* a topic and the replies one answer may hold

ASSUME MaxTopicItemsAssumption == MaxTopicItems \in Nat \ {0}

\* A topic's number, and how the caller wrote it: the code compares str(int(x)).
TopicTexts == {1, 2} \X {"canonical", "padded"}
Canonical(text) == text[1]

Topic(id, node) == [schema |-> "topic", id |-> id, node |-> node, ok |-> TRUE]
Reply(id, topic) == [schema |-> "reply", id |-> id, topic |-> topic, ok |-> TRUE]
Profile(name) == [schema |-> "profile", id |-> 1, name |-> name, ok |-> TRUE]
Malformed == [schema |-> "topic", id |-> 1, node |-> <<"a", "lower">>, ok |-> FALSE]

\* The calls the catalog lets through to the adapter.
V2exCalls ==
         [source : {"v2ex"}, op : {"browse.hot"}, limit : Limits]
    \cup [source : {"v2ex"}, op : {"browse.node_topics"}, node : Names, limit : Limits]
    \cup [source : {"v2ex"}, op : {"read.topic"}, topic : TopicTexts]
    \cup [source : {"v2ex"}, op : {"read.user"}, user : Names]

V2exBrowses(call) == call.op \in {"browse.hot", "browse.node_topics"}

\* V2exAdapter.execute fills the options the caller left out.
V2exRequest(call) ==
    IF V2exBrowses(call)
    THEN [call EXCEPT !.limit = LimitOr(@, MaximumItems)]
    ELSE call

V2exItemLimit(request) ==
    CASE V2exBrowses(request) -> request.limit
      [] request.op = "read.topic" -> MaxTopicItems
      [] OTHER -> 1

V2exErrorCodes ==
    SharedErrorCodes \cup {"invalid_input", "not_found", "authentication",
                           "authorization", "rate_limit", "transient"}
V2exPartialCodes ==
    {"not_found", "authentication", "authorization", "rate_limit", "transient",
     "permanent", "backend_contract_violation"}

V2exPartialAllowed(request, partial) ==
    partial = None \/ (request.op = "read.topic" /\ partial \in V2exPartialCodes)

\* Mutant: topics of any node answer for the node that was asked for.
V2exSequence_AnyNode(request, items, partial) ==
    /\ Len(items) <= V2exItemLimit(request)
    /\ V2exBrowses(request)
    /\ partial = None /\ OfSchema(items, "topic") /\ Distinct(items)

\* One list for each operation: distinct topics, of the node that was asked
\* for; the topic that was asked for, then its own distinct replies; the member.
V2exSequence(request, items, partial) ==
    /\ Len(items) <= V2exItemLimit(request)
    /\ CASE V2exBrowses(request) ->
              /\ partial = None
              /\ OfSchema(items, "topic")
              /\ Distinct(items)
              /\ request.op = "browse.node_topics" =>
                     \A i \in DOMAIN items :
                         Casefold(items[i].node) = Casefold(request.node)
         [] request.op = "read.topic" ->
              /\ items # <<>>
              /\ items[1].schema = "topic"
              /\ items[1].id = Canonical(request.topic)
              /\ OfSchema(Tail(items), "reply")
              /\ partial # None => Len(items) = 1
              /\ Distinct(Tail(items))
              /\ \A i \in DOMAIN Tail(items) :
                     Tail(items)[i].topic = Canonical(request.topic)
         [] OTHER ->
              /\ partial = None
              /\ Len(items) = 1
              /\ items[1].schema = "profile"
              /\ Casefold(items[1].name) = Casefold(request.user)

\* _execute_request and _main: the frame the worker writes for a fork result.
V2exWorker(request, fork) ==
    IF /\ fork.type = "success"
       /\ fork.identity /\ fork.fits
       /\ V2exPartialAllowed(request, fork.partial)
       /\ AllDecode(fork.items)
       /\ V2exSequence(request, fork.items, fork.partial)
    THEN Success(fork.items, fork.partial, fork.truncated)
    ELSE IF fork.type = "failure" /\ fork.identity /\ fork.code \in V2exErrorCodes
    THEN Failure(fork.code)
    ELSE Failure("backend_contract_violation")

\* decode_response, in the parent.
V2exDecode(request, frame) ==
    IF \/ /\ frame.type = "success"
          /\ V2exPartialAllowed(request, frame.partial)
          /\ AllDecode(frame.items)
          /\ V2exSequence(request, frame.items, frame.partial)
       \/ frame.type = "failure" /\ frame.code \in V2exErrorCodes
    THEN frame
    ELSE Refused

\* The parent's execute, where no frame is there to decode.
V2exBroken(how) ==
    Raised(IF how \in {"oversized", "garbled"} THEN "permanent" ELSE "transient")

\* Mutant: what the projection does not know is worth another attempt.
V2exFailureClass_Retried(code) ==
    IF code \in {"invalid_input", "not_found", "authentication", "authorization",
                 "rate_limit"} THEN code ELSE "transient"

V2exFailureClass(code) ==
    CASE code \in {"invalid_input", "not_found", "authentication",
                   "authorization", "rate_limit"} -> code
      [] code \in {"cancelled", "deadline_exceeded", "transient"} -> "transient"
      [] OTHER -> "permanent"

V2exPartialClass(code) ==
    CASE code \in {"not_found", "authentication", "authorization",
                   "rate_limit", "transient"} -> code
      [] OTHER -> "permanent"

\* V2exAdapter.execute, from the decoded response on.
V2exAdapted(decoded) ==
    CASE decoded.type = "success" ->
           Succeeded(decoded.items,
                     IF decoded.partial = None THEN None
                     ELSE V2exPartialClass(decoded.partial),
                     decoded.truncated, "permanent")
      [] decoded.type = "failure" -> Failed(V2exFailureClass(decoded.code))
      [] decoded.type = "raised" -> Failed(decoded.class)
      [] OTHER -> Failed("permanent")

\* What the fork may return: its items are of any schema and belong to any node
\* or topic, there may be one more than asked for, and any field may be wrong.
V2exForkItems(request) ==
    CASE V2exBrowses(request) ->
           {Topic(id, node) : id \in {1, 2}, node \in Names \ {<<"b", "upper">>}}
               \cup {Reply(1, 1), Malformed}
      [] request.op = "read.topic" ->
           {Topic(id, <<"a", "lower">>) : id \in {1, 2}}
               \cup {Reply(id, topic) : id \in {1, 2}, topic \in {1, 2}}
      [] OTHER -> {Profile(name) : name \in Names} \cup {Topic(1, <<"a", "lower">>)}

V2exForkLists(request) ==
    ForkLists(V2exForkItems(request), V2exItemLimit(request))
=============================================================================
