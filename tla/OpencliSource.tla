---------------------------- MODULE OpencliSource ----------------------------
(***************************************************************************)
(* The social sources behind OpenCLI: seventeen operations of Reddit,      *)
(* Facebook, Instagram, Twitter and Xiaohongshu, executed by the Connector *)
(* in one kind of worker. The worker fits the items to a budget of         *)
(* characters by dropping the fields an item can do without, cutting its   *)
(* text and leaving out the rest, and checks the items that are left as    *)
(* its parent does. Their texts only the parent checks: what a cut leaves  *)
(* may end in a space, and the parent asks for no white space to spare.    *)
(***************************************************************************)
EXTENDS SourceResults

CONSTANTS
    MaxThreadItems,         \* a post and the replies one answer may hold
    MaxResultCharacters     \* MAX_RESULT_CHARACTERS, in units of a short field

ASSUME OpencliLimits ==
    /\ MaxThreadItems \in 1..MaximumItems
    /\ MaxResultCharacters \in Nat \ {0}

\* How the items of an operation are identified: by the source's own distinct
\* identifiers, by their place in the list, as the one profile that was asked
\* for, or as the replies of the post that was asked for.
Shape(op) ==
    CASE op \in {"reddit.search.posts", "reddit.browse.hot", "reddit.browse.popular",
                 "reddit.browse.all", "reddit.browse.subreddit", "instagram.search.users",
                 "twitter.search.posts", "xiaohongshu.search.notes"} -> "identified"
      [] op \in {"facebook.search", "facebook.browse.feed", "facebook.browse.groups",
                 "instagram.browse.explore", "instagram.browse.user_posts"} -> "numbered"
      [] op \in {"reddit.read.subreddit", "facebook.read.profile",
                 "instagram.read.profile"} -> "profile"
      [] op = "reddit.read.post" -> "thread"

\* The operations whose items must belong to the target of the call.
Targeted == {"reddit.browse.subreddit", "instagram.browse.user_posts",
             "reddit.read.subreddit", "facebook.read.profile",
             "instagram.read.profile", "reddit.read.post"}

\* One operation of each shape and target stands for those that share them.
OpencliCalls ==
         [source : {"opencli"}, op : {"twitter.search.posts", "facebook.browse.feed"},
          limit : Limits]
    \cup [source : {"opencli"}, op : {"reddit.browse.subreddit",
                                      "instagram.browse.user_posts"},
          target : {<<"a", "lower">>}, limit : Limits]
    \cup [source : {"opencli"}, op : {"reddit.read.subreddit", "reddit.read.post"},
          target : {<<"a", "lower">>}]

\* _arguments_from_call: a listing always names a limit.
OpencliRequest(call) ==
    IF Shape(call.op) \in {"identified", "numbered"}
    THEN [call EXCEPT !.limit = LimitOr(@, MaximumItems)]
    ELSE call

\* _requested_item_limit.
OpencliItemLimit(request) ==
    CASE Shape(request.op) = "profile" -> 1
      [] Shape(request.op) = "thread" -> MaxThreadItems
      [] OTHER -> Min({request.limit, MaximumItems})

\* An item's identifier, where it carries none.
NoId == 0

\* What _bound_public_scalars does to a field above its public bound that the item
\* cannot do without, as its title: nothing, or a cut behind a word or a space.
Cuts == {None, "word", "space"}

\* An item: its identifier, what it belongs to (the subreddit, author, profile or
\* post), whether the fields the checks require are there, and the characters of
\* its kind and those fields, of the fields it can do without, and of its text;
\* gap is the place of a space in the text, 0 where it has none.
OpencliItems ==
    [schema : {"content", "reply", "item"}, id : Nat, of : Names, whole : BOOLEAN,
     base : Nat, optional : Nat, text : Nat, gap : Nat, over : Cuts, ok : BOOLEAN]

\* _required_public_text: no field ends in the space it was cut at.
Tidy(item) == item.over # "space" /\ (item.text = 0 \/ item.text # item.gap)

Characters(item) == item.base + item.optional + item.text
TotalCharacters(items) ==
    LET sum[n \in 0..Len(items)] ==
            IF n = 0 THEN 0 ELSE sum[n - 1] + Characters(items[n])
    IN  sum[Len(items)]

Belonging(request, item) ==
    request.op \in Targeted => Casefold(item.of) = Casefold(request.target)

\* A post that was asked for, then its replies, which carry no identifier.
ThreadSequence(request, items) ==
    /\ items # <<>>
    /\ items[1].schema = "content" /\ items[1].whole
    /\ items[1].id # NoId /\ Belonging(request, items[1])
    /\ OfSchema(Tail(items), "reply")
    /\ \A i \in DOMAIN Tail(items) : Tail(items)[i].id = NoId

\* Items with an identifier each, and with the fields their site promises.
IdentifiedSequence(request, items) ==
    /\ OfSchema(items, "item")
    /\ \A i \in DOMAIN items :
           items[i].id # NoId /\ items[i].whole /\ Belonging(request, items[i])
    /\ Distinct(items)

\* Identifiers that are the places in the list.
NumberedSequence(items) == \A i \in DOMAIN items : items[i].id = i

\* _validate_parent_projection, of both sides.
OpencliSequence(request, items) ==
    IF Shape(request.op) = "thread" THEN ThreadSequence(request, items)
    ELSE /\ IdentifiedSequence(request, items)
         /\ Shape(request.op) = "numbered" => NumberedSequence(items)
         /\ Shape(request.op) = "profile" => Len(items) = 1

\* _project_native_item and _validate_projection_sequence, before the budget: a
\* reply's identifier is refused, a post's title may still be missing.
OpencliNative(request, items) ==
    /\ AllDecode(items)
    /\ IF Shape(request.op) = "thread"
       THEN OpencliSequence(request, [i \in DOMAIN items |-> [items[i] EXCEPT !.whole = TRUE]])
       ELSE OpencliSequence(request, items)

\* One item fitted to what remains of the budget: the fields it can do without go
\* first, and what is left of the budget is for its text.
Fitted(item, remaining) ==
    LET kept == IF item.base + item.optional <= remaining
                THEN item ELSE [item EXCEPT !.optional = 0]
    IN  [kept EXCEPT !.text = Min({@, remaining - kept.base - kept.optional})]

\* One turn of the loop of _fit_result_budget: the item as it is fitted, unless the
\* loop has been left or is left at this item, because what the item cannot do
\* without is more than what remains or because the sequence would be refused.
FitItem(request, state, item) ==
    LET next == Fitted(item, state.remaining)
    IN  IF \/ state.stopped \/ item.base > state.remaining
           \/ ~OpencliSequence(request, Append(state.items, next))
        THEN [state EXCEPT !.stopped = TRUE, !.truncated = TRUE]
        ELSE [items |-> Append(state.items, next),
              remaining |-> state.remaining - Characters(next),
              stopped |-> FALSE,
              truncated |-> state.truncated \/ next # item \/ item.over # None]

\* _fit_result_budget: items until one is no longer acceptable.
FitBudget(request, items) ==
    LET fit[n \in 0..Len(items)] ==
            IF n = 0
            THEN [items |-> <<>>, remaining |-> MaxResultCharacters,
                  stopped |-> FALSE, truncated |-> FALSE]
            ELSE FitItem(request, fit[n - 1], items[n])
    IN  fit[Len(items)]

OpencliErrorCodes ==
    SharedErrorCodes \cup {"invalid_input", "not_found", "authentication",
                           "authorization", "rate_limit", "transient"}

\* _execute_request, _success_value and _main: the frame of the worker.
OpencliWorker(request, fork) ==
    LET accepted == /\ fork.type = "success"
                    /\ fork.identity
                    /\ fork.partial = None
                    /\ Len(fork.items) <= OpencliItemLimit(request)
                    /\ OpencliNative(request, fork.items)
        fitted == FitBudget(request, fork.items)
    IN  IF accepted /\ OpencliSequence(request, fitted.items)
        THEN Success(fitted.items, None, fork.truncated \/ fitted.truncated)
        ELSE IF fork.type = "failure" /\ fork.identity /\ fork.code \in OpencliErrorCodes
        THEN Failure(fork.code)
        ELSE Failure("backend_contract_violation")

\* decode_response and _decode_success, in the Connector's process.
OpencliDecode(request, frame) ==
    IF \/ /\ frame.type = "success"
          /\ Len(frame.items) <= OpencliItemLimit(request)
          /\ \A i \in DOMAIN frame.items : Tidy(frame.items[i])
          /\ OpencliSequence(request, frame.items)
          /\ TotalCharacters(frame.items) <= MaxResultCharacters
       \/ frame.type = "failure" /\ frame.code \in OpencliErrorCodes
    THEN frame
    ELSE Refused

\* The parent's execute, where no frame is there to decode: the Connector's
\* workers have a deadline, and their parents answer with a code of the contract.
OpencliBroken(how) ==
    Failure(CASE how \in {"oversized", "garbled"} -> "backend_contract_violation"
              [] how = "unspawned" -> "backend_unavailable"
              [] how = "late" -> "deadline_exceeded"
              [] OTHER -> "transient")

\* _RETRYABLE_ERRORS: the codes after which the executor asks a second worker.
OpencliRetryable == {"backend_unavailable", "deadline_exceeded", "transient"}

\* _operation_result, and _ConnectorAdapter.execute after the signed response.
OpencliAdapted(decoded) ==
    CASE decoded.type = "success" ->
           IF \/ Len(decoded.items) > MaximumItems
              \/ TotalCharacters(decoded.items) > MaxResultCharacters
           THEN Failed("permanent")
           ELSE Succeeded(decoded.items, None, decoded.truncated, "permanent")
      [] decoded.type = "failure" -> Failed(ConnectorFailureClass(decoded.code))
      [] OTHER -> Failed("permanent")

\* What the fork may return: items of the right and of the wrong target, of the
\* right and of the wrong place, of several sizes and with a field missing, and some
\* whose title or text is cut, behind a word or behind a space.
ThreadForkItems ==
         [schema : {"content"}, id : {1}, of : {<<"a", "upper">>, <<"b", "lower">>},
          whole : BOOLEAN, base : {1}, optional : {1}, text : 0..1, gap : {0},
          over : {None}, ok : {TRUE}]
    \cup [schema : {"reply"}, id : {NoId, 2}, of : {<<"a", "lower">>}, whole : {TRUE},
          base : {1}, optional : {0}, text : 0..1, gap : {0}, over : {None}, ok : {TRUE}]
    \cup [schema : {"reply"}, id : {NoId}, of : {<<"a", "lower">>}, whole : {TRUE},
          base : {1}, optional : {0}, text : {2}, gap : {1}, over : {None}, ok : {TRUE}]
ListedForkItems ==
         [schema : {"item"}, id : 1..2, of : {<<"a", "upper">>, <<"b", "lower">>},
          whole : {TRUE}, base : 1..2, optional : {1}, text : {1}, gap : {0},
          over : {None}, ok : {TRUE}]
    \cup [schema : {"item"}, id : {1}, of : {<<"a", "lower">>}, whole : {TRUE},
          base : {1}, optional : {0}, text : {0}, gap : {0}, over : Cuts, ok : BOOLEAN]
OpencliForkItems(request) ==
    IF Shape(request.op) = "thread" THEN ThreadForkItems ELSE ListedForkItems
OpencliForkLists(request) ==
    ForkLists(OpencliForkItems(request), OpencliItemLimit(request))
=============================================================================
