------------------------------ MODULE RssSource ------------------------------
(***************************************************************************)
(* The RSS source: the adapter fetches the document itself, refuses the    *)
(* ones whose encodings disagree, and hands the bytes to the worker, which *)
(* parses them with the Agent-Reach fork.                                  *)
(***************************************************************************)
EXTENDS PublicFetch

CONSTANT MaxEntries     \* MAX_ENTRIES: one more than the runner keeps

ASSUME MaxEntriesAssumption == MaxEntries \in Nat \ {0}

Feed(usable) == [schema |-> "feed", id |-> 0, usable |-> usable, ok |-> TRUE]
Entry(id, usable) == [schema |-> "entry", id |-> id, usable |-> usable, ok |-> TRUE]
MalformedEntry == [schema |-> "entry", id |-> 1, usable |-> TRUE, ok |-> FALSE]

\* A document, by the four places that may name its encoding (in the order the
\* code consults them) and whether its text holds a DOCTYPE or an ENTITY. Where
\* the bytes begin with a mark of order the declaration is read from the text only.
\* described: the content type is short and printable.
Encodings == {"utf-8", "utf-16", "utf-16-le", "gbk"}
SupportedEncodings == Encodings \ {"gbk"}
RssDocuments ==
    [detected : {None, "utf-8", "utf-16-le"},
     declared : Encodings \cup {None}, header : {None, "utf-8", "gbk"},
     unsafe : BOOLEAN, described : BOOLEAN]

RssCalls ==
         [source : {"rss"}, op : {"read.feed"}, url : Urls]
    \cup [source : {"rss"}, op : {"browse.entries"}, url : Urls, limit : Limits]

\* The encoding the preflight decodes the bytes with; None: the default one.
SelectedEncoding(document) ==
    IF document.detected # None THEN document.detected
    ELSE IF document.declared # None THEN document.declared
    ELSE document.header

\* "utf-16" in the declaration is the encoding of either order of its bytes.
EncodingsMatch(actual, declared) ==
    actual = declared \/ (actual = "utf-16-le" /\ declared = "utf-16")

\* _preflight_xml: what it lets through to the worker.
RssPreflight(document) ==
    /\ SelectedEncoding(document) \in SupportedEncodings \cup {None}
    /\ document.declared # None =>
           /\ document.declared \in SupportedEncodings
           /\ document.detected # None =>
                  EncodingsMatch(document.detected, document.declared)
    /\ ~document.unsafe

\* RssAdapter.execute up to the worker: the request, or the refusal.
RssRequest(call) ==
    [source |-> "rss", op |-> call.op,
     entries |-> IF call.op = "read.feed" THEN 1
                 ELSE Min({LimitOr(call.limit, MaximumItems), MaximumItems + 1, MaxEntries})]

RssPrepared(call, document) ==
    IF RssPreflight(document) /\ document.described
    THEN RssRequest(call) ELSE Failed("permanent")

RssErrorCodes == SharedErrorCodes

\* Mutant: the worker lets a feed through that says it is truncated.
RssWorkerAccepts_AnyFeed(request, fork) ==
    /\ fork.identity
    /\ fork.partial \in {None, "permanent"}
    /\ Len(fork.items) <= request.entries
    /\ request.op = "read.feed" => Len(fork.items) = 1
    /\ fork.partial # None => fork.items # <<>>
    /\ OfSchema(fork.items, IF request.op = "read.feed" THEN "feed" ELSE "entry")
    /\ AllDecode(fork.items)

\* _execute_request: the checks of the fork's result, then of every item.
RssWorkerAccepts(request, fork) ==
    /\ fork.identity
    /\ fork.partial \in {None, "permanent"}
    /\ Len(fork.items) <= request.entries
    /\ request.op = "read.feed" => Len(fork.items) = 1 /\ ~fork.truncated
    /\ fork.partial # None => fork.items # <<>>
    /\ OfSchema(fork.items, IF request.op = "read.feed" THEN "feed" ELSE "entry")
    /\ AllDecode(fork.items)

\* The frame of the worker; one that does not fit is not written: the worker
\* exits with a failure status.
RssWorker(request, fork) ==
    IF fork.type = "success" /\ RssWorkerAccepts(request, fork)
    THEN Success(fork.items, fork.partial, fork.truncated)
    ELSE IF fork.type = "failure" /\ fork.identity /\ fork.code \in RssErrorCodes
    THEN Failure(fork.code)
    ELSE Failure("backend_contract_violation")

\* decode_response, in the parent.
RssDecode(request, frame) ==
    IF \/ /\ frame.type = "success"
          /\ frame.partial \in {None, "permanent"}
          /\ Len(frame.items) <= request.entries
          /\ frame.partial # None => frame.items # <<>>
          /\ request.op = "read.feed" => Len(frame.items) = 1 /\ ~frame.truncated
          /\ OfSchema(frame.items, IF request.op = "read.feed" THEN "feed" ELSE "entry")
          /\ AllDecode(frame.items)
       \/ frame.type = "failure" /\ frame.code \in RssErrorCodes
    THEN frame
    ELSE Refused

\* The parent's execute, where no frame is there to decode.
RssBroken(how) ==
    Raised(IF how \in {"oversized", "garbled", "exited"} THEN "permanent" ELSE "transient")

\* FeedparserWorker.parse: a failure's class.
RssFailureClass(code) ==
    IF code \in {"deadline_exceeded", "cancelled"} THEN "transient" ELSE "permanent"

\* _entry_item of every entry: those without any visible text are left out.
UsableEntries(items) ==
    LET kept[n \in 0..Len(items)] ==
            IF n = 0 THEN <<>>
            ELSE IF items[n].usable THEN Append(kept[n - 1], items[n]) ELSE kept[n - 1]
    IN  kept[Len(items)]

\* Mutant: entries without text are dropped without a word.
RssAdapted_DropsQuietly(request, decoded) ==
    IF decoded.type \in {"failure", "raised", "refused"} THEN Failed("permanent")
    ELSE Succeeded(UsableEntries(decoded.items), None, decoded.truncated, "transient")

\* RssAdapter.execute, from the decoded response on: items without any visible
\* text are dropped, and a listing that loses some is partial.
RssAdapted(request, decoded) ==
    IF decoded.type = "failure" THEN Failed(RssFailureClass(decoded.code))
    ELSE IF decoded.type = "raised" THEN Failed(decoded.class)
    ELSE IF decoded.type = "refused" THEN Failed("permanent")
    ELSE LET usable == UsableEntries(decoded.items)
             dropped == Len(usable) # Len(decoded.items)
         IN  IF decoded.items # <<>> /\ usable = <<>>
             THEN Failed("permanent")
             ELSE Succeeded(usable,
                            IF decoded.partial # None \/ dropped THEN "permanent" ELSE None,
                            decoded.truncated, "transient")

\* What the fork may return.
RssForkItems(request) ==
    IF request.op = "read.feed"
    THEN {Feed(usable) : usable \in BOOLEAN} \cup {Entry(1, TRUE)}
    ELSE {Entry(id, usable) : id \in {1, 2}, usable \in BOOLEAN}
             \cup {MalformedEntry, Feed(TRUE)}
RssForkLists(request) == ForkLists(RssForkItems(request), request.entries)
=============================================================================
