----------------------------- MODULE SourceCall -----------------------------
(***************************************************************************)
(* One call of a source from the tool that receives it to its response:    *)
(* what the registry has for it, the request its adapter makes, the worker *)
(* process that runs the Agent-Reach fork and checks what it returned, the *)
(* parent that checks the worker's frame again, the projection to an       *)
(* AdapterResult, the bounds of the runner and the group of the response.  *)
(* The fork may return anything, and the worker may break. A search of     *)
(* several sources is as many such calls, which share nothing. The runner  *)
(* repeats an attempt that failed for now, from the call on: what follows  *)
(* is one attempt, and the properties speak of the last.                   *)
(***************************************************************************)
EXTENDS V2exSource, RssSource, BilibiliSource, YoutubeSource, ExaSource,
        XueqiuSource, OpencliSource

CONSTANT Sources        \* the sources a run calls

VARIABLES
    stage,      \* where the call is
    request,    \* the call, then the request made of it, with its source
    hops,       \* the URLs requested of the feed's server, while it is fetched
    attempt,    \* how many workers the executor has asked
    fork,       \* what the fork returned to the worker, Absent until then
    frame,      \* what the worker answered, Absent until then
    result,     \* the AdapterResult, then the RunnerResult, Absent until then
    response    \* the tool's response and its group, Absent until then

Absent == [type |-> "absent"]

vars == <<stage, request, hops, attempt, fork, frame, result, response>>

AllCalls ==
    {call \in V2exCalls \cup RssCalls \cup BilibiliCalls \cup YoutubeCalls
              \cup ExaCalls \cup XueqiuCalls \cup OpencliCalls : call.source \in Sources}

\* The adapter's request of the worker. A feed's is made when it is fetched.
Prepared(call) ==
    CASE call.source = "v2ex" -> V2exRequest(call)
      [] call.source = "bilibili" -> BilibiliRequest(call)
      [] call.source = "youtube" -> YoutubeRequest(call)
      [] call.source = "exa" -> ExaRequest(call)
      [] call.source = "xueqiu" -> XueqiuRequest(call)
      [] call.source = "opencli" -> OpencliRequest(call)
IsResult(prepared) == "failure" \in DOMAIN prepared

ForkItemLists ==
    CASE request.source = "v2ex" -> V2exForkLists(request)
      [] request.source = "rss" -> RssForkLists(request)
      [] request.source = "bilibili" -> BilibiliForkLists(request)
      [] request.source = "youtube" -> YoutubeForkLists(request)
      [] request.source = "exa" -> ExaForkLists(request)
      [] request.source = "xueqiu" -> XueqiuForkLists(request)
      [] request.source = "opencli" -> OpencliForkLists(request)

\* Codes of a fork's failure: of every kind the projections tell apart.
ForkCodes == {"permanent", "transient", "deadline_exceeded", "backend_unavailable",
              "rate_limit", UnknownCode}

Forks ==
         {ForkSuccess(items, partial, truncated, TRUE, TRUE) : items \in ForkItemLists,
              partial \in {None, "permanent"}, truncated \in BOOLEAN}
    \cup {ForkSuccess(items, None, FALSE, fits, ~fits) : items \in ForkItemLists,
              fits \in BOOLEAN}
    \cup {ForkFailure(code, identity) : code \in ForkCodes, identity \in BOOLEAN}
    \cup {ForkForeign}

\* The worker's answer. A feed's and a video's worker exits with a failure status
\* where the frame does not fit; the others replace it.
Answer(forked) ==
    CASE request.source = "v2ex" -> V2exWorker(request, forked)
      [] request.source = "rss" ->
             IF forked.fits THEN RssWorker(request, forked) ELSE Broken("exited")
      [] request.source = "bilibili" ->
             IF forked.fits THEN BilibiliWorker(request, forked) ELSE Broken("exited")
      [] request.source = "youtube" -> YoutubeWorker(request, forked)
      [] request.source = "exa" -> ExaWorker(request, forked)
      [] request.source = "xueqiu" -> XueqiuWorker(request, forked)
      [] request.source = "opencli" -> OpencliWorker(request, forked)

\* What the parent makes of the worker's answer.
Decoded ==
    LET broken == frame.type = "broken"
    IN  CASE request.source = "v2ex" ->
               IF broken THEN V2exBroken(frame.how) ELSE V2exDecode(request, frame)
          [] request.source = "rss" ->
               IF broken THEN RssBroken(frame.how) ELSE RssDecode(request, frame)
          [] request.source = "bilibili" ->
               IF broken THEN BilibiliBroken(frame.how) ELSE BilibiliDecode(request, frame)
          [] request.source = "youtube" ->
               IF broken THEN YoutubeBroken(frame.how) ELSE YoutubeDecode(request, frame)
          [] request.source = "exa" ->
               IF broken THEN ExaBroken(frame.how) ELSE ExaDecode(request, frame)
          [] request.source = "xueqiu" ->
               IF broken THEN XueqiuBroken(frame.how) ELSE XueqiuDecode(request, frame)
          [] request.source = "opencli" ->
               IF broken THEN OpencliBroken(frame.how) ELSE OpencliDecode(request, frame)

\* The sources the Connector serves, whose workers are given a deadline.
ConnectorServed == {"xueqiu", "opencli"}

AdaptedFrom(decoded) ==
    CASE request.source = "v2ex" -> V2exAdapted(decoded)
      [] request.source = "rss" -> RssAdapted(request, decoded)
      [] request.source = "bilibili" -> BilibiliAdapted(decoded)
      [] request.source = "youtube" -> YoutubeAdapted(request, decoded)
      [] request.source = "exa" -> ExaAdapted(decoded)
      [] request.source = "xueqiu" -> XueqiuAdapted(request, decoded)
      [] request.source = "opencli" -> OpencliAdapted(decoded)

Init ==
    /\ stage = "called"
    /\ request \in AllCalls
    /\ hops = <<>>
    /\ attempt = 0
    /\ fork = Absent /\ frame = Absent /\ result = Absent /\ response = Absent

-----------------------------------------------------------------------------
(* The registry and the response.                                          *)

Availabilities == {"available", "degraded", "setup_required", "unavailable"}

\* What _configure_exa leaves: bindings, or the reason there are none.
ExaConfigured == {"bound", "setup_required"}

\* What build_vps_runtime leaves: bindings with a resolver of their own, or, when
\* the paired state cannot be loaded, the reason there are none.
VpsComposed == {"resolved", "unavailable"}

\* What the process has for the operations of a source, each registered or marked
\* once; the media backends it builds itself pass their own gates.
Registered(source) ==
    CASE source \in {"v2ex", "rss", "bilibili", "youtube"} -> {"bound"}
      [] source = "exa" -> ExaConfigured
      [] source \in ConnectorServed -> VpsComposed

\* AdapterRegistry.availability. A resolver that raises makes it "unavailable".
AvailabilityOf(registered) ==
    CASE registered = "bound" -> {"available"}
      [] registered = "resolved" -> Availabilities
      [] OTHER -> {registered}

Group(availability, items, truncated, error, outcome) ==
    [type |-> "group", availability |-> availability, items |-> items,
     truncated |-> truncated, error |-> error, outcome |-> outcome]

\* unavailable_group.
UnavailableGroup(availability) ==
    Group(availability, <<>>, FALSE,
          IF availability = "setup_required" THEN availability ELSE "capability_unavailable",
          "error")

\* The code under which each failure class is shown, and the one for half a result.
ErrorCode(failure) ==
    CASE failure = "transient" -> "source_temporarily_unavailable"
      [] failure = "invalid_input" -> "source_rejected_request"
      [] failure = "not_found" -> "resource_not_found"
      [] failure \in {"setup_required", "authentication"} -> "setup_required"
      [] failure = "authorization" -> "source_access_denied"
      [] failure = "policy" -> "policy_denied"
      [] failure = "rate_limit" -> "source_rate_limited"
      [] failure = "permanent" -> "source_response_invalid"

FailureAvailability(failure) ==
    CASE failure \in {"not_found", "invalid_input"} -> "available"
      [] failure \in {"setup_required", "authentication"} -> "setup_required"
      [] failure \in {"authorization", "policy"} -> "unavailable"
      [] OTHER -> "degraded"

\* runner_group.
RunnerGroup(bounded) ==
    IF bounded.failure # None
    THEN Group(FailureAvailability(bounded.failure), <<>>, bounded.truncated,
               ErrorCode(bounded.failure), "error")
    ELSE IF bounded.partial # None
    THEN Group("degraded", bounded.items, bounded.truncated, "partial_source_result", "partial")
    ELSE Group("available", bounded.items, bounded.truncated, None, "ok")

\* execution_response, from the outcomes of its groups.
ResponseOutcome(outcomes) ==
    IF outcomes = {"ok"} THEN "ok"
    ELSE IF outcomes \cap {"ok", "partial"} # {} THEN "partial" ELSE "error"

Respond(group) ==
    response' = [type |-> "response", outcome |-> ResponseOutcome({group.outcome}),
                 group |-> group]

-----------------------------------------------------------------------------
\* _dispatch_group turns the call away when it is not available.
TurnAway ==
    /\ stage = "called"
    /\ \E registered \in Registered(request.source) :
           \E availability \in AvailabilityOf(registered) \ {"available", "degraded"} :
               Respond(UnavailableGroup(availability))
    /\ stage' = "done"
    /\ UNCHANGED <<request, hops, attempt, fork, frame, result>>

\* The adapter asks a worker, or makes a result without one.
Ask(prepared) ==
    /\ stage' = "asked"
    /\ request' = prepared
    /\ attempt' = 1
    /\ UNCHANGED result
Refuse(class) ==
    /\ stage' = "adapted"
    /\ result' = Failed(class)
    /\ UNCHANGED <<request, attempt>>

\* RuntimeDispatcher.dispatch, up to the worker: every call of a tool is one the
\* policy authorizes, and every available operation has a binding.
Prepare ==
    /\ stage = "called"
    /\ \E registered \in Registered(request.source) :
           AvailabilityOf(registered) \cap {"available", "degraded"} # {}
    /\ CASE request.source # "rss" -> Ask(Prepared(request)) /\ UNCHANGED hops
         [] request.source = "rss" /\ Normalized(request.url) ->
                /\ stage' = "fetching" /\ hops' = <<request.url>>
                /\ UNCHANGED <<request, attempt, result>>
         [] OTHER -> Refuse("policy") /\ UNCHANGED hops
    /\ UNCHANGED <<fork, frame, response>>

\* RssAdapter.execute fetches the feed, one hop per step, and asks its worker to
\* parse what the last one brought, or reports why there is nothing to parse.
FetchHop ==
    /\ stage = "fetching"
    /\ LET url == Last(hops)
           redirects == Len(hops) - 1
       IN  \E lookup \in Lookups(url.host), exchange \in Exchanges :
               LET failure == FetchFailure(url, redirects, lookup, exchange)
               IN  \/ failure # None /\ Refuse(failure) /\ hops' = <<>>
                   \/ /\ failure = None /\ exchange.type = "redirect"
                      /\ hops' = Append(hops, Joined(url, exchange.location))
                      /\ UNCHANGED <<stage, request, attempt, result>>
                   \/ /\ failure = None /\ exchange.type = "response"
                      /\ \E document \in RssDocuments :
                             LET prepared == RssPrepared(request, document)
                             IN  IF IsResult(prepared)
                                 THEN Refuse(prepared.failure) ELSE Ask(prepared)
                      /\ hops' = <<>>
    /\ UNCHANGED <<fork, frame, response>>

\* The worker runs the fork, checks what it returned and writes its frame.
WorkerAnswers ==
    /\ stage = "asked"
    /\ fork' \in Forks
    /\ frame' = Answer(fork')
    /\ stage' = "answered"
    /\ UNCHANGED <<request, hops, attempt, result, response>>

\* The worker breaks, or its deadline passes before it answers.
WorkerBreaks ==
    /\ stage = "asked"
    /\ \E how \in Breaks \cup (IF request.source \in ConnectorServed THEN {"late"} ELSE {}) :
           frame' = Broken(how)
    /\ stage' = "answered"
    /\ UNCHANGED <<request, hops, attempt, fork, result, response>>

\* OpenCliSocialExecutor.execute asks a second worker, once, and only while its
\* deadline has not passed (it may have: then the answer is received).
AskAgain ==
    /\ stage = "answered" /\ request.source = "opencli" /\ attempt = 1
    /\ LET decoded == Decoded
       IN  decoded.type = "failure" /\ decoded.code \in OpencliRetryable
    /\ stage' = "asked"
    /\ attempt' = 2
    /\ fork' = Absent /\ frame' = Absent
    /\ UNCHANGED <<request, hops, result, response>>

\* The parent decodes the frame and the adapter makes its result of it.
Receive ==
    /\ stage = "answered"
    /\ result' = AdaptedFrom(Decoded)
    /\ stage' = "adapted"
    /\ UNCHANGED <<request, hops, attempt, fork, frame, response>>

\* BoundedRunner._bounded, of the last attempt (the loop of BoundedRunner.run, which
\* repeats one whose failure is transient, is left out): the first MaximumItems, of which the budget of
\* characters keeps a beginning, the last of them perhaps with less in it. The
\* group of the response is made of them.
Bound ==
    /\ stage = "adapted"
    /\ stage' = "done"
    /\ LET selected == SubSeq(result.items, 1, Min({Len(result.items), MaximumItems}))
       IN  \E kept \in 0..Len(selected), cut \in BOOLEAN :
               /\ cut => kept > 0
               /\ result' = [result EXCEPT
                      !.items = SubSeq(selected, 1, kept),
                      !.truncated = \/ @ \/ cut
                                    \/ Len(result.items) > kept]
    /\ Respond(RunnerGroup(result'))
    /\ UNCHANGED <<request, hops, attempt, fork, frame>>

Finished == stage = "done" /\ UNCHANGED vars

Next ==
    \/ TurnAway \/ Prepare \/ FetchHop
    \/ WorkerAnswers \/ WorkerBreaks \/ AskAgain \/ Receive \/ Bound \/ Finished

Spec == Init /\ [][Next]_vars

-----------------------------------------------------------------------------
\* However a feed's server redirects, every URL requested was normalized, no more
\* than MaxRedirects + 1 are, and once one is requested over https all that follow
\* are: what is parsed came from no other.
FetchKeepsItsTerms ==
    stage = "fetching" =>
        /\ Len(hops) <= MaxRedirects + 1
        /\ \A i \in DOMAIN hops :
               /\ Normalized(hops[i])
               /\ hops[i].scheme = "https" =>
                      \A j \in i..Len(hops) : hops[j].scheme = "https"

\* The two ends of the pipe are written twice, in two modules of each source: a
\* frame the worker writes for its own parent is one the parent accepts, so a
\* success the fork returned and the worker checked is not lost between them. There
\* are two exceptions, where the parent asks more of a text than the worker: a
\* video whose title is blank, and a social item cut behind a space.
ParentAsksMore ==
    /\ frame.type = "success"
    /\ \/ request.source = "youtube" /\ ~TitlesAreRead(request, frame.items)
       \/ /\ request.source = "opencli"
          /\ \E i \in DOMAIN frame.items : ~Tidy(frame.items[i])
ParentAcceptsWorker ==
    stage = "answered" /\ fork # Absent /\ frame.type # "broken" =>
        Decoded # Refused \/ ParentAsksMore

\* What the caller gets is what it asked for: no more items than the catalog
\* lets through nor than the limit of the call (for a feed, the entries its worker
\* was asked for, as many as the limit of the call lets through), of the one schema of the
\* operation, no item twice where the source promises identifiers, and of the
\* target of the call. A Bilibili video is not compared with the one asked for.
Belongs(item) ==
    CASE request.op = "browse.node_topics" -> Casefold(item.node) = Casefold(request.node)
      [] request.op = "read.user" -> Casefold(item.name) = Casefold(request.user)
      [] request.source = "youtube" /\ request.op # "search.videos" -> item.id = request.video
      [] request.op \in Targeted /\ item.schema # "reply" ->
             Casefold(item.of) = Casefold(request.target)
      [] OTHER -> TRUE
Identified == {"v2ex", "youtube", "xueqiu", "opencli"}
AnswerIsRequested ==
    stage = "done" /\ frame # Absent =>
        LET items == response.group.items IN
        /\ Len(items) <= MaximumItems
        /\ "limit" \in DOMAIN request => Len(items) <= request.limit
        /\ "entries" \in DOMAIN request => Len(items) <= request.entries
        /\ \A i \in DOMAIN items : items[i].ok /\ Belongs(items[i])
        /\ request.source \in Identified =>
               \A i, j \in DOMAIN items :
                   /\ i # j
                   /\ items[i].schema = items[j].schema
                   /\ items[i].schema # "reply"
                   => items[i].id # items[j].id

\* Nothing the fork returned is left out in silence: a response with fewer items
\* than the fork's, or of a fork that left some out itself, says that it is
\* truncated or partial. A search of YouTube has no word for the fork's own
\* truncation in its envelope.
LossIsTold ==
    stage = "done" /\ response.outcome # "error" =>
        \/ response.group.truncated \/ response.outcome = "partial"
        \/ /\ Len(response.group.items) = Len(fork.items)
           /\ fork.partial = None
           /\ fork.truncated => request.source = "youtube" /\ request.op = "search.videos"

\* A failure is told as one, and under the code that tells what to do: a call whose
\* worker broke in its last attempt, or whose fork did not answer in its contract
\* there, never ends as a success (the runner may have repeated the attempt); what the fork calls transient is to be retried later (RSS's contract
\* has no such code), what it calls permanent or forbidden for now is not.
FailureIsTold ==
    stage = "done" /\ (fork = Absent \/ fork.type # "success") =>
        /\ response.outcome = "error" /\ response.group.items = <<>>
        /\ (fork # Absent /\ fork.type = "failure" /\ fork.identity) =>
               /\ fork.code = "transient" /\ request.source # "rss" =>
                      response.group.error = "source_temporarily_unavailable"
               /\ fork.code \in {"permanent", "rate_limit", UnknownCode} =>
                      response.group.error # "source_temporarily_unavailable"
=============================================================================
