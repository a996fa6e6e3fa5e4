-------------------------- MODULE SourceCallProofs --------------------------
(***************************************************************************)
(* Theorems about SourceCall, for any sources, limits and lists of items,  *)
(* and any number of redirects: what a feed is fetched from, and how a     *)
(* call that failed is told.                                               *)
(***************************************************************************)
EXTENDS SourceCall, TLAPS

-----------------------------------------------------------------------------
(* The fetch of a feed.                                                    *)

\* The URLs requested so far are URLs; the invariant of a fetch.
FetchInv ==
    /\ stage = "called" => request \in AllCalls
    /\ stage = "fetching" => hops \in Seq(Urls) /\ hops # <<>>
    /\ FetchKeepsItsTerms

\* A call of RSS names a URL: RssCalls is the one set of calls of its source.
LEMMA FeedCallHasUrl ==
    ASSUME NEW call \in AllCalls, call.source = "rss"
    PROVE  call.url \in Urls
<1>1. \/ call \in V2exCalls \/ call \in RssCalls \/ call \in BilibiliCalls
      \/ call \in YoutubeCalls \/ call \in ExaCalls \/ call \in XueqiuCalls
      \/ call \in OpencliCalls
  BY DEF AllCalls
<1>2. /\ call \notin V2exCalls
  BY DEF V2exCalls
<1>3. call \notin BilibiliCalls
  BY DEF BilibiliCalls
<1>4. call \notin YoutubeCalls
  BY DEF YoutubeCalls
<1>5. call \notin ExaCalls /\ call \notin XueqiuCalls
  BY DEF ExaCalls, XueqiuCalls
<1>6. call \notin OpencliCalls
  BY DEF OpencliCalls
<1>7. call \in RssCalls
  BY <1>1, <1>2, <1>3, <1>4, <1>5, <1>6
<1> QED
  BY <1>7 DEF RssCalls

\* The failure a hop ends with is that of one of its three places, and there is
\* none when it has none.
LEMMA FirstOfThree ==
    ASSUME NEW first, NEW second, NEW third,
           NEW told, told = {i \in DOMAIN <<first, second, third>> :
                                <<first, second, third>>[i] # None}
    PROVE  LET failure == IF told = {} THEN None ELSE <<first, second, third>>[Min(told)]
           IN  /\ failure \in {first, second, third, None}
               /\ failure = None => third = None
<1>1. DOMAIN <<first, second, third>> = 1..3
  OBVIOUS
<1>2. CASE told = {}
  BY <1>1, <1>2
<1>3. CASE told # {}
  <2>1. told \subseteq 1..3
    BY <1>1
  <2>2. \E x \in told : \A y \in told : x <= y
    <3>1. CASE 1 \in told
      BY <2>1, <3>1
    <3>2. CASE 1 \notin told /\ 2 \in told
      BY <2>1, <3>2
    <3>3. CASE 1 \notin told /\ 2 \notin told
      BY <2>1, <3>3, <1>3
    <3> QED
      BY <3>1, <3>2, <3>3
  <2>3. Min(told) \in told
    BY <2>2 DEF Min
  <2>4. <<first, second, third>>[Min(told)] # None
    BY <2>3
  <2>5. <<first, second, third>>[Min(told)] \in {first, second, third}
    BY <2>1, <2>3
  <2> QED
    BY <1>3, <2>4, <2>5
<1> QED
  BY <1>2, <1>3

\* A redirect that is followed leads to a normalized URL, over https where the one
\* before it was, and is not one too many.
LEMMA FollowedRedirect ==
    ASSUME NEW url, NEW redirects \in Nat, NEW lookup,
           NEW exchange, exchange.type = "redirect",
           FetchFailure(url, redirects, lookup, exchange) = None
    PROVE  LET next == Joined(url, exchange.location)
           IN  /\ redirects < MaxRedirects
               /\ exchange.location.type \notin {"missing", "malformed"}
               /\ Normalized(next)
               /\ url.scheme = "https" => next.scheme = "https"
<1> DEFINE first == LookupFailure(lookup)
           second == IF LookupFailure(lookup) = None THEN HopFailure(exchange) ELSE None
           third == CASE exchange.type = "redirect" ->
                             RedirectFailure(url, redirects, exchange.location)
                      [] exchange.type = "response" ->
                             IF StatusFailure(exchange.status) = None /\ ~exchange.typed
                             THEN "permanent" ELSE StatusFailure(exchange.status)
                      [] OTHER -> None
           told == {i \in DOMAIN <<first, second, third>> :
                        <<first, second, third>>[i] # None}
<1>1. (IF told = {} THEN None ELSE <<first, second, third>>[Min(told)]) = None
  BY DEF FetchFailure
<1>2. third = RedirectFailure(url, redirects, exchange.location)
  BY Zenon
<1> HIDE DEF first, second, third
<1>3. third = None
  BY <1>1, FirstOfThree
<1>4. RedirectFailure(url, redirects, exchange.location) = None
  BY <1>2, <1>3
<1> QED
  BY <1>4, MaxRedirectsAssumption DEF RedirectFailure, None

\* The invariant of a fetch is inductive.
LEMMA FetchInvariance == Spec => []FetchInv
<1>1. Init => FetchInv
  BY DEF Init, FetchInv, FetchKeepsItsTerms
<1>2. FetchInv /\ [Next]_vars => FetchInv'
  <2> SUFFICES ASSUME FetchInv, [Next]_vars
               PROVE  FetchInv'
    OBVIOUS
  <2> USE DEF FetchInv
  <2>1. CASE TurnAway
    BY <2>1 DEF TurnAway, FetchKeepsItsTerms
  <2>2. CASE Prepare
    <3>1. stage' # "called"
      BY <2>2, Zenon DEF Prepare, Ask, Refuse
    <3>2. stage' = "fetching" =>
            /\ request.source = "rss"
            /\ Normalized(request.url) /\ hops' = <<request.url>>
      BY <2>2, Zenon DEF Prepare, Ask, Refuse
    <3>3. stage' = "fetching" => request.url \in Urls
      BY <3>2, <2>2, FeedCallHasUrl DEF Prepare
    <3>4. CASE stage' = "fetching"
      <4> DEFINE url == request.url
      <4>0. url \in Urls /\ hops' = <<url>>
        BY <3>2, <3>3, <3>4
      <4> HIDE DEF url
      <4>1. hops' \in Seq(Urls) /\ hops' # <<>> /\ Len(hops') = 1 /\ hops'[1] = url
        BY <4>0
      <4>2. Normalized(hops'[1])
        BY <3>2, <3>4, <4>1 DEF url
      <4>3. FetchKeepsItsTerms'
        BY <4>1, <4>2, MaxRedirectsAssumption DEF FetchKeepsItsTerms
      <4> QED
        BY <3>1, <4>1, <4>3
    <3> QED
      BY <3>1, <3>4 DEF FetchKeepsItsTerms
  <2>3. CASE FetchHop
    <3>1. CASE stage' # "fetching"
      BY <2>3, <3>1 DEF FetchHop, FetchKeepsItsTerms, Refuse, Ask
    <3>2. CASE stage' = "fetching"
      <4> DEFINE url == Last(hops)
                 redirects == Len(hops) - 1
      <4>1. PICK lookup \in Lookups(url.host), exchange \in Exchanges :
              /\ FetchFailure(url, redirects, lookup, exchange) = None
              /\ exchange.type = "redirect"
              /\ hops' = Append(hops, Joined(url, exchange.location))
        BY <2>3, <3>2 DEF FetchHop, Refuse, Ask
      <4> DEFINE next == Joined(url, exchange.location)
      <4>2. /\ stage = "fetching"
            /\ hops \in Seq(Urls) /\ hops # <<>>
            /\ FetchKeepsItsTerms
        BY <2>3 DEF FetchHop
      <4>3. redirects \in Nat /\ url = hops[Len(hops)] /\ url \in Urls
        BY <4>2 DEF Last
      <4>4. /\ redirects < MaxRedirects
            /\ exchange.location.type \notin {"missing", "malformed"}
            /\ Normalized(next)
            /\ url.scheme = "https" => next.scheme = "https"
        <5> HIDE DEF url, redirects
        <5> QED
          BY <4>1, <4>3, FollowedRedirect
      <4>5. next \in Urls
        <5>1. CASE exchange.location.type = "relative"
          BY <5>1, <4>3 DEF Joined
        <5>2. CASE exchange.location.type # "relative"
          <6>1. exchange.location \in Locations
            BY <4>1 DEF Exchanges
          <6> QED
            BY <6>1, <5>2, <4>4 DEF Locations, Joined
        <5> QED
          BY <5>1, <5>2
      <4> HIDE DEF next
      <4>6. /\ hops' \in Seq(Urls) /\ hops' # <<>>
            /\ Len(hops') = Len(hops) + 1
            /\ \A i \in 1..Len(hops) : hops'[i] = hops[i]
            /\ hops'[Len(hops) + 1] = next
        BY <4>1, <4>2, <4>5 DEF next
      <4>7. FetchKeepsItsTerms'
        BY <4>2, <4>3, <4>4, <4>6, MaxRedirectsAssumption DEF FetchKeepsItsTerms
      <4> QED
        BY <3>2, <4>6, <4>7
    <3> QED
      BY <3>1, <3>2
  <2>4. CASE WorkerAnswers \/ WorkerBreaks \/ AskAgain \/ Receive \/ Bound
    BY <2>4, Zenon
    DEF WorkerAnswers, WorkerBreaks, AskAgain, Receive, Bound, FetchKeepsItsTerms
  <2>5. CASE Finished \/ UNCHANGED vars
    BY <2>5 DEF Finished, vars, FetchKeepsItsTerms
  <2> QED
    BY <2>1, <2>2, <2>3, <2>4, <2>5 DEF Next
<1> QED
  BY <1>1, <1>2, PTL DEF Spec

\* Whatever redirects a feed's server sends, no URL is requested that was not
\* normalized, no more than MaxRedirects + 1 are, and none over http after one over
\* https: PublicHttpTransport.get, for every number of redirects.
THEOREM FetchIsConfined == Spec => []FetchKeepsItsTerms
<1>1. FetchInv => FetchKeepsItsTerms
  BY DEF FetchInv
<1> QED
  BY <1>1, FetchInvariance, PTL
-----------------------------------------------------------------------------
(* The failures of a fork and of a worker.                                 *)

\* What a fork returns that is no success.
FailedForks ==
    {ForkFailure(code, identity) : code \in ForkCodes, identity \in BOOLEAN}
        \cup {ForkForeign}

\* A class that tells what failed: a transient failure is transient, but for a
\* feed's, and a lasting one is not.
Tells(forked, feed, class) ==
    /\ class \in FailureClasses
    /\ forked.type = "failure" /\ forked.identity =>
           /\ forked.code = "transient" /\ ~feed => class = "transient"
           /\ forked.code \in {"permanent", "rate_limit", UnknownCode} => class # "transient"

\* The codes five of the seven contracts share.
CommonCodes ==
    SharedErrorCodes \cup {"invalid_input", "not_found", "authentication",
                           "authorization", "rate_limit", "transient"}

\* The code a worker's frame has for a failed fork, when its contract has codes.
Said(forked, codes) ==
    IF forked.type = "failure" /\ forked.identity /\ forked.code \in codes
    THEN forked.code ELSE "backend_contract_violation"

LEMMA ForkFields ==
    ASSUME NEW forked \in FailedForks
    PROVE  /\ forked.type \in {"failure", "foreign"}
           /\ forked.type = "failure" => forked.code \in ForkCodes
           /\ forked.fits = TRUE
BY DEF FailedForks, ForkFailure, ForkForeign

\* A common code that is not transient is not said of a transient failure, and one
\* that is transient is not said of a lasting one.
LEMMA SaidIsCommon ==
    ASSUME NEW forked \in FailedForks
    PROVE  /\ Said(forked, CommonCodes) \in CommonCodes
           /\ forked.type = "failure" /\ forked.identity =>
                /\ forked.code = "transient" => Said(forked, CommonCodes) = "transient"
                /\ forked.code \in {"permanent", "rate_limit", UnknownCode} =>
                       Said(forked, CommonCodes)
                           \in {"permanent", "rate_limit", "backend_contract_violation"}
BY ForkFields DEF Said, CommonCodes, SharedErrorCodes, UnknownCode

\* The projection of a common code to a failure class, in the four forms it has.
LEMMA ClassesOfCodes ==
    ASSUME NEW code \in CommonCodes,
           NEW class \in {V2exFailureClass(code), BilibiliFailureClass(code),
                          ExaFailureClass(code), ConnectorFailureClass(code)}
    PROVE  /\ class \in FailureClasses
           /\ code = "transient" => class = "transient"
           /\ code \in {"permanent", "rate_limit", "backend_contract_violation"} =>
                  class # "transient"
<1>1. CASE code \in {"invalid_input", "not_found", "authentication", "authorization",
                     "rate_limit"}
  BY <1>1 DEF V2exFailureClass, BilibiliFailureClass, ExaFailureClass,
     ConnectorFailureClass, FailureClasses
<1>2. CASE code \in {"cancelled", "deadline_exceeded", "transient"}
  BY <1>2 DEF V2exFailureClass, BilibiliFailureClass, ExaFailureClass,
     ConnectorFailureClass, FailureClasses
<1>3. CASE code \in {"backend_unavailable", "backend_incompatible"}
  BY <1>3 DEF V2exFailureClass, BilibiliFailureClass, ExaFailureClass,
     ConnectorFailureClass, FailureClasses
<1>4. CASE code \in {"unsupported_protocol_version", "invalid_request",
                     "unsupported_source", "unsupported_operation",
                     "host_capability_missing", "permanent", "backend_contract_violation"}
  BY <1>4 DEF V2exFailureClass, BilibiliFailureClass, ExaFailureClass,
     ConnectorFailureClass, FailureClasses
<1> QED
  BY <1>1, <1>2, <1>3, <1>4 DEF CommonCodes, SharedErrorCodes

\* A failed fork of the V2ex worker.
LEMMA V2exTellsFailure ==
    ASSUME NEW asked, NEW forked \in FailedForks
    PROVE  LET answer == V2exWorker(asked, forked)
           IN  /\ answer.type = "failure"
               /\ V2exDecode(asked, answer) = answer
               /\ \E class : /\ V2exAdapted(V2exDecode(asked, answer)) = Failed(class)
                             /\ Tells(forked, FALSE, class)
<1> DEFINE answer == V2exWorker(asked, forked)
           said == Said(forked, CommonCodes)
           class == V2exFailureClass(said)
<1>1. answer = Failure(said)
  BY ForkFields, Zenon DEF V2exWorker, V2exErrorCodes, Said, CommonCodes
<1>2. answer.type = "failure" /\ answer.code = said
  BY <1>1 DEF Failure
<1>3. V2exDecode(asked, answer) = answer
  BY <1>2, SaidIsCommon DEF V2exDecode, V2exErrorCodes, CommonCodes
<1>4. V2exAdapted(answer) = Failed(class)
  BY <1>2, Zenon DEF V2exAdapted
<1>5. Tells(forked, FALSE, class)
  BY SaidIsCommon, ClassesOfCodes DEF Tells
<1> QED
  BY <1>2, <1>3, <1>4, <1>5

\* A failed fork of the Bilibili worker.
LEMMA BilibiliTellsFailure ==
    ASSUME NEW asked, NEW forked \in FailedForks
    PROVE  LET answer == BilibiliWorker(asked, forked)
           IN  /\ answer.type = "failure"
               /\ BilibiliDecode(asked, answer) = answer
               /\ \E class : /\ BilibiliAdapted(BilibiliDecode(asked, answer)) = Failed(class)
                             /\ Tells(forked, FALSE, class)
<1> DEFINE answer == BilibiliWorker(asked, forked)
           said == Said(forked, CommonCodes)
           class == BilibiliFailureClass(said)
<1>1. answer = Failure(said)
  BY ForkFields, Zenon DEF BilibiliWorker, BilibiliErrorCodes, Said, CommonCodes
<1>2. answer.type = "failure" /\ answer.code = said
  BY <1>1 DEF Failure
<1>3. BilibiliDecode(asked, answer) = answer
  BY <1>2, SaidIsCommon DEF BilibiliDecode, BilibiliErrorCodes, CommonCodes
<1>4. BilibiliAdapted(answer) = Failed(class)
  BY <1>2, Zenon DEF BilibiliAdapted
<1>5. Tells(forked, FALSE, class)
  BY SaidIsCommon, ClassesOfCodes DEF Tells
<1> QED
  BY <1>2, <1>3, <1>4, <1>5

\* A failed fork of the Exa worker.
LEMMA ExaTellsFailure ==
    ASSUME NEW asked, NEW forked \in FailedForks
    PROVE  LET answer == ExaWorker(asked, forked)
           IN  /\ answer.type = "failure"
               /\ ExaDecode(asked, answer) = answer
               /\ \E class : /\ ExaAdapted(ExaDecode(asked, answer)) = Failed(class)
                             /\ Tells(forked, FALSE, class)
<1> DEFINE answer == ExaWorker(asked, forked)
           said == Said(forked, CommonCodes)
           class == ExaFailureClass(said)
<1>1. answer = Failure(said)
  BY ForkFields, Zenon DEF ExaWorker, ExaErrorCodes, Said, CommonCodes
<1>2. answer.type = "failure" /\ answer.code = said
  BY <1>1 DEF Failure
<1>3. ExaDecode(asked, answer) = answer
  BY <1>2, SaidIsCommon DEF ExaDecode, ExaErrorCodes, CommonCodes
<1>4. ExaAdapted(answer) = Failed(class)
  BY <1>2, Zenon DEF ExaAdapted
<1>5. Tells(forked, FALSE, class)
  BY SaidIsCommon, ClassesOfCodes DEF Tells
<1> QED
  BY <1>2, <1>3, <1>4, <1>5

\* A failed fork of the Xueqiu worker.
LEMMA XueqiuTellsFailure ==
    ASSUME NEW asked, NEW forked \in FailedForks
    PROVE  LET answer == XueqiuWorker(asked, forked)
           IN  /\ answer.type = "failure"
               /\ XueqiuDecode(asked, answer) = answer
               /\ \E class : /\ XueqiuAdapted(asked, XueqiuDecode(asked, answer)) = Failed(class)
                             /\ Tells(forked, FALSE, class)
<1> DEFINE answer == XueqiuWorker(asked, forked)
           said == Said(forked, CommonCodes)
           class == ConnectorFailureClass(said)
<1>1. answer = Failure(said)
  BY ForkFields, Zenon DEF XueqiuWorker, XueqiuErrorCodes, Said, CommonCodes
<1>2. answer.type = "failure" /\ answer.code = said
  BY <1>1 DEF Failure
<1>3. XueqiuDecode(asked, answer) = answer
  BY <1>2, SaidIsCommon DEF XueqiuDecode, XueqiuErrorCodes, CommonCodes
<1>4. XueqiuAdapted(asked, answer) = Failed(class)
  BY <1>2, Zenon DEF XueqiuAdapted
<1>5. Tells(forked, FALSE, class)
  BY SaidIsCommon, ClassesOfCodes DEF Tells
<1> QED
  BY <1>2, <1>3, <1>4, <1>5

\* A failed fork of the Opencli worker.
LEMMA OpencliTellsFailure ==
    ASSUME NEW asked, NEW forked \in FailedForks
    PROVE  LET answer == OpencliWorker(asked, forked)
           IN  /\ answer.type = "failure"
               /\ OpencliDecode(asked, answer) = answer
               /\ \E class : /\ OpencliAdapted(OpencliDecode(asked, answer)) = Failed(class)
                             /\ Tells(forked, FALSE, class)
<1> DEFINE answer == OpencliWorker(asked, forked)
           said == Said(forked, CommonCodes)
           class == ConnectorFailureClass(said)
<1>1. answer = Failure(said)
  BY ForkFields, Zenon DEF OpencliWorker, OpencliErrorCodes, Said, CommonCodes
<1>2. answer.type = "failure" /\ answer.code = said
  BY <1>1 DEF Failure
<1>3. OpencliDecode(asked, answer) = answer
  BY <1>2, SaidIsCommon DEF OpencliDecode, OpencliErrorCodes, CommonCodes
<1>4. OpencliAdapted(answer) = Failed(class)
  BY <1>2, Zenon DEF OpencliAdapted
<1>5. Tells(forked, FALSE, class)
  BY SaidIsCommon, ClassesOfCodes DEF Tells
<1> QED
  BY <1>2, <1>3, <1>4, <1>5
\* A failed fork of the YouTube worker, whose envelope has codes of its own.
LEMMA YoutubeTellsFailure ==
    ASSUME NEW asked, NEW forked \in FailedForks
    PROVE  LET answer == YoutubeWorker(asked, forked)
           IN  /\ answer.type = "failure"
               /\ YoutubeDecode(asked, answer) = answer
               /\ \E class : /\ YoutubeAdapted(asked, YoutubeDecode(asked, answer))
                                 = Failed(class)
                             /\ Tells(forked, FALSE, class)
<1> DEFINE answer == YoutubeWorker(asked, forked)
           said == Said(forked, CommonCodes)
           code == YoutubeTranslated(said)
           class == YoutubeFailureClass(code)
<1>1. /\ code \in YoutubeErrorCodes
      /\ said = "transient" => code = "transient"
      /\ said \in {"permanent", "rate_limit", "backend_contract_violation"} =>
             code # "transient"
  <2>1. CASE said \in {"backend_unavailable", "backend_incompatible"}
    BY <2>1 DEF YoutubeTranslated, YoutubeErrorCodes
  <2>2. CASE said \in {"not_found", "authentication", "authorization",
                       "rate_limit", "transient"}
    BY <2>2 DEF YoutubeTranslated, YoutubeErrorCodes
  <2>3. CASE said \notin {"backend_unavailable", "backend_incompatible", "not_found",
                          "authentication", "authorization", "rate_limit", "transient"}
    BY <2>3 DEF YoutubeTranslated, YoutubeErrorCodes
  <2> QED
    BY <2>1, <2>2, <2>3
<1>2. answer = Failure(code)
  <2>1. CASE forked.type = "failure" /\ forked.identity /\ forked.code \in CommonCodes
    BY <2>1, Zenon DEF YoutubeWorker, YoutubeForkCodes, Said, CommonCodes
  <2>2. CASE ~(forked.type = "failure" /\ forked.identity /\ forked.code \in CommonCodes)
    <3>1. answer = Failure("permanent")
      BY <2>2, ForkFields, Zenon DEF YoutubeWorker, YoutubeForkCodes, CommonCodes
    <3>2. said = "backend_contract_violation"
      BY <2>2, Zenon DEF Said
    <3>3. code = "permanent"
      BY <3>2 DEF YoutubeTranslated
    <3> QED
      BY <3>1, <3>3, Zenon
  <2> QED
    BY <2>1, <2>2
<1>3. answer.type = "failure" /\ answer.code = code
  BY <1>2 DEF Failure
<1>4. YoutubeDecode(asked, answer) = answer
  BY <1>1, <1>3 DEF YoutubeDecode
<1>5. YoutubeAdapted(asked, answer) = Failed(class)
  BY <1>3, Zenon DEF YoutubeAdapted
<1>6. Tells(forked, FALSE, class)
  <2>1. /\ class \in FailureClasses
        /\ class = "transient" <=> code = "transient"
    BY <1>1 DEF YoutubeFailureClass, YoutubeErrorCodes, FailureClasses
  <2> QED
    BY <1>1, <2>1, SaidIsCommon DEF Tells
<1> QED
  BY <1>3, <1>4, <1>5, <1>6

\* A failed fork of the RSS worker, whose contract has no transient failure.
LEMMA RssTellsFailure ==
    ASSUME NEW asked, NEW forked \in FailedForks
    PROVE  LET answer == RssWorker(asked, forked)
           IN  /\ answer.type = "failure"
               /\ RssDecode(asked, answer) = answer
               /\ \E class : /\ RssAdapted(asked, RssDecode(asked, answer)) = Failed(class)
                             /\ Tells(forked, TRUE, class)
<1> DEFINE answer == RssWorker(asked, forked)
           said == Said(forked, SharedErrorCodes)
           class == RssFailureClass(said)
<1>1. answer = Failure(said)
  BY ForkFields, Zenon DEF RssWorker, RssErrorCodes, Said
<1>2. answer.type = "failure" /\ answer.code = said
  BY <1>1 DEF Failure
<1>3. RssDecode(asked, answer) = answer
  BY <1>2 DEF RssDecode, RssErrorCodes, Said, SharedErrorCodes
<1>4. RssAdapted(asked, answer) = Failed(class)
  BY <1>2, Zenon DEF RssAdapted
<1>5. Tells(forked, TRUE, class)
  BY ForkFields DEF Tells, RssFailureClass, Said, FailureClasses, UnknownCode
<1> QED
  BY <1>2, <1>3, <1>4, <1>5
-----------------------------------------------------------------------------
(* The call.                                                               *)

SourceNames == {"v2ex", "rss", "bilibili", "youtube", "exa", "xueqiu", "opencli"}
Breakings == Breaks \cup {"late"}

\* A failed fork's frame is one the parent decodes, and what the adapter makes of it
\* tells the failure, whichever source was asked.
LEMMA FailedForkIsTold ==
    ASSUME request.source \in SourceNames, fork \in FailedForks, frame = Answer(fork)
    PROVE  /\ frame.type = "failure" /\ Decoded = frame
           /\ \E class : /\ AdaptedFrom(Decoded) = Failed(class)
                         /\ Tells(fork, request.source = "rss", class)
<1>1. CASE request.source = "v2ex"
  <2>1. frame = V2exWorker(request, fork)
    BY <1>1, ForkFields, Zenon DEF Answer
  <2>2. frame.type = "failure"
    BY <2>1, V2exTellsFailure
  <2>3. Decoded = V2exDecode(request, frame)
    <3>1. ~(frame.type = "broken")
      BY <2>2
    <3> QED
      BY <1>1, <3>1, Zenon DEF Decoded
  <2>4. AdaptedFrom(Decoded) = V2exAdapted(V2exDecode(request, frame))
    BY <1>1, <2>3, Zenon DEF AdaptedFrom
  <2> QED
    BY <1>1, <2>1, <2>2, <2>3, <2>4, V2exTellsFailure
<1>2. CASE request.source = "rss"
  <2>1. frame = RssWorker(request, fork)
    BY <1>2, ForkFields, Zenon DEF Answer
  <2>2. frame.type = "failure"
    BY <2>1, RssTellsFailure
  <2>3. Decoded = RssDecode(request, frame)
    <3>1. ~(frame.type = "broken")
      BY <2>2
    <3> QED
      BY <1>2, <3>1, Zenon DEF Decoded
  <2>4. AdaptedFrom(Decoded) = RssAdapted(request, RssDecode(request, frame))
    BY <1>2, <2>3, Zenon DEF AdaptedFrom
  <2> QED
    BY <1>2, <2>1, <2>2, <2>3, <2>4, RssTellsFailure
<1>3. CASE request.source = "bilibili"
  <2>1. frame = BilibiliWorker(request, fork)
    BY <1>3, ForkFields, Zenon DEF Answer
  <2>2. frame.type = "failure"
    BY <2>1, BilibiliTellsFailure
  <2>3. Decoded = BilibiliDecode(request, frame)
    <3>1. ~(frame.type = "broken")
      BY <2>2
    <3> QED
      BY <1>3, <3>1, Zenon DEF Decoded
  <2>4. AdaptedFrom(Decoded) = BilibiliAdapted(BilibiliDecode(request, frame))
    BY <1>3, <2>3, Zenon DEF AdaptedFrom
  <2> QED
    BY <1>3, <2>1, <2>2, <2>3, <2>4, BilibiliTellsFailure
<1>4. CASE request.source = "youtube"
  <2>1. frame = YoutubeWorker(request, fork)
    BY <1>4, ForkFields, Zenon DEF Answer
  <2>2. frame.type = "failure"
    BY <2>1, YoutubeTellsFailure
  <2>3. Decoded = YoutubeDecode(request, frame)
    <3>1. ~(frame.type = "broken")
      BY <2>2
    <3> QED
      BY <1>4, <3>1, Zenon DEF Decoded
  <2>4. AdaptedFrom(Decoded) = YoutubeAdapted(request, YoutubeDecode(request, frame))
    BY <1>4, <2>3, Zenon DEF AdaptedFrom
  <2> QED
    BY <1>4, <2>1, <2>2, <2>3, <2>4, YoutubeTellsFailure
<1>5. CASE request.source = "exa"
  <2>1. frame = ExaWorker(request, fork)
    BY <1>5, ForkFields, Zenon DEF Answer
  <2>2. frame.type = "failure"
    BY <2>1, ExaTellsFailure
  <2>3. Decoded = ExaDecode(request, frame)
    <3>1. ~(frame.type = "broken")
      BY <2>2
    <3> QED
      BY <1>5, <3>1, Zenon DEF Decoded
  <2>4. AdaptedFrom(Decoded) = ExaAdapted(ExaDecode(request, frame))
    BY <1>5, <2>3, Zenon DEF AdaptedFrom
  <2> QED
    BY <1>5, <2>1, <2>2, <2>3, <2>4, ExaTellsFailure
<1>6. CASE request.source = "xueqiu"
  <2>1. frame = XueqiuWorker(request, fork)
    BY <1>6, ForkFields, Zenon DEF Answer
  <2>2. frame.type = "failure"
    BY <2>1, XueqiuTellsFailure
  <2>3. Decoded = XueqiuDecode(request, frame)
    <3>1. ~(frame.type = "broken")
      BY <2>2
    <3> QED
      BY <1>6, <3>1, Zenon DEF Decoded
  <2>4. AdaptedFrom(Decoded) = XueqiuAdapted(request, XueqiuDecode(request, frame))
    BY <1>6, <2>3, Zenon DEF AdaptedFrom
  <2> QED
    BY <1>6, <2>1, <2>2, <2>3, <2>4, XueqiuTellsFailure
<1>7. CASE request.source = "opencli"
  <2>1. frame = OpencliWorker(request, fork)
    BY <1>7, ForkFields, Zenon DEF Answer
  <2>2. frame.type = "failure"
    BY <2>1, OpencliTellsFailure
  <2>3. Decoded = OpencliDecode(request, frame)
    <3>1. ~(frame.type = "broken")
      BY <2>2
    <3> QED
      BY <1>7, <3>1, Zenon DEF Decoded
  <2>4. AdaptedFrom(Decoded) = OpencliAdapted(OpencliDecode(request, frame))
    BY <1>7, <2>3, Zenon DEF AdaptedFrom
  <2> QED
    BY <1>7, <2>1, <2>2, <2>3, <2>4, OpencliTellsFailure
<1> QED
  BY <1>1, <1>2, <1>3, <1>4, <1>5, <1>6, <1>7 DEF SourceNames

\* However a worker breaks, its parent reports a failure.
LEMMA BrokenWorkerIsTold ==
    ASSUME request.source \in SourceNames,
           NEW how \in Breakings, frame = Broken(how)
    PROVE  \E class \in FailureClasses : AdaptedFrom(Decoded) = Failed(class)
<1>0. frame.type = "broken" /\ frame.how = how
  BY DEF Broken
<1>1. CASE request.source = "v2ex"
  <2>1. AdaptedFrom(Decoded) = V2exAdapted(V2exBroken(how))
    <3>1. Decoded = V2exBroken(how)
      BY <1>1, <1>0, Zenon DEF Decoded
    <3> QED
      BY <1>1, <3>1, Zenon DEF AdaptedFrom
  <2>2. PICK class \in {"permanent", "transient"} : V2exBroken(how) = Raised(class)
    BY DEF V2exBroken
  <2>3. V2exAdapted(Raised(class)) = Failed(class)
    <3>1. Raised(class).type = "raised" /\ Raised(class).class = class
      BY DEF Raised
    <3> QED
      BY <3>1, Zenon DEF V2exAdapted
  <2> QED
    BY <2>1, <2>2, <2>3 DEF FailureClasses
<1>2. CASE request.source = "rss"
  <2>1. AdaptedFrom(Decoded) = RssAdapted(request, RssBroken(how))
    <3>1. Decoded = RssBroken(how)
      BY <1>2, <1>0, Zenon DEF Decoded
    <3> QED
      BY <1>2, <3>1, Zenon DEF AdaptedFrom
  <2>2. PICK class \in {"permanent", "transient"} : RssBroken(how) = Raised(class)
    BY DEF RssBroken
  <2>3. RssAdapted(request, Raised(class)) = Failed(class)
    <3>1. Raised(class).type = "raised" /\ Raised(class).class = class
      BY DEF Raised
    <3> QED
      BY <3>1, Zenon DEF RssAdapted
  <2> QED
    BY <2>1, <2>2, <2>3 DEF FailureClasses
<1>3. CASE request.source = "bilibili"
  <2>1. AdaptedFrom(Decoded) = BilibiliAdapted(BilibiliBroken(how))
    <3>1. Decoded = BilibiliBroken(how)
      BY <1>3, <1>0, Zenon DEF Decoded
    <3> QED
      BY <1>3, <3>1, Zenon DEF AdaptedFrom
  <2>2. PICK class \in {"permanent", "transient"} : BilibiliBroken(how) = Raised(class)
    BY DEF BilibiliBroken
  <2>3. BilibiliAdapted(Raised(class)) = Failed(class)
    <3>1. Raised(class).type = "raised" /\ Raised(class).class = class
      BY DEF Raised
    <3> QED
      BY <3>1, Zenon DEF BilibiliAdapted
  <2> QED
    BY <2>1, <2>2, <2>3 DEF FailureClasses
<1>4. CASE request.source = "youtube"
  <2>1. AdaptedFrom(Decoded) = YoutubeAdapted(request, YoutubeBroken(how))
    <3>1. Decoded = YoutubeBroken(how)
      BY <1>4, <1>0, Zenon DEF Decoded
    <3> QED
      BY <1>4, <3>1, Zenon DEF AdaptedFrom
  <2>2. PICK class \in {"permanent", "transient"} : YoutubeBroken(how) = Raised(class)
    BY DEF YoutubeBroken
  <2>3. YoutubeAdapted(request, Raised(class)) = Failed(class)
    <3>1. Raised(class).type = "raised" /\ Raised(class).class = class
      BY DEF Raised
    <3> QED
      BY <3>1, Zenon DEF YoutubeAdapted
  <2> QED
    BY <2>1, <2>2, <2>3 DEF FailureClasses
<1>5. CASE request.source = "exa"
  <2>1. AdaptedFrom(Decoded) = ExaAdapted(ExaBroken(how))
    <3>1. Decoded = ExaBroken(how)
      BY <1>5, <1>0, Zenon DEF Decoded
    <3> QED
      BY <1>5, <3>1, Zenon DEF AdaptedFrom
  <2>2. PICK class \in {"permanent", "transient"} : ExaBroken(how) = Raised(class)
    BY DEF ExaBroken
  <2>3. ExaAdapted(Raised(class)) = Failed(class)
    <3>1. Raised(class).type = "raised" /\ Raised(class).class = class
      BY DEF Raised
    <3> QED
      BY <3>1, Zenon DEF ExaAdapted
  <2> QED
    BY <2>1, <2>2, <2>3 DEF FailureClasses
<1>6. CASE request.source = "xueqiu"
  <2>1. AdaptedFrom(Decoded) = XueqiuAdapted(request, XueqiuBroken(how))
    <3>1. Decoded = XueqiuBroken(how)
      BY <1>6, <1>0, Zenon DEF Decoded
    <3> QED
      BY <1>6, <3>1, Zenon DEF AdaptedFrom
  <2>2. PICK code : XueqiuBroken(how) = Failure(code) /\ code \in CommonCodes
    <3> DEFINE code == CASE how \in {"oversized", "garbled"} -> "backend_contract_violation"
                         [] how = "unspawned" -> "backend_unavailable"
                         [] how = "late" -> "deadline_exceeded"
                         [] OTHER -> "transient"
    <3>1. code \in CommonCodes
      BY DEF CommonCodes, SharedErrorCodes
    <3>2. XueqiuBroken(how) = Failure(code)
      BY Zenon DEF XueqiuBroken
    <3> QED
      BY <3>1, <3>2
  <2>3. XueqiuAdapted(request, Failure(code)) = Failed(ConnectorFailureClass(code))
    <3>1. Failure(code).type = "failure" /\ Failure(code).code = code
      BY DEF Failure
    <3> QED
      BY <3>1, Zenon DEF XueqiuAdapted
  <2>4. ConnectorFailureClass(code) \in FailureClasses
    BY <2>2, ClassesOfCodes
  <2> QED
    BY <2>1, <2>2, <2>3, <2>4
<1>7. CASE request.source = "opencli"
  <2>1. AdaptedFrom(Decoded) = OpencliAdapted(OpencliBroken(how))
    <3>1. Decoded = OpencliBroken(how)
      BY <1>7, <1>0, Zenon DEF Decoded
    <3> QED
      BY <1>7, <3>1, Zenon DEF AdaptedFrom
  <2>2. PICK code : OpencliBroken(how) = Failure(code) /\ code \in CommonCodes
    <3> DEFINE code == CASE how \in {"oversized", "garbled"} -> "backend_contract_violation"
                         [] how = "unspawned" -> "backend_unavailable"
                         [] how = "late" -> "deadline_exceeded"
                         [] OTHER -> "transient"
    <3>1. code \in CommonCodes
      BY DEF CommonCodes, SharedErrorCodes
    <3>2. OpencliBroken(how) = Failure(code)
      BY Zenon DEF OpencliBroken
    <3> QED
      BY <3>1, <3>2
  <2>3. OpencliAdapted(Failure(code)) = Failed(ConnectorFailureClass(code))
    <3>1. Failure(code).type = "failure" /\ Failure(code).code = code
      BY DEF Failure
    <3> QED
      BY <3>1, Zenon DEF OpencliAdapted
  <2>4. ConnectorFailureClass(code) \in FailureClasses
    BY <2>2, ClassesOfCodes
  <2> QED
    BY <2>1, <2>2, <2>3, <2>4
<1> QED
  BY <1>1, <1>2, <1>3, <1>4, <1>5, <1>6, <1>7 DEF SourceNames
\* The request an adapter makes is one of its own source.
LEMMA PreparedKeepsSource ==
    ASSUME NEW call \in AllCalls, call.source # "rss"
    PROVE  call.source \in SourceNames /\ Prepared(call).source = call.source
<1>0. \/ call \in V2exCalls \/ call \in RssCalls \/ call \in BilibiliCalls
      \/ call \in YoutubeCalls \/ call \in ExaCalls \/ call \in XueqiuCalls
      \/ call \in OpencliCalls
  BY DEF AllCalls
<1>1. CASE call \in V2exCalls
  <2>1. call.source = "v2ex"
    BY <1>1 DEF V2exCalls
  <2>2. V2exRequest(call).source = "v2ex"
    BY <1>1, <2>1 DEF V2exCalls, V2exRequest, V2exBrowses
  <2> QED
    BY <2>1, <2>2, Zenon DEF Prepared, SourceNames
<1>2. CASE call \in BilibiliCalls
  <2>1. call.source = "bilibili"
    BY <1>2 DEF BilibiliCalls
  <2>2. BilibiliRequest(call).source = "bilibili"
    BY <1>2, <2>1 DEF BilibiliCalls, BilibiliRequest
  <2> QED
    BY <2>1, <2>2, Zenon DEF Prepared, SourceNames
<1>3. CASE call \in YoutubeCalls
  <2>1. call.source = "youtube"
    BY <1>3 DEF YoutubeCalls
  <2>2. YoutubeRequest(call).source = "youtube"
    BY <1>3, <2>1 DEF YoutubeCalls, YoutubeRequest
  <2> QED
    BY <2>1, <2>2, Zenon DEF Prepared, SourceNames
<1>4. CASE call \in ExaCalls
  <2>1. call.source = "exa"
    BY <1>4 DEF ExaCalls
  <2>2. ExaRequest(call).source = "exa"
    BY <1>4, <2>1 DEF ExaCalls, ExaRequest
  <2> QED
    BY <2>1, <2>2, Zenon DEF Prepared, SourceNames
<1>5. CASE call \in XueqiuCalls
  <2>1. call.source = "xueqiu"
    BY <1>5 DEF XueqiuCalls
  <2>2. XueqiuRequest(call).source = "xueqiu"
    BY <1>5, <2>1 DEF XueqiuCalls, XueqiuRequest
  <2> QED
    BY <2>1, <2>2, Zenon DEF Prepared, SourceNames
<1>6. CASE call \in OpencliCalls
  <2>1. call.source = "opencli"
    BY <1>6 DEF OpencliCalls
  <2>2. OpencliRequest(call).source = "opencli"
    BY <1>6, <2>1 DEF OpencliCalls, OpencliRequest
  <2> QED
    BY <2>1, <2>2, Zenon DEF Prepared, SourceNames
<1>7. call \notin RssCalls
  BY DEF RssCalls
<1> QED
  BY <1>0, <1>1, <1>2, <1>3, <1>4, <1>5, <1>6, <1>7

\* Every failure of a fetch is of a class.
LEMMA FetchFailureIsClass ==
    ASSUME NEW url, NEW redirects, NEW lookup \in Lookups(url.host),
           NEW exchange \in Exchanges
    PROVE  FetchFailure(url, redirects, lookup, exchange) \in FailureClasses \cup {None}
<1> DEFINE Known == FailureClasses \cup {None}
           first == LookupFailure(lookup)
           second == IF LookupFailure(lookup) = None THEN HopFailure(exchange) ELSE None
           third == CASE exchange.type = "redirect" ->
                             RedirectFailure(url, redirects, exchange.location)
                      [] exchange.type = "response" ->
                             IF StatusFailure(exchange.status) = None /\ ~exchange.typed
                             THEN "permanent" ELSE StatusFailure(exchange.status)
                      [] OTHER -> None
           told == {i \in DOMAIN <<first, second, third>> :
                        <<first, second, third>>[i] # None}
<1>1. first \in Known
  BY DEF Lookups, LookupFailure, FailureClasses
<1>2. second \in Known
  BY DEF Exchanges, HopFailure, FailureClasses
<1>3. third \in Known
  <2>1. RedirectFailure(url, redirects, exchange.location) \in Known
    BY DEF RedirectFailure, FailureClasses
  <2>2. StatusFailure(exchange.status) \in Known
    BY DEF StatusFailure, FailureClasses
  <2>3. CASE exchange.type = "redirect"
    <3>1. third = RedirectFailure(url, redirects, exchange.location)
      BY <2>3, Zenon
    <3> QED
      BY <2>1, <3>1
  <2>4. CASE exchange.type = "response"
    <3>1. \/ third = "permanent" \/ third = StatusFailure(exchange.status)
      BY <2>4, Zenon
    <3> QED
      BY <2>2, <3>1 DEF FailureClasses
  <2>5. CASE exchange.type \notin {"redirect", "response"}
    BY <2>5
  <2> QED
    BY <2>3, <2>4, <2>5
<1>4. FetchFailure(url, redirects, lookup, exchange) =
        IF told = {} THEN None ELSE <<first, second, third>>[Min(told)]
  BY DEF FetchFailure
<1> HIDE DEF first, second, third, Known
<1>5. (IF told = {} THEN None ELSE <<first, second, third>>[Min(told)]) \in Known
  BY <1>1, <1>2, <1>3, FirstOfThree DEF Known
<1> QED
  BY <1>4, <1>5 DEF Known

\* The code a failure is shown under is the transient one's for a transient failure
\* alone.
LEMMA ErrorCodesTell ==
    ASSUME NEW class \in FailureClasses
    PROVE  ErrorCode(class) = "source_temporarily_unavailable" <=> class = "transient"
BY DEF ErrorCode, FailureClasses
-----------------------------------------------------------------------------
(* What a caller is told of a failure.                                     *)

\* A result that tells the failure there was: the fork's, or that of a call which
\* got nothing from one.
ResultTells ==
    \E class \in FailureClasses :
        /\ result = Failed(class)
        /\ fork # Absent =>
               fork \in FailedForks /\ Tells(fork, request.source = "rss", class)

\* The fork has not answered until a worker does, a frame is the answer to what it
\* returned, and a result without a success of the fork is a failure.
ToldInv ==
    /\ request.source \in SourceNames
    /\ stage = "called" => request \in AllCalls
    /\ stage = "fetching" => request.source = "rss"
    /\ stage \in {"called", "fetching", "asked"} => fork = Absent
    /\ stage = "answered" =>
           \/ fork = Absent /\ \E how \in Breakings : frame = Broken(how)
           \/ fork.type = "success"
           \/ fork \in FailedForks /\ frame = Answer(fork)
    /\ stage = "adapted" => fork.type = "success" \/ ResultTells
    /\ FailureIsTold

\* Every call is of one of the seven sources.
LEMMA CallHasSource ==
    ASSUME NEW call \in AllCalls
    PROVE  call.source \in SourceNames
BY PreparedKeepsSource DEF SourceNames

\* What the fork returns is a success, or one of its failures.
LEMMA ForksSucceedOrFail ==
    ASSUME NEW forked \in Forks
    PROVE  forked.type = "success" \/ forked \in FailedForks
BY DEF Forks, FailedForks, ForkSuccess

\* A result that tells the failure makes a response that does.
LEMMA ResponseTells ==
    ASSUME ResultTells, NEW bounded,
           bounded.failure = result.failure,
           NEW group, group = RunnerGroup(bounded)
    PROVE  /\ group.outcome = "error" /\ group.items = <<>>
           /\ fork # Absent /\ fork.type = "failure" /\ fork.identity =>
                  /\ fork.code = "transient" /\ request.source # "rss" =>
                         group.error = "source_temporarily_unavailable"
                  /\ fork.code \in {"permanent", "rate_limit", UnknownCode} =>
                         group.error # "source_temporarily_unavailable"
<1>1. PICK class \in FailureClasses :
        /\ result = Failed(class)
        /\ fork # Absent =>
               fork \in FailedForks /\ Tells(fork, request.source = "rss", class)
  BY DEF ResultTells
<1>2. bounded.failure = class /\ class # None
  BY <1>1 DEF Failed, FailureClasses, None
<1>3. group = Group(FailureAvailability(class), <<>>, bounded.truncated,
                    ErrorCode(class), "error")
  BY <1>2, Zenon DEF RunnerGroup
<1>4. group.outcome = "error" /\ group.items = <<>> /\ group.error = ErrorCode(class)
  BY <1>3 DEF Group
<1> QED
  BY <1>1, <1>4, ErrorCodesTell DEF Tells

\* The invariant is inductive.
LEMMA ToldInvariance == Spec => []ToldInv
<1>1. Init => ToldInv
  BY CallHasSource DEF Init, ToldInv, FailureIsTold
<1>2. ToldInv /\ [Next]_vars => ToldInv'
  <2> SUFFICES ASSUME ToldInv, [Next]_vars
               PROVE  ToldInv'
    OBVIOUS
  <2> USE DEF ToldInv
  <2>1. CASE TurnAway
    <3>1. PICK availability :
            response' = [type |-> "response", outcome |-> ResponseOutcome({"error"}),
                         group |-> UnavailableGroup(availability)]
      BY <2>1 DEF TurnAway, Respond, UnavailableGroup, Group
    <3>2. /\ response'.outcome = "error"
          /\ response'.group.items = <<>>
      BY <3>1 DEF ResponseOutcome, UnavailableGroup, Group
    <3>3. stage' = "done" /\ UNCHANGED <<request, fork>> /\ fork = Absent
      BY <2>1 DEF TurnAway
    <3> QED
      BY <3>2, <3>3 DEF FailureIsTold, Absent
  <2>2. CASE Prepare
    <3>1. stage = "called" /\ request \in AllCalls /\ fork' = fork /\ fork = Absent
      BY <2>2 DEF Prepare
    <3>2. CASE request.source # "rss"
      <4>1. stage' = "asked" /\ request' = Prepared(request)
        BY <2>2, <3>2, Zenon DEF Prepare, Ask
      <4>2. request'.source \in SourceNames
        BY <3>1, <3>2, <4>1, PreparedKeepsSource
      <4> QED
        BY <3>1, <4>1, <4>2 DEF FailureIsTold
    <3>3. CASE request.source = "rss"
      <4>1. \/ stage' = "fetching" /\ request' = request
            \/ stage' = "adapted" /\ request' = request /\ result' = Failed("policy")
        BY <2>2, <3>3, Zenon DEF Prepare, Refuse
      <4>2. stage' = "adapted" => ResultTells'
        BY <3>1, <4>1 DEF ResultTells, FailureClasses
      <4> QED
        BY <3>1, <3>3, <4>1, <4>2 DEF FailureIsTold
    <3> QED
      BY <3>2, <3>3
  <2>3. CASE FetchHop
    <3>1. stage = "fetching" /\ request.source = "rss" /\ fork' = fork /\ fork = Absent
      BY <2>3 DEF FetchHop
    <3>2. PICK lookup \in Lookups(Last(hops).host), exchange \in Exchanges :
            LET failure == FetchFailure(Last(hops), Len(hops) - 1, lookup, exchange)
            IN  \/ failure # None /\ Refuse(failure)
                \/ UNCHANGED <<stage, request, attempt, result>>
                \/ \E document \in RssDocuments :
                       LET prepared == RssPrepared(request, document)
                       IN  IF IsResult(prepared)
                           THEN Refuse(prepared.failure) ELSE Ask(prepared)
      BY <2>3, Zenon DEF FetchHop
    <3> DEFINE failure == FetchFailure(Last(hops), Len(hops) - 1, lookup, exchange)
    <3>3. failure \in FailureClasses \cup {None}
      BY FetchFailureIsClass
    <3> HIDE DEF failure
    <3>4. CASE failure # None /\ Refuse(failure)
      <4>1. stage' = "adapted" /\ request' = request /\ ResultTells'
        BY <3>1, <3>3, <3>4 DEF Refuse, ResultTells
      <4> QED
        BY <3>1, <4>1 DEF FailureIsTold
    <3>5. CASE UNCHANGED <<stage, request, attempt, result>>
      BY <3>1, <3>5 DEF FailureIsTold
    <3>6. CASE \E document \in RssDocuments :
                 LET prepared == RssPrepared(request, document)
                 IN  IF IsResult(prepared)
                     THEN Refuse(prepared.failure) ELSE Ask(prepared)
      <4>1. PICK document \in RssDocuments :
              LET prepared == RssPrepared(request, document)
              IN  IF IsResult(prepared)
                  THEN Refuse(prepared.failure) ELSE Ask(prepared)
        BY <3>6
      <4> DEFINE prepared == RssPrepared(request, document)
      <4>2. \/ prepared = RssRequest(request) \/ prepared = Failed("permanent")
        BY DEF RssPrepared
      <4> HIDE DEF prepared
      <4>3. CASE prepared = RssRequest(request)
        <5>1. ~IsResult(prepared) /\ prepared.source = "rss"
          BY <4>3 DEF IsResult, RssRequest
        <5>2. stage' = "asked" /\ request' = prepared
          BY <4>1, <5>1 DEF Ask, prepared
        <5> QED
          BY <3>1, <5>1, <5>2 DEF FailureIsTold, SourceNames
      <4>4. CASE prepared = Failed("permanent")
        <5>1. IsResult(prepared) /\ prepared.failure = "permanent"
          BY <4>4 DEF IsResult, Failed
        <5>2. stage' = "adapted" /\ request' = request /\ result' = Failed("permanent")
          BY <4>1, <5>1 DEF Refuse, prepared
        <5>3. ResultTells'
          BY <3>1, <5>2 DEF ResultTells, FailureClasses
        <5> QED
          BY <3>1, <5>2, <5>3 DEF FailureIsTold
      <4> QED
        BY <4>2, <4>3, <4>4
    <3> QED
      BY <3>2, <3>4, <3>5, <3>6 DEF failure
  <2>4. CASE WorkerAnswers
    <3>1. /\ stage' = "answered" /\ request' = request
          /\ fork' \in Forks /\ frame' = Answer(fork')
      BY <2>4 DEF WorkerAnswers
    <3>2. Answer(fork') = Answer(fork)'
      BY <3>1 DEF Answer
    <3>3. fork'.type = "success" \/ fork' \in FailedForks
      BY <3>1, ForksSucceedOrFail
    <3> QED
      BY <3>1, <3>2, <3>3 DEF FailureIsTold
  <2>5. CASE WorkerBreaks
    <3>1. /\ stage' = "answered" /\ request' = request
          /\ fork' = fork /\ fork = Absent
          /\ \E how \in Breakings : frame' = Broken(how)
      BY <2>5 DEF WorkerBreaks, Breakings
    <3> QED
      BY <3>1 DEF FailureIsTold
  <2>6. CASE AskAgain
    BY <2>6 DEF AskAgain, FailureIsTold
  <2>7. CASE Receive
    <3>1. /\ stage = "answered" /\ stage' = "adapted"
          /\ UNCHANGED <<request, fork, frame>>
          /\ result' = AdaptedFrom(Decoded)
      BY <2>7 DEF Receive
    <3>2. CASE fork = Absent /\ \E how \in Breakings : frame = Broken(how)
      <4>1. ResultTells'
        BY <3>1, <3>2, BrokenWorkerIsTold DEF ResultTells
      <4> QED
        BY <3>1, <4>1 DEF FailureIsTold
    <3>3. CASE fork.type = "success"
      BY <3>1, <3>3 DEF FailureIsTold
    <3>4. CASE fork \in FailedForks /\ frame = Answer(fork)
      <4>1. PICK class : /\ AdaptedFrom(Decoded) = Failed(class)
                         /\ Tells(fork, request.source = "rss", class)
        BY <3>4, FailedForkIsTold
      <4>2. class \in FailureClasses
        BY <4>1 DEF Tells
      <4>3. ResultTells'
        BY <3>1, <3>4, <4>1, <4>2 DEF ResultTells
      <4> QED
        BY <3>1, <4>3 DEF FailureIsTold
    <3> QED
      BY <3>1, <3>2, <3>3, <3>4
  <2>8. CASE Bound
    <3>1. stage = "adapted" /\ stage' = "done" /\ UNCHANGED <<request, fork>>
      BY <2>8 DEF Bound
    <3>2. CASE fork.type = "success"
      BY <3>1, <3>2 DEF FailureIsTold, Absent
    <3>3. CASE ResultTells
      <4>1. result'.failure = result.failure
        BY <2>8, <3>3 DEF Bound, ResultTells, Failed
      <4> DEFINE group == RunnerGroup(result')
      <4>2. /\ response'.group = group
            /\ response'.outcome = ResponseOutcome({group.outcome})
        BY <2>8 DEF Bound, Respond
      <4>3. /\ group.outcome = "error" /\ group.items = <<>>
            /\ fork # Absent /\ fork.type = "failure" /\ fork.identity =>
                   /\ fork.code = "transient" /\ request.source # "rss" =>
                          group.error = "source_temporarily_unavailable"
                   /\ fork.code \in {"permanent", "rate_limit", UnknownCode} =>
                          group.error # "source_temporarily_unavailable"
        BY <3>3, <4>1, ResponseTells
      <4> HIDE DEF group
      <4>4. response'.outcome = "error"
        BY <4>2, <4>3 DEF ResponseOutcome
      <4> QED
        BY <3>1, <4>2, <4>3, <4>4 DEF FailureIsTold
    <3> QED
      BY <3>1, <3>2, <3>3
  <2>9. CASE Finished \/ UNCHANGED vars
    BY <2>9 DEF Finished, vars, FailureIsTold, ResultTells, Answer
  <2> QED
    BY <2>1, <2>2, <2>3, <2>4, <2>5, <2>6, <2>7, <2>8, <2>9 DEF Next
<1> QED
  BY <1>1, <1>2, PTL DEF Spec

\* Whatever source is called and however its worker or its fork fails, the call
\* ends as an error without items, a transient failure under the code that says so
\* and a lasting one under another: the worker, the parent, the adapter, the runner
\* and the dispatcher, each of which translates the code once.
THEOREM FailureReachesCaller == Spec => []FailureIsTold
<1>1. ToldInv => FailureIsTold
  BY DEF ToldInv
<1> QED
  BY <1>1, ToldInvariance, PTL
=============================================================================
