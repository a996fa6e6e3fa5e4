---------------------------- MODULE YoutubeSource ----------------------------
(***************************************************************************)
(* The YouTube source. The worker compares a video and a subtitle track    *)
(* with the video that was asked for, and the parent compares them again.  *)
(* Of a title the worker asks that it is not empty, the parent that there  *)
(* is something in it: a blank one passes the first and not the second.    *)
(***************************************************************************)
EXTENDS SourceResults

\* An item, and whether its title is only white space.
YoutubeItem(schema, id, blank) ==
    [schema |-> schema, id |-> id, ok |-> TRUE, blank |-> blank]
YoutubeMalformed == [schema |-> "video", id |-> 1, ok |-> FALSE, blank |-> FALSE]

YoutubeCalls ==
         [source : {"youtube"}, op : {"search.videos"}, limit : Limits]
    \cup [source : {"youtube"}, op : {"read.video", "read.subtitles"}, video : {1, 2}]

\* _YouTubeAdapter.execute and encode_request.
YoutubeRequest(call) ==
    IF call.op = "search.videos"
    THEN [call EXCEPT !.limit = LimitOr(@, MaximumItems)]
    ELSE call

YoutubeSchema(request) == IF request.op = "read.subtitles" THEN "subtitle" ELSE "video"

\* _FORK_ERROR_CODES, and the codes of the worker's own envelope.
YoutubeForkCodes ==
    SharedErrorCodes \cup {"invalid_input", "not_found", "authentication",
                           "authorization", "rate_limit", "transient"}
YoutubeTranslated(code) ==
    CASE code \in {"backend_unavailable", "backend_incompatible"} -> "setup_required"
      [] code \in {"not_found", "authentication", "authorization",
                   "rate_limit", "transient"} -> code
      [] OTHER -> "permanent"
YoutubeErrorCodes ==
    {"setup_required", "not_found", "authentication", "authorization",
     "rate_limit", "transient", "permanent"}

\* _fork_success_response: what the worker lets through.
YoutubeWorkerAccepts(request, fork) ==
    /\ fork.identity
    /\ fork.partial = None
    /\ OfSchema(fork.items, YoutubeSchema(request))
    /\ AllDecode(fork.items)
    /\ IF request.op = "search.videos"
       THEN Len(fork.items) <= request.limit /\ Distinct(fork.items)
       ELSE Len(fork.items) = 1 /\ fork.items[1].id = request.video

\* _execute_request and main: a search has no word of truncation in its
\* envelope, and an envelope that does not fit is replaced.
YoutubeWorker(request, fork) ==
    IF fork.type = "success" /\ YoutubeWorkerAccepts(request, fork)
    THEN IF fork.fits
         THEN Success(fork.items, None,
                      fork.truncated /\ request.op # "search.videos")
         ELSE Failure("permanent")
    ELSE IF fork.type = "failure" /\ fork.identity /\ fork.code \in YoutubeForkCodes
    THEN Failure(YoutubeTranslated(fork.code))
    ELSE Failure("permanent")

\* _required_text, of the parent: of a title that is only white space nothing is
\* left. The one video of read.video is read by the worker's own rules instead.
TitlesAreRead(request, items) ==
    request.op = "read.video" \/ \A i \in DOMAIN items : ~items[i].blank

\* decode_response and _project_envelope, in the parent.
YoutubeDecode(request, frame) ==
    IF \/ /\ frame.type = "success"
          /\ OfSchema(frame.items, YoutubeSchema(request))
          /\ AllDecode(frame.items) /\ TitlesAreRead(request, frame.items)
          /\ IF request.op = "search.videos"
             THEN Len(frame.items) <= request.limit
             ELSE Len(frame.items) = 1 /\ frame.items[1].id = request.video
       \/ frame.type = "failure" /\ frame.code \in YoutubeErrorCodes
    THEN frame
    ELSE Refused

\* The parent's execute, where no frame is there to decode.
YoutubeBroken(how) ==
    Raised(IF how \in {"oversized", "garbled"} THEN "permanent" ELSE "transient")

YoutubeFailureClass(code) == IF code = "setup_required" THEN "permanent" ELSE code

\* ProductionYouTubeClient._execute, _result and _subtitle_result.
YoutubeAdapted(request, decoded) ==
    CASE decoded.type = "success" ->
           IF request.op = "read.subtitles" /\ decoded.items = <<>>
           THEN Failed("not_found")
           ELSE Succeeded(decoded.items, None, decoded.truncated, "permanent")
      [] decoded.type = "failure" -> Failed(YoutubeFailureClass(decoded.code))
      [] decoded.type = "raised" -> Failed(decoded.class)
      [] OTHER -> Failed("permanent")

\* What the fork may return.
YoutubeForkLists(request) ==
    ForkLists({YoutubeItem("video", 1, FALSE), YoutubeItem("video", 2, FALSE),
               YoutubeItem("video", 1, TRUE), YoutubeItem("subtitle", 1, FALSE),
               YoutubeItem("subtitle", 1, TRUE), YoutubeMalformed},
              IF request.op = "search.videos" THEN request.limit ELSE 1)
=============================================================================
