----------------------------- MODULE PublicFetch -----------------------------
(***************************************************************************)
(* PublicHttpTransport: one request per hop, each of a URL that was        *)
(* normalized, to one address of those its host resolved to. A URL keeps   *)
(* its scheme, the kind of its host and whether the rest of it is accepted *)
(* (length, characters, fragment, userinfo, port). A hop is what name      *)
(* resolution answered and what came over the pinned connection.           *)
(***************************************************************************)
EXTENDS SourceResults

CONSTANT MaxRedirects       \* MAX_REDIRECTS

ASSUME MaxRedirectsAssumption == MaxRedirects \in Nat

\* "local": localhost, a name under .local, or an address that is not public.
Urls == [scheme : {"http", "https", "ftp"}, host : {"name", "address", "local"},
         plain : BOOLEAN]

\* _normalize_url; every other URL is refused, as "policy".
Normalized(url) == url.plain /\ url.scheme # "ftp" /\ url.host # "local"

\* _resolve. An address stands for itself, without a lookup.
Lookups(host) ==
    IF host = "address"
    THEN {[failure |-> None, addresses |-> {"public"}]}
    ELSE [failure : {None}, addresses : SUBSET {"public", "private", "garbled"}]
         \cup [failure : {"transient", "not_found"}, addresses : {{}}]

\* _select_public_address: one address that is not public refuses them all.
LookupFailure(lookup) ==
    IF lookup.failure # None THEN lookup.failure
    ELSE IF lookup.addresses = {} THEN "not_found"
    ELSE IF lookup.addresses = {"public"} THEN None
    ELSE "policy"

\* Where a redirect leads, the URL of the hop it is met at being the base.
Locations ==
    [type : {"missing", "malformed", "relative"}] \cup [type : {"absolute"}, url : Urls]

\* What comes over the connection: an error of time, network or protocol
\* ("transient"), any other ("permanent"), or a response: whether its headers are
\* accepted, its body is within the bound and its type can be read, and whether
\* the connection could be closed after it.
RedirectStatuses == {301, 302, 303, 307, 308}
Statuses == {200, 302, 304, 400, 401, 403, 404, 408, 429, 500}
Exchanges ==
    [type : {"failure"}, class : {"transient", "permanent"}]
    \cup [type : {"response"}, status : Statuses \ RedirectStatuses,
          framed : BOOLEAN, fits : BOOLEAN, typed : BOOLEAN, closed : BOOLEAN]
    \cup [type : {"redirect"}, status : Statuses \cap RedirectStatuses,
          framed : BOOLEAN, closed : BOOLEAN, location : Locations]

\* _request_hop: the body of a redirect is not read, and a failure to close the
\* connection is told only when nothing else failed.
HopFailure(exchange) ==
    IF exchange.type = "failure" THEN exchange.class
    ELSE IF ~exchange.framed THEN "permanent"
    ELSE IF exchange.type = "response" /\ ~exchange.fits THEN "permanent"
    ELSE IF ~exchange.closed THEN "transient"
    ELSE None

\* _raise_for_status.
StatusFailure(status) ==
    CASE status \in 200..299 -> None
      [] status \in {404, 410} -> "not_found"
      [] status \in {408, 425} \cup 500..599 -> "transient"
      [] status = 401 -> "authentication"
      [] status = 403 -> "authorization"
      [] status = 429 -> "rate_limit"
      [] status \in {400, 422} -> "invalid_input"
      [] OTHER -> "permanent"

\* urljoin: a relative reference keeps scheme and host.
Joined(url, location) == IF location.type = "relative" THEN url ELSE location.url

\* Mutant: a redirect may leave https.
RedirectFailure_Downgrades(url, redirects, location) ==
    IF redirects >= MaxRedirects \/ location.type = "missing" THEN "permanent"
    ELSE IF location.type = "malformed" \/ ~Normalized(Joined(url, location)) THEN "policy"
    ELSE None

\* get, on a redirect, when redirects were followed before it.
RedirectFailure(url, redirects, location) ==
    IF redirects >= MaxRedirects \/ location.type = "missing" THEN "permanent"
    ELSE IF \/ location.type = "malformed"
            \/ ~Normalized(Joined(url, location))
            \/ url.scheme = "https" /\ Joined(url, location).scheme # "https"
         THEN "policy"
    ELSE None

\* get, on one hop of a fetch: the failure that ends it, None when there is none.
FetchFailure(url, redirects, lookup, exchange) ==
    LET failures ==
            <<LookupFailure(lookup),
              IF LookupFailure(lookup) = None THEN HopFailure(exchange) ELSE None,
              CASE exchange.type = "redirect" ->
                       RedirectFailure(url, redirects, exchange.location)
                [] exchange.type = "response" ->
                       IF StatusFailure(exchange.status) = None /\ ~exchange.typed
                       THEN "permanent" ELSE StatusFailure(exchange.status)
                [] OTHER -> None>>
        told == {i \in DOMAIN failures : failures[i] # None}
    IN  IF told = {} THEN None ELSE failures[Min(told)]
=============================================================================
