------------------------ MODULE ConnectorAuthority ------------------------
(***************************************************************************)
(* The trusted device's grant authority: the durable tables of             *)
(* AuthorityStore (connector/store.py), the GrantAuthority that serializes *)
(* every change to them (connector/authority.py), and the handlers of      *)
(* ConnectorService that carry one signed request each from the socket to  *)
(* a signed receipt (connector/service.py, connector/execution.py).        *)
(*                                                                         *)
(* A handler is not atomic.  It verifies the request outside the authority *)
(* mutex, claims a use inside it, awaits the executor, reads the wall      *)
(* clock again, signs the receipt and only then marks its claim complete;  *)
(* any other handler, an owner command, a clock adjustment or a crash may  *)
(* come between two of these.  Each SQLite transaction is one step: the    *)
(* store runs every one under BEGIN IMMEDIATE and rolls it back whole.     *)
(*                                                                         *)
(* approve_pairing creates a device, its key and its only grant lineage    *)
(* together, and nothing else creates any of the three, so one identifier  *)
(* stands for the device, its key_id and its grant_id.                     *)
(***************************************************************************)
EXTENDS Naturals, FiniteSets

CONSTANTS
    Devices,          \* paired VPS identities, and their grant lineages
    RequestIds,       \* request identifiers, which a VPS picks itself
    Requests,         \* the signed requests VPSs may send, any number of times
    Handlers,         \* connections the service can be handling at once
    Operations,       \* (source, operation, data scope, capability) scopes
    Bound,            \* the operations the device composed an executor for
    Terms,            \* what an owner may approve: uses, lifetime and scopes
    Revocable,        \* the devices an owner may come to revoke
    MaxRequestTtl,    \* limits.MAX_REQUEST_TTL_SECONDS
    MaxClockSkew,     \* limits.MAX_CLOCK_SKEW_SECONDS
    AuditRetention,   \* limits.AUDIT_RETENTION_SECONDS
    MaxBackStep,      \* how far wall-clock corrections ever take the clock back
    MaxOverrun,       \* how long past its deadline a handler can stay in flight
    MaxClock, MaxRevision, MaxPolicy,   \* bounds on the counters
    NoRequest, NoExecution

\* protocol.SignedRequest, reduced to what the authority reads.
SignedRequest ==
    [id : RequestIds, subject_key_id : Devices, grant_id : Devices,
     grant_revision : Nat, policy_revision : Nat, operation : Operations,
     issued_at : Nat, deadline : Nat]

ASSUME RequestAssumption ==
    /\ Requests \subseteq SignedRequest
    /\ \A r \in Requests : /\ r.issued_at < r.deadline
                           /\ r.deadline <= r.issued_at + MaxRequestTtl
    /\ NoRequest \notin Requests

\* One use of one grant revision, spent on one request: what an
\* AuthorizedExecution carries to the executor.
Execution ==
    [request : Requests, device : Devices, revision : Nat,
     use_sequence : Nat, max_uses : Nat]

ASSUME ExecutionAssumption == NoExecution \notin Execution

ASSUME TermsAssumption ==
    /\ Terms \subseteq [max_uses : Nat \ {0}, lifetime : Nat \ {0},
                        scopes : SUBSET Operations]
    /\ Bound \subseteq Operations

\* 60 + 30 seconds against 30 days in limits.py, which leaves almost all of the
\* retention period to the clock corrections a host may make.
ASSUME TimeAssumption ==
    /\ {MaxRequestTtl, MaxClockSkew, AuditRetention, MaxBackStep, MaxOverrun,
        MaxClock, MaxRevision, MaxPolicy} \subseteq Nat
    /\ MaxRequestTtl + MaxClockSkew + MaxBackStep <= AuditRetention

VARIABLES
    \* durable, in authority.sqlite3
    grant,            \* the current revision of each lineage; revision 0: unpaired
    device_revoked,   \* devices.revoked_at is set
    grant_revoked,    \* grant_lineages.revoked_at is set
    policy,           \* the current policy revision
    request_claims,   \* the request_claims row of each request_id, if any
    \* in memory
    signer,           \* whether GrantAuthority holds the unlocked signing key
    handler,          \* what each connection handler is doing
    \* environment
    clock,            \* the wall clock
    high,             \* its high-water mark
    \* history, read by properties only
    handoffs,         \* every execution ever handed to the executor
    refused,          \* requests for which a denial row was ever committed
    receipts          \* every receipt ever signed

durable == <<grant, device_revoked, grant_revoked, policy, request_claims>>
time    == <<clock, high>>
history == <<handoffs, refused, receipts>>
vars    == <<durable, signer, handler, time, history>>

-----------------------------------------------------------------------------
Later(a, b) == IF a >= b THEN a ELSE b

Unpaired ==
    [revision |-> 0, policy |-> 0, not_before |-> 0, expires_at |-> 0,
     max_uses |-> 0, used_count |-> 0, scopes |-> {}]

NoClaim == [decision |-> "none", claimed_at |-> 0, completed |-> FALSE]

Idle ==
    [pc |-> "idle", request |-> NoRequest, now |-> 0,
     execution |-> NoExecution, failure |-> "none", ended_at |-> 0]

Init ==
    /\ grant = [d \in Devices |-> Unpaired]
    /\ device_revoked = {}
    /\ grant_revoked = {}
    /\ policy = 1
    /\ request_claims = [id \in RequestIds |-> NoClaim]
    /\ signer = FALSE
    /\ handler = [h \in Handlers |-> Idle]
    /\ clock = 0
    /\ high = 0
    /\ handoffs = {}
    /\ refused = {}
    /\ receipts = {}

Paired(d) == grant[d].revision > 0

\* A revision as _insert_grant writes it: unused, valid from now on.
FreshGrant(revision, t) ==
    [revision |-> revision, policy |-> policy, not_before |-> clock,
     expires_at |-> clock + t.lifetime, max_uses |-> t.max_uses,
     used_count |-> 0, scopes |-> t.scopes]

-----------------------------------------------------------------------------
(* Owner operations.  Each runs under the authority mutex.                 *)

\* AuthorityStore.approve_pairing, for an owner who confirms the terms t.
\* device_keys.key_id is UNIQUE: an identity pairs once.
ApprovePairing(d, t) ==
    /\ signer
    /\ ~Paired(d)
    /\ grant' = [grant EXCEPT ![d] = FreshGrant(1, t)]
    /\ UNCHANGED <<device_revoked, grant_revoked, policy, request_claims,
                   signer, handler, time, history>>

\* Mutant: the current revision is renewed in place, its counter back at zero.
ReplaceGrant_RenewsInPlace(d, t) ==
    /\ Paired(d)
    /\ d \notin grant_revoked \cup device_revoked
    /\ grant' = [grant EXCEPT ![d] = FreshGrant(@.revision, t)]
    /\ UNCHANGED <<device_revoked, grant_revoked, policy, request_claims,
                   signer, handler, time, history>>

\* AuthorityStore.replace_grant: supersede the current revision.
ReplaceGrant(d, t) ==
    /\ Paired(d)
    /\ d \notin grant_revoked
    /\ d \notin device_revoked
    /\ grant[d].revision < MaxRevision
    /\ grant' = [grant EXCEPT ![d] = FreshGrant(@.revision + 1, t)]
    /\ UNCHANGED <<device_revoked, grant_revoked, policy, request_claims,
                   signer, handler, time, history>>

RevokeDevice(d) ==
    /\ Paired(d)
    /\ d \in Revocable
    /\ device_revoked' = device_revoked \cup {d}
    /\ UNCHANGED <<grant, grant_revoked, policy, request_claims,
                   signer, handler, time, history>>

RevokeGrant(d) ==
    /\ Paired(d)
    /\ d \in Revocable
    /\ grant_revoked' = grant_revoked \cup {d}
    /\ UNCHANGED <<grant, device_revoked, policy, request_claims,
                   signer, handler, time, history>>

AdvancePolicyRevision ==
    /\ policy < MaxPolicy
    /\ policy' = policy + 1
    /\ UNCHANGED <<grant, device_revoked, grant_revoked, request_claims,
                   signer, handler, time, history>>

\* Mutant: the retention period is not respected.
Cleanup_DropsYoungClaims ==
    /\ request_claims' =
         [id \in RequestIds |-> IF request_claims[id].claimed_at < clock
                                THEN NoClaim ELSE request_claims[id]]
    /\ UNCHANGED <<grant, device_revoked, grant_revoked, policy,
                   signer, handler, time, history>>

\* AuthorityStore.cleanup: claims older than the retention period go, and with
\* them the only record that would refuse a replay.
Cleanup ==
    /\ request_claims' =
         [id \in RequestIds |-> IF request_claims[id].claimed_at + AuditRetention < clock
                                THEN NoClaim ELSE request_claims[id]]
    /\ UNCHANGED <<grant, device_revoked, grant_revoked, policy,
                   signer, handler, time, history>>

\* GrantAuthority._activate_from_service and GrantAuthority.lock.
Activate ==
    /\ ~signer
    /\ signer' = TRUE
    /\ UNCHANGED <<durable, handler, time, history>>

Lock ==
    /\ signer
    /\ signer' = FALSE
    /\ UNCHANGED <<durable, handler, time, history>>

-----------------------------------------------------------------------------
(* Claiming.  Refusal lists the checks of AuthorityStore.claim in order;   *)
(* "none" means that the conditional UPDATE spends a use.                  *)

\* Mutant: one use more than the owner approved.
Exhausted_OneMore(g) == g.used_count > g.max_uses

\* The conditional UPDATE of AuthorityStore.claim finds no use left.
Exhausted(g) == g.used_count >= g.max_uses

\* Mutant: what verification saw is trusted, live authority is not read again.
Refusal_TrustsVerification(r, t) ==
    LET g == grant[r.grant_id]
    IN  IF request_claims[r.id].decision # "none" THEN "request_replayed"
        ELSE IF Exhausted(g) THEN "grant_limit_exhausted"
        ELSE "none"

Refusal(r, t) ==
    LET g == grant[r.grant_id]
    IN  IF request_claims[r.id].decision # "none" THEN "request_replayed"
        ELSE IF r.subject_key_id \in device_revoked THEN "device_revoked"
        ELSE IF t + MaxClockSkew < r.issued_at \/ t >= r.deadline
             THEN "connector_deadline_exceeded"
        ELSE IF ~Paired(r.grant_id) \/ r.grant_id # r.subject_key_id
             THEN "grant_required"
        ELSE IF r.grant_id \in grant_revoked THEN "grant_revoked"
        ELSE IF g.revision # r.grant_revision THEN "grant_superseded"
        ELSE IF t < g.not_before \/ t >= g.expires_at THEN "grant_expired"
        ELSE IF r.policy_revision # policy \/ g.policy # policy
             THEN "policy_revision_stale"
        ELSE IF r.operation \notin g.scopes THEN "grant_scope_denied"
        ELSE IF Exhausted(g) THEN "grant_limit_exhausted"
        ELSE "none"

\* Mutant: a denial is answered and not committed.
RecordDenial_NotCommitted(r, t) == UNCHANGED <<request_claims, refused>>

\* AuthorityStore._deny_claim: the denial is committed, so it is final.  A
\* replay is refused without a row of its own.
RecordDenial(r, t) ==
    IF request_claims[r.id].decision # "none"
    THEN UNCHANGED <<request_claims, refused>>
    ELSE /\ request_claims' = [request_claims EXCEPT ![r.id] =
                [decision |-> "deny", claimed_at |-> t, completed |-> FALSE]]
         /\ refused' = refused \cup {r}

\* Mutant: the counter is read before the UPDATE.
ExecutionOf_StaleCounter(r) ==
    LET g == grant[r.grant_id]
    IN  [request |-> r, device |-> r.grant_id, revision |-> g.revision,
         use_sequence |-> g.used_count, max_uses |-> g.max_uses]

\* The execution that a claim of r pays for.
ExecutionOf(r) ==
    LET g == grant[r.grant_id]
    IN  [request |-> r, device |-> r.grant_id, revision |-> g.revision,
         use_sequence |-> g.used_count + 1, max_uses |-> g.max_uses]

-----------------------------------------------------------------------------
(* One connection handler: ConnectorService._handle_operation.             *)

\* A VPS signs with a grant and a policy revision it was given.
Signable(r) ==
    /\ r.grant_revision <= grant[r.grant_id].revision
    /\ r.policy_revision <= policy

\* A request, or a second copy of it, reaches the service and passes
\* verify_signed_request outside the mutex.  One that fails a check gets an
\* ErrorFrame and changes nothing.
Receive(h, r) ==
    /\ handler[h] = Idle
    /\ Signable(r)
    /\ signer
    /\ Paired(r.subject_key_id)
    /\ clock + MaxClockSkew >= r.issued_at
    /\ clock < r.deadline
    /\ handler' = [handler EXCEPT ![h] =
                      [Idle EXCEPT !.pc = "verified", !.request = r, !.now = clock]]
    /\ UNCHANGED <<durable, signer, time, history>>

ClaimTime(h) == Later(handler[h].now, clock)

\* Mutant: a handler that finds the authority locked waits for it instead.
AuthorizeLocked_Waits(h) ==
    /\ handler[h].pc = "verified"
    /\ ~signer /\ signer
    /\ UNCHANGED vars

\* The signer went away while the handler waited for the mutex:
\* deny_authenticated_request commits the denial and nobody signs a receipt.
AuthorizeLocked(h) ==
    /\ handler[h].pc = "verified"
    /\ ~signer
    /\ RecordDenial(handler[h].request, ClaimTime(h))
    /\ handler' = [handler EXCEPT ![h] = Idle]
    /\ UNCHANGED <<grant, device_revoked, grant_revoked, policy, signer, time,
                   handoffs, receipts>>

AuthorizeDenied(h) ==
    LET r == handler[h].request
        code == Refusal(r, ClaimTime(h))
    IN  /\ handler[h].pc = "verified"
        /\ signer
        /\ code # "none"
        /\ RecordDenial(r, ClaimTime(h))
        /\ handler' = [handler EXCEPT ![h].pc = "decided", ![h].failure = code]
        /\ UNCHANGED <<grant, device_revoked, grant_revoked, policy, signer, time,
                       handoffs, receipts>>

\* The claim commits and the execution is handed off under the same mutex.
AuthorizeAccepted(h) ==
    LET r == handler[h].request
        execution == ExecutionOf(r)
    IN  /\ handler[h].pc = "verified"
        /\ signer
        /\ Refusal(r, ClaimTime(h)) = "none"
        /\ grant' = [grant EXCEPT ![r.grant_id].used_count = @ + 1]
        /\ request_claims' = [request_claims EXCEPT ![r.id] =
              [decision |-> "allow", claimed_at |-> ClaimTime(h), completed |-> FALSE]]
        /\ handoffs' = handoffs \cup {execution}
        /\ handler' = [handler EXCEPT ![h].pc = "running",
                                      ![h].execution = execution]
        /\ UNCHANGED <<device_revoked, grant_revoked, policy, signer, time,
                       refused, receipts>>

\* What PreparedConnectorExecution.execute and the deadline check after it can
\* leave as failure code; "none" is a result in time.
Outcomes(r) ==
    IF r.operation \notin Bound THEN {"backend_unbound"}
    ELSE {"execution_failed"} \cup
         (IF clock >= r.deadline THEN {"connector_deadline_exceeded"} ELSE {"none"})

Execute(h) ==
    /\ handler[h].pc = "running"
    /\ \E code \in Outcomes(handler[h].request) :
         handler' = [handler EXCEPT ![h].pc = "decided", ![h].failure = code]
    /\ UNCHANGED <<durable, signer, time, history>>

\* The peer closes, the transport times out or the service shuts down while the
\* handler awaits its executor: the claim stays as it is, without a receipt.
Cancel(h) ==
    /\ handler[h].pc = "running"
    /\ handler' = [handler EXCEPT ![h] = Idle]
    /\ UNCHANGED <<durable, signer, time, history>>

\* Mutant: the time of arrival stands in for the time of completion.
EndedAt_Arrival(h) == Later(handler[h].now, handler[h].request.issued_at)

EndedAt(h) ==
    Later(handler[h].now, Later(handler[h].request.issued_at, clock))

\* The clock is read once more for ended_at.  BoundReceiptIssuer.issue verifies
\* what it signs, and refuses to call a run successful that ended too late.
TooLateToSign(h) ==
    handler[h].failure = "none" /\ EndedAt(h) >= handler[h].request.deadline

IssueReceipt(h) ==
    LET accepted == handler[h].execution # NoExecution
    IN  /\ handler[h].pc = "decided"
        /\ ~TooLateToSign(h)
        /\ receipts' = receipts \cup {[request |-> handler[h].request,
                                       execution |-> handler[h].execution,
                                       failure |-> handler[h].failure]}
        /\ handler' = [handler EXCEPT ![h] =
              IF accepted THEN [@ EXCEPT !.pc = "issued", !.ended_at = EndedAt(h)]
                          ELSE Idle]
        /\ UNCHANGED <<durable, signer, time, handoffs, refused>>

\* ReceiptContextMismatchError leaves the handler: no receipt, no completion.
AbandonReceipt(h) ==
    /\ handler[h].pc = "decided"
    /\ TooLateToSign(h)
    /\ handler' = [handler EXCEPT ![h] = Idle]
    /\ UNCHANGED <<durable, signer, time, history>>

\* The UPDATE of AuthorityStore.complete_claim finds its row.
Completable(h) ==
    LET c == request_claims[handler[h].request.id]
    IN  /\ c.decision = "allow"
        /\ ~c.completed
        /\ c.claimed_at <= handler[h].ended_at

\* Otherwise CONNECTOR_STATE_INVALID leaves the handler and the signed receipt
\* is never sent.
CompleteClaim(h) ==
    /\ handler[h].pc = "issued"
    /\ request_claims' = IF Completable(h)
                         THEN [request_claims EXCEPT ![handler[h].request.id].completed = TRUE]
                         ELSE request_claims
    /\ handler' = [handler EXCEPT ![h] = Idle]
    /\ UNCHANGED <<grant, device_revoked, grant_revoked, policy, signer, time, history>>

-----------------------------------------------------------------------------
(* The host.                                                               *)

\* The process dies, and a new one opens the same database, locked.
Crash ==
    /\ signer' = FALSE
    /\ handler' = [h \in Handlers |-> Idle]
    /\ UNCHANGED <<durable, time, history>>

\* asyncio.timeout_at bounds an execution by the request's deadline, so no
\* handler is still in flight MaxOverrun after it.
Tick ==
    /\ clock < MaxClock
    /\ \A h \in Handlers :
         handler[h].pc # "idle" => clock < handler[h].request.deadline + MaxOverrun
    /\ clock' = clock + 1
    /\ high' = Later(high, clock + 1)
    /\ UNCHANGED <<durable, signer, handler, history>>

\* time.time() follows the host's clock, which may be set back.
StepBack ==
    /\ clock > 0
    /\ high < clock + MaxBackStep
    /\ clock' = clock - 1
    /\ UNCHANGED <<durable, signer, handler, high, history>>

-----------------------------------------------------------------------------
Owner ==
    \/ \E d \in Devices : \/ \E t \in Terms : ApprovePairing(d, t) \/ ReplaceGrant(d, t)
                          \/ RevokeDevice(d)
                          \/ RevokeGrant(d)
    \/ AdvancePolicyRevision
    \/ Cleanup
    \/ Activate
    \/ Lock

Proceed(h) ==
    \/ AuthorizeLocked(h)
    \/ AuthorizeDenied(h)
    \/ AuthorizeAccepted(h)
    \/ Execute(h)
    \/ IssueReceipt(h)
    \/ AbandonReceipt(h)
    \/ CompleteClaim(h)

Next ==
    \/ Owner
    \/ \E h \in Handlers : \/ \E r \in Requests : Receive(h, r)
                           \/ Proceed(h)
                           \/ Cancel(h)
    \/ Crash
    \/ Tick
    \/ StepBack

Spec == Init /\ [][Next]_vars

\* The event loop runs every handler on, and the execution timeout ends every
\* run; nothing obliges an owner, a VPS or the clock to move.
FairSpec == Spec /\ \A h \in Handlers : WF_vars(Proceed(h))

-----------------------------------------------------------------------------
(* Properties.                                                             *)

Codes ==
    {"none", "request_replayed", "device_revoked", "connector_deadline_exceeded",
     "grant_required", "grant_revoked", "grant_superseded", "grant_expired",
     "policy_revision_stale", "grant_scope_denied", "grant_limit_exhausted",
     "backend_unbound", "execution_failed"}

GrantRecord ==
    [revision : Nat, policy : Nat, not_before : Nat, expires_at : Nat,
     max_uses : Nat, used_count : Nat, scopes : SUBSET Operations]

ClaimRecord ==
    [decision : {"none", "allow", "deny"}, claimed_at : Nat, completed : BOOLEAN]

HandlerRecord ==
    [pc : {"idle", "verified", "running", "decided", "issued"},
     request : Requests \cup {NoRequest}, now : Nat,
     execution : Execution \cup {NoExecution}, failure : Codes, ended_at : Nat]

Receipt ==
    [request : Requests, execution : Execution \cup {NoExecution}, failure : Codes]

\* Every variable keeps its type, the CHECK constraint of grant_revisions holds,
\* a handler that is not idle holds a request, and the wall clock stays within
\* MaxBackStep of its high-water mark.
TypeOK ==
    /\ grant \in [Devices -> GrantRecord]
    /\ \A d \in Devices : grant[d].used_count <= grant[d].max_uses
    /\ device_revoked \subseteq Devices
    /\ grant_revoked \subseteq Devices
    /\ policy \in Nat
    /\ request_claims \in [RequestIds -> ClaimRecord]
    /\ signer \in BOOLEAN
    /\ handler \in [Handlers -> HandlerRecord]
    /\ \A h \in Handlers : handler[h].pc # "idle" => handler[h].request \in Requests
    /\ clock \in Nat
    /\ high \in Nat
    /\ clock <= high
    /\ high <= clock + MaxBackStep
    /\ handoffs \subseteq Execution
    /\ refused \subseteq Requests
    /\ receipts \subseteq Receipt

\* A signed request reaches an executor at most once, however many copies of it
\* arrive, race each other, are retried after a crash, or come back after
\* cleanup has dropped the claim row that remembers them.
ExecutedAtMostOnce ==
    \A x, y \in handoffs : x.request = y.request => x = y

\* The counter of a grant revision and the executions it paid for agree: the
\* current revision's executions are numbered 1 to used_count without a gap or a
\* duplicate, and no revision, current or superseded, pays beyond its max_uses.
UsesAreMetered ==
    /\ \A d \in Devices :
         {x.use_sequence : x \in {y \in handoffs : /\ y.device = d
                                                   /\ y.revision = grant[d].revision}}
            = 1 .. grant[d].used_count
    /\ \A x \in handoffs : x.use_sequence \in 1 .. x.max_uses
    /\ \A x, y \in handoffs :
         /\ x.device = y.device
         /\ x.revision = y.revision
         /\ x.use_sequence = y.use_sequence
         => x = y

\* Every receipt states what the authority durably committed: an accepted one
\* the very use that was spent, a denied one a refusal of that request that is
\* on record, unless it only says that the request was seen before; and a use
\* is never vouched for twice with different outcomes.
ReceiptsMatchCommits ==
    /\ \A p \in receipts :
         IF p.execution # NoExecution
         THEN p.execution \in handoffs /\ p.execution.request = p.request
         ELSE /\ p.failure # "none"
              /\ p.failure = "request_replayed" \/ p.request \in refused
    /\ \A p, q \in receipts :
         p.execution = q.execution /\ p.execution # NoExecution => p = q

\* A claim is marked complete only when its receipt has been signed.
CompletionFollowsReceipt ==
    \A id \in RequestIds :
        request_claims[id].completed =>
            \E p \in receipts : p.request.id = id /\ p.execution # NoExecution

\* A handler that verified its request before a revocation, a replacement, a
\* policy change, a lock or the deadline, and reaches the mutex after it, hands
\* nothing to the executor; and a request once refused never runs, even when the
\* cause of the refusal has gone away.
HandoffNeedsLiveAuthority ==
    [][\A x \in handoffs' \ handoffs :
         LET r == x.request
             g == grant[x.device]
         IN  /\ signer
             /\ r \notin refused
             /\ r.subject_key_id = x.device
             /\ x.device \notin device_revoked \cup grant_revoked
             /\ x.revision = g.revision
             /\ r.grant_revision = g.revision
             /\ r.policy_revision = policy
             /\ g.policy = policy
             /\ r.operation \in g.scopes
             /\ clock < r.deadline
             /\ clock < g.expires_at]_vars

\* Nothing, not a crash and not a cleanup either, brings back an older
\* revocation flag, grant revision, use counter or policy revision.
AuthorityNeverRevives ==
    [][/\ device_revoked \subseteq device_revoked'
       /\ grant_revoked \subseteq grant_revoked'
       /\ policy <= policy'
       /\ \A d \in Devices :
            \/ grant'[d].revision > grant[d].revision
            \/ /\ grant'[d].revision = grant[d].revision
               /\ grant'[d].used_count >= grant[d].used_count
               /\ [grant'[d] EXCEPT !.used_count = 0] = [grant[d] EXCEPT !.used_count = 0]
       ]_vars

\* While the wall clock never steps back, complete_claim always finds the row
\* its handler claimed: no signed receipt is withheld from its VPS.
CompletionNeverRefused ==
    \A h \in Handlers : handler[h].pc = "issued" => Completable(h)

\* Every handler comes back to its connection.
EveryRequestSettles ==
    \A h \in Handlers : handler[h].pc = "verified" ~> handler[h].pc = "idle"

\* docs/connector-security.md allows an accepted use to end without a receipt
\* only by a crash: a handler whose execution has ended signs its receipt.
EndedExecutionGetsReceipt ==
    [][\A h \in Handlers :
         (/\ handler[h].pc = "decided"
          /\ handler[h].execution # NoExecution
          /\ handler'[h].pc = "idle") => Crash]_vars

-----------------------------------------------------------------------------
(* The authority implements the abstract promise.                          *)

Settled(r) ==
    IF \E x \in handoffs : x.request = r THEN "spent"
    ELSE IF r \in refused THEN "refused" ELSE "fresh"

Metered == INSTANCE MeteredExecution WITH
    Requests   <- Requests,
    Grants     <- Devices,
    GrantOf    <- [r \in Requests |-> r.grant_id],
    settled    <- [r \in Requests |-> Settled(r)],
    budget     <- [d \in Devices |-> grant[d].max_uses - grant[d].used_count],
    live       <- {d \in Devices : /\ Paired(d)
                                   /\ d \notin device_revoked \cup grant_revoked
                                   /\ grant[d].policy = policy},
    revoked    <- device_revoked \cup grant_revoked

\* Every behaviour of the authority, its clock corrections, crashes and
\* duplicated requests included, is one of the abstract metered execution.
ImplementsMeteredExecution == Metered!Spec
=============================================================================
