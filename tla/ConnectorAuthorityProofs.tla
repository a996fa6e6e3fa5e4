--------------------- MODULE ConnectorAuthorityProofs ---------------------
(***************************************************************************)
(* Theorems about ConnectorAuthority, for every set of devices, requests   *)
(* and handlers and every value of the limits that satisfies TimeAssumption.*)
(***************************************************************************)
EXTENDS ConnectorAuthority, TLAPS

-----------------------------------------------------------------------------
(* Types.                                                                  *)

\* Every clause of claim's refusal list that a proof needs is false when it
\* answers "none".
LEMMA RefusalNone ==
    ASSUME NEW r \in Requests, NEW t \in Nat, Refusal(r, t) = "none"
    PROVE  /\ request_claims[r.id].decision = "none"
           /\ r.subject_key_id \notin device_revoked
           /\ ~(t + MaxClockSkew < r.issued_at)
           /\ ~(t >= r.deadline)
           /\ Paired(r.grant_id)
           /\ r.grant_id = r.subject_key_id
           /\ r.grant_id \notin grant_revoked
           /\ grant[r.grant_id].revision = r.grant_revision
           /\ ~(t < grant[r.grant_id].not_before)
           /\ ~(t >= grant[r.grant_id].expires_at)
           /\ r.policy_revision = policy
           /\ grant[r.grant_id].policy = policy
           /\ r.operation \in grant[r.grant_id].scopes
           /\ ~(grant[r.grant_id].used_count >= grant[r.grant_id].max_uses)
  BY DEF Refusal, Exhausted

\* An idle handler is well-typed, and so is every value a handler step writes.
LEMMA IdleType == Idle \in HandlerRecord
  BY DEF Idle, HandlerRecord, Codes

LEMMA VerifiedType ==
    ASSUME NEW r \in Requests, NEW t \in Nat
    PROVE  [Idle EXCEPT !.pc = "verified", !.request = r, !.now = t] \in HandlerRecord
  BY IdleType DEF HandlerRecord

LEMMA RefusalType ==
    ASSUME NEW r \in Requests, NEW t \in Nat
    PROVE  Refusal(r, t) \in Codes
  BY DEF Refusal, Codes

LEMMA RecordDenialType ==
    ASSUME NEW r \in Requests, NEW t \in Nat, TypeOK, RecordDenial(r, t)
    PROVE  /\ request_claims' \in [RequestIds -> ClaimRecord]
           /\ refused' \subseteq Requests
<1>1. CASE request_claims[r.id].decision # "none"
  BY <1>1 DEF RecordDenial, TypeOK
<1>2. CASE request_claims[r.id].decision = "none"
  <2> DEFINE c == [decision |-> "deny", claimed_at |-> t, completed |-> FALSE]
  <2>1. c \in ClaimRecord
    BY DEF ClaimRecord
  <2>2. request_claims' = [request_claims EXCEPT ![r.id] = c] /\ refused' = refused \cup {r}
    BY <1>2 DEF RecordDenial
  <2> HIDE DEF c
  <2>3. QED
    BY <2>1, <2>2 DEF TypeOK
<1>3. QED
  BY <1>1, <1>2

\* The clock a handler acts by is a time.
LEMMA ClaimTimeType ==
    ASSUME TypeOK, NEW h \in Handlers
    PROVE  ClaimTime(h) \in Nat
  BY DEF TypeOK, ClaimTime, Later, HandlerRecord

LEMMA EndedAtType ==
    ASSUME TypeOK, NEW h \in Handlers, handler[h].pc # "idle"
    PROVE  EndedAt(h) \in Nat
  BY RequestAssumption DEF RequestAssumption, SignedRequest, TypeOK, EndedAt, Later, HandlerRecord

LEMMA ExecutionOfType ==
    ASSUME TypeOK, NEW r \in Requests
    PROVE  ExecutionOf(r) \in Execution
  BY RequestAssumption DEF RequestAssumption, SignedRequest, TypeOK, ExecutionOf, Execution, GrantRecord

\* The type invariant.
THEOREM TypeCorrect == Spec => []TypeOK
<1>1. Init => TypeOK
  <2> SUFFICES ASSUME Init PROVE TypeOK
    OBVIOUS
  <2>1. grant \in [Devices -> GrantRecord] /\ \A d \in Devices : grant[d].used_count <= grant[d].max_uses
    BY DEF Init, Unpaired, GrantRecord
  <2>2. request_claims \in [RequestIds -> ClaimRecord]
    BY DEF Init, NoClaim, ClaimRecord
  <2>3. handler \in [Handlers -> HandlerRecord] /\ \A h \in Handlers : handler[h].pc = "idle"
    <3>1. Idle.pc = "idle"
      BY DEF Idle
    <3>2. QED
      BY <3>1, IdleType DEF Init
  <2>4. clock \in Nat /\ high \in Nat /\ clock <= high /\ high <= clock + MaxBackStep
    BY TimeAssumption DEF TimeAssumption, Init
  <2>5. QED
    BY <2>1, <2>2, <2>3, <2>4 DEF Init, TypeOK
<1>2. TypeOK /\ [Next]_vars => TypeOK'
  <2> SUFFICES ASSUME TypeOK, [Next]_vars PROVE TypeOK'
    OBVIOUS
  <2> USE DEF TypeOK, durable, time, history
  <2>1. ASSUME NEW d \in Devices, NEW t \in Terms, ApprovePairing(d, t) PROVE TypeOK'
    BY <2>1, TermsAssumption DEF TermsAssumption, ApprovePairing, FreshGrant, GrantRecord
  <2>2. ASSUME NEW d \in Devices, NEW t \in Terms, ReplaceGrant(d, t) PROVE TypeOK'
    BY <2>2, TermsAssumption DEF TermsAssumption, ReplaceGrant, FreshGrant, GrantRecord
  <2>3. ASSUME NEW d \in Devices, RevokeDevice(d) PROVE TypeOK'
    BY <2>3 DEF RevokeDevice
  <2>4. ASSUME NEW d \in Devices, RevokeGrant(d) PROVE TypeOK'
    BY <2>4 DEF RevokeGrant
  <2>5. CASE AdvancePolicyRevision
    BY <2>5 DEF AdvancePolicyRevision
  <2>6. CASE Cleanup
    BY <2>6 DEF Cleanup, NoClaim, ClaimRecord
  <2>7. CASE Activate \/ Lock
    BY <2>7 DEF Activate, Lock
  <2>8. ASSUME NEW h \in Handlers, NEW r \in Requests, Receive(h, r) PROVE TypeOK'
    <3>1. [Idle EXCEPT !.pc = "verified", !.request = r, !.now = clock] \in HandlerRecord
      BY VerifiedType
    <3>2. [Idle EXCEPT !.pc = "verified", !.request = r, !.now = clock].request = r
      BY DEF Idle
    <3>3. QED
      BY <2>8, <3>1, <3>2 DEF Receive
  <2>9. ASSUME NEW h \in Handlers, AuthorizeLocked(h) PROVE TypeOK'
    <3>1. Idle.pc = "idle"
      BY DEF Idle
    <3>2. handler[h].request \in Requests
      BY <2>9 DEF AuthorizeLocked
    <3>3. QED
      BY <2>9, <3>1, <3>2, IdleType, ClaimTimeType, RecordDenialType DEF AuthorizeLocked
  <2>10. ASSUME NEW h \in Handlers, AuthorizeDenied(h) PROVE TypeOK'
    <3>1. handler[h].request \in Requests
      BY <2>10 DEF AuthorizeDenied
    <3>2. /\ Refusal(handler[h].request, ClaimTime(h)) \in Codes
          /\ request_claims' \in [RequestIds -> ClaimRecord]
          /\ refused' \subseteq Requests
      BY <2>10, <3>1, ClaimTimeType, RefusalType, RecordDenialType DEF AuthorizeDenied
    <3>3. QED
      BY <2>10, <3>1, <3>2 DEF AuthorizeDenied, HandlerRecord
  <2>11. ASSUME NEW h \in Handlers, AuthorizeAccepted(h) PROVE TypeOK'
    <3> DEFINE r == handler[h].request
    <3>1. r \in Requests /\ ClaimTime(h) \in Nat
      BY <2>11, ClaimTimeType DEF AuthorizeAccepted
    <3>2. grant[r.grant_id].used_count < grant[r.grant_id].max_uses
      <4>1. ~(grant[r.grant_id].used_count >= grant[r.grant_id].max_uses)
        BY <2>11, <3>1, RefusalNone DEF AuthorizeAccepted
      <4>2. r.grant_id \in Devices
        BY <3>1, RequestAssumption DEF RequestAssumption, SignedRequest
      <4>3. QED
        BY <4>1, <4>2 DEF GrantRecord
    <3>3. /\ grant' \in [Devices -> GrantRecord]
          /\ \A d \in Devices : grant'[d].used_count <= grant'[d].max_uses
      <4>1. grant' = [grant EXCEPT ![r.grant_id].used_count = @ + 1]
        BY <2>11 DEF AuthorizeAccepted
      <4> DEFINE g == [grant[r.grant_id] EXCEPT !.used_count = @ + 1]
      <4>2. grant[r.grant_id] \in GrantRecord
        BY <3>1, RequestAssumption DEF RequestAssumption, SignedRequest
      <4>3. g \in GrantRecord /\ g.used_count <= g.max_uses
        BY <4>2, <3>2 DEF GrantRecord
      <4>4. grant' = [grant EXCEPT ![r.grant_id] = g]
        BY <4>1
      <4> HIDE DEF g, r
      <4>5. QED
        BY <4>3, <4>4
    <3>4. request_claims' \in [RequestIds -> ClaimRecord]
      <4>1. request_claims' = [request_claims EXCEPT ![r.id] =
              [decision |-> "allow", claimed_at |-> ClaimTime(h), completed |-> FALSE]]
        BY <2>11 DEF AuthorizeAccepted
      <4> HIDE DEF r
      <4>2. QED
        BY <4>1, <3>1 DEF ClaimRecord
    <3>5. ExecutionOf(r) \in Execution
      BY <3>1, ExecutionOfType
    <3>6. /\ handler' \in [Handlers -> HandlerRecord]
          /\ \A k \in Handlers : handler'[k].pc # "idle" => handler'[k].request \in Requests
      <4> DEFINE n == [handler[h] EXCEPT !.pc = "running", !.execution = ExecutionOf(r)]
      <4>1. n \in HandlerRecord /\ n.request = r
        BY <3>5 DEF HandlerRecord
      <4>2. handler' = [handler EXCEPT ![h] = n]
        BY <2>11 DEF AuthorizeAccepted
      <4> HIDE DEF n, r
      <4>3. QED
        BY <3>1, <4>1, <4>2
    <3>7. QED
      BY <2>11, <3>3, <3>4, <3>5, <3>6 DEF AuthorizeAccepted
  <2>12. ASSUME NEW h \in Handlers, Execute(h) PROVE TypeOK'
    <3>1. PICK code \in Outcomes(handler[h].request) :
             handler' = [handler EXCEPT ![h].pc = "decided", ![h].failure = code]
      BY <2>12 DEF Execute
    <3> DEFINE n == [handler[h] EXCEPT !.pc = "decided", !.failure = code]
    <3>2. code \in Codes
      BY DEF Outcomes, Codes
    <3>3. n \in HandlerRecord /\ n.request \in Requests
      BY <2>12, <3>2 DEF Execute, HandlerRecord
    <3>4. handler' = [handler EXCEPT ![h] = n]
      BY <3>1
    <3> HIDE DEF n
    <3>5. QED
      BY <2>12, <3>3, <3>4 DEF Execute
  <2>13. ASSUME NEW h \in Handlers, Cancel(h) \/ AbandonReceipt(h) PROVE TypeOK'
    <3>1. Idle.pc = "idle"
      BY DEF Idle
    <3>2. QED
      BY <2>13, <3>1, IdleType DEF Cancel, AbandonReceipt
  <2>14. ASSUME NEW h \in Handlers, IssueReceipt(h) PROVE TypeOK'
    <3>1. handler[h].request \in Requests /\ EndedAt(h) \in Nat /\ Idle.pc = "idle"
      BY <2>14, EndedAtType DEF IssueReceipt, Idle
    <3>2. receipts' \subseteq Receipt
      BY <2>14, <3>1 DEF IssueReceipt, Receipt, HandlerRecord
    <3>3. [handler[h] EXCEPT !.pc = "issued", !.ended_at = EndedAt(h)] \in HandlerRecord
      BY <3>1 DEF HandlerRecord
    <3>4. /\ handler' \in [Handlers -> HandlerRecord]
          /\ \A k \in Handlers : handler'[k].pc # "idle" => handler'[k].request \in Requests
      BY <2>14, <3>1, <3>3, IdleType DEF IssueReceipt, HandlerRecord
    <3>5. QED
      BY <2>14, <3>2, <3>4 DEF IssueReceipt
  <2>15. ASSUME NEW h \in Handlers, CompleteClaim(h) PROVE TypeOK'
    <3>1. Idle.pc = "idle"
      BY DEF Idle
    <3>2. request_claims' \in [RequestIds -> ClaimRecord]
      BY <2>15 DEF CompleteClaim, ClaimRecord
    <3>3. QED
      BY <2>15, <3>1, <3>2, IdleType DEF CompleteClaim
  <2>16. CASE Crash
    <3>1. Idle.pc = "idle"
      BY DEF Idle
    <3>2. QED
      BY <2>16, <3>1, IdleType DEF Crash
  <2>17. CASE Tick
    BY <2>17, TimeAssumption DEF TimeAssumption, Tick, Later
  <2>18. CASE StepBack
    BY <2>18, TimeAssumption DEF TimeAssumption, StepBack
  <2>19. CASE UNCHANGED vars
    BY <2>19 DEF vars
  <2>20. QED
    BY <2>1, <2>2, <2>3, <2>4, <2>5, <2>6, <2>7, <2>8, <2>9, <2>10, <2>11, <2>12,
       <2>13, <2>14, <2>15, <2>16, <2>17, <2>18, <2>19 DEF Next, Owner, Proceed
<1>3. QED
  BY <1>1, <1>2, PTL DEF Spec

-----------------------------------------------------------------------------
(* The strengthening.  A settled request is either still remembered by its  *)
(* claim row or expired for good: cleanup drops a row only once no clock    *)
(* reading to come can be before the request's deadline.                    *)

\* No step back of the clock makes the request current again.
Expired(r) == r.deadline + MaxBackStep <= high

Remembered(r) ==
    \/ Expired(r)
    \/ /\ request_claims[r.id].decision # "none"
       /\ r.issued_at <= request_claims[r.id].claimed_at + MaxClockSkew

ReplayInv ==
    /\ \A x \in handoffs : Remembered(x.request)
    /\ \A r \in refused : Remembered(r)
    /\ \A h \in Handlers :
         handler[h].pc = "verified" =>
             handler[h].request.issued_at <= handler[h].now + MaxClockSkew

\* The executions of one revision and its counter, number by number.
MeterInv ==
    /\ \A x \in handoffs : /\ x.device = x.request.grant_id
                           /\ x.revision <= grant[x.device].revision
                           /\ x.use_sequence \in 1 .. x.max_uses
                           /\ x.revision = grant[x.device].revision =>
                                  x.use_sequence <= grant[x.device].used_count
    /\ \A d \in Devices : \A n \in 1 .. grant[d].used_count :
         \E x \in handoffs : /\ x.device = d
                             /\ x.revision = grant[d].revision
                             /\ x.use_sequence = n
    /\ \A x, y \in handoffs :
         /\ x.device = y.device
         /\ x.revision = y.revision
         /\ x.use_sequence = y.use_sequence
         => x = y

Holds(h) == handler[h].execution # NoExecution

\* What a handler carries towards its receipt is on record, and is carried by no
\* other handler and vouched for by no receipt yet.
Carries(h, x) == handler[h].pc \in {"running", "decided"} /\ handler[h].execution = x

CarriedBy(h) ==
    /\ handler[h].pc = "verified" => ~Holds(h)
    /\ handler[h].pc = "running" => Holds(h)
    /\ handler[h].pc \in {"running", "decided"} /\ Holds(h) =>
         /\ handler[h].execution \in handoffs
         /\ handler[h].execution.request = handler[h].request
         /\ \A p \in receipts : p.execution # handler[h].execution
         /\ \A k \in Handlers \ {h} : ~Carries(k, handler[h].execution)
    /\ handler[h].pc = "decided" /\ ~Holds(h) =>
         /\ handler[h].failure # "none"
         /\ handler[h].failure = "request_replayed" \/ handler[h].request \in refused

CarriedInv == (\A h \in Handlers : CarriedBy(h)) /\ ReceiptsMatchCommits

CompletionInv ==
    /\ \A h \in Handlers :
         handler[h].pc = "issued" =>
             \E p \in receipts : p.request = handler[h].request /\ p.execution # NoExecution
    /\ CompletionFollowsReceipt

\* Only a paired device is revoked, and no grant is ahead of the policy.
OwnerInv ==
    /\ \A d \in device_revoked \cup grant_revoked : Paired(d)
    /\ \A d \in Devices : grant[d].policy <= policy

-----------------------------------------------------------------------------
(* Which steps touch what.                                                  *)

LEMMA HandoffStep ==
    ASSUME [Next]_vars
    PROVE  handoffs' = handoffs \/ \E h \in Handlers : AuthorizeAccepted(h)
  BY DEF Next, Owner, Proceed, vars, durable, time, history, ApprovePairing,
     ReplaceGrant, RevokeDevice, RevokeGrant, AdvancePolicyRevision, Cleanup, Activate,
     Lock, Receive, AuthorizeLocked, AuthorizeDenied, Execute, Cancel, IssueReceipt,
     AbandonReceipt, CompleteClaim, Crash, Tick, StepBack

LEMMA RefusedStep ==
    ASSUME [Next]_vars
    PROVE  \/ refused' = refused
           \/ \E h \in Handlers : AuthorizeLocked(h) \/ AuthorizeDenied(h)
  BY DEF Next, Owner, Proceed, vars, durable, time, history, ApprovePairing,
     ReplaceGrant, RevokeDevice, RevokeGrant, AdvancePolicyRevision, Cleanup, Activate,
     Lock, Receive, AuthorizeAccepted, Execute, Cancel, IssueReceipt, AbandonReceipt,
     CompleteClaim, Crash, Tick, StepBack

LEMMA ReceiptStep ==
    ASSUME [Next]_vars
    PROVE  receipts' = receipts \/ \E h \in Handlers : IssueReceipt(h)
  BY DEF Next, Owner, Proceed, vars, durable, time, history, ApprovePairing,
     ReplaceGrant, RevokeDevice, RevokeGrant, AdvancePolicyRevision, Cleanup, Activate,
     Lock, Receive, AuthorizeLocked, AuthorizeDenied, AuthorizeAccepted, Execute, Cancel,
     AbandonReceipt, CompleteClaim, Crash, Tick, StepBack

LEMMA GrantStep ==
    ASSUME [Next]_vars
    PROVE  \/ grant' = grant
           \/ \E d \in Devices, t \in Terms : ApprovePairing(d, t) \/ ReplaceGrant(d, t)
           \/ \E h \in Handlers : AuthorizeAccepted(h)
  BY DEF Next, Owner, Proceed, vars, durable, time, history, RevokeDevice, RevokeGrant,
     AdvancePolicyRevision, Cleanup, Activate, Lock, Receive, AuthorizeLocked,
     AuthorizeDenied, Execute, Cancel, IssueReceipt, AbandonReceipt, CompleteClaim,
     Crash, Tick, StepBack

LEMMA ClaimsStep ==
    ASSUME [Next]_vars
    PROVE  \/ request_claims' = request_claims
           \/ Cleanup
           \/ \E h \in Handlers : \/ AuthorizeLocked(h) \/ AuthorizeDenied(h)
                                  \/ AuthorizeAccepted(h) \/ CompleteClaim(h)
  BY DEF Next, Owner, Proceed, vars, durable, time, history, ApprovePairing,
     ReplaceGrant, RevokeDevice, RevokeGrant, AdvancePolicyRevision, Activate, Lock,
     Receive, Execute, Cancel, IssueReceipt, AbandonReceipt, Crash, Tick, StepBack

LEMMA ClockStep ==
    ASSUME TypeOK, [Next]_vars
    PROVE  high \in Nat /\ high' \in Nat /\ high <= high'
<1>1. CASE Tick
  BY <1>1 DEF Tick, Later, TypeOK
<1>2. CASE high' = high
  BY <1>2 DEF TypeOK
<1>3. QED
  BY <1>1, <1>2 DEF Next, Owner, Proceed, vars, durable, time, history, ApprovePairing,
     ReplaceGrant, RevokeDevice, RevokeGrant, AdvancePolicyRevision, Cleanup, Activate,
     Lock, Receive, AuthorizeLocked, AuthorizeDenied, AuthorizeAccepted, Execute, Cancel,
     IssueReceipt, AbandonReceipt, CompleteClaim, Crash, StepBack

\* A handler begins a request, moves its own on, or goes back to its connection.
LEMMA HandlerStep ==
    ASSUME [Next]_vars, TypeOK, NEW h \in Handlers
    PROVE  \/ handler'[h] = handler[h]
           \/ handler'[h] = Idle
           \/ \E r \in Requests : Receive(h, r)
           \/ AuthorizeDenied(h)
           \/ AuthorizeAccepted(h)
           \/ Execute(h)
           \/ IssueReceipt(h)
<1>1. CASE handler' = handler
  BY <1>1
<1>2. CASE Crash
  BY <1>2 DEF Crash
<1>3. ASSUME NEW k \in Handlers,
             \/ \E r \in Requests : Receive(k, r)
             \/ Proceed(k)
             \/ Cancel(k)
      PROVE  k = h \/ handler'[h] = handler[h]
  BY <1>3 DEF Proceed, Receive, AuthorizeLocked, AuthorizeDenied, AuthorizeAccepted, Execute,
     Cancel, IssueReceipt, AbandonReceipt, CompleteClaim, TypeOK
<1>4. ASSUME AuthorizeLocked(h) \/ Cancel(h) \/ AbandonReceipt(h) \/ CompleteClaim(h)
      PROVE  handler'[h] = Idle
  BY <1>4 DEF AuthorizeLocked, Cancel, AbandonReceipt, CompleteClaim, TypeOK
<1>5. QED
  BY <1>1, <1>2, <1>3, <1>4 DEF Next, Owner, Proceed, vars, durable, time, history,
     ApprovePairing, ReplaceGrant, RevokeDevice, RevokeGrant, AdvancePolicyRevision,
     Cleanup, Activate, Lock, Tick, StepBack

\* A handler that has issued its receipt has that to complete, or nothing.
LEMMA ReceiptEndsHandler ==
    ASSUME TypeOK, NEW h \in Handlers, IssueReceipt(h)
    PROVE  handler'[h] = Idle \/ handler'[h].pc = "issued"
<1> DEFINE accepted == handler[h].execution # NoExecution
           signed == [handler[h] EXCEPT !.pc = "issued", !.ended_at = EndedAt(h)]
<1>1. handler'[h] = IF accepted THEN signed ELSE Idle
  BY DEF IssueReceipt, TypeOK
<1>2. signed.pc = "issued"
  <2>1. handler[h] \in HandlerRecord
    BY DEF TypeOK
  <2>2. QED
    BY <2>1 DEF HandlerRecord
<1>3. QED
  BY <1>1, <1>2

-----------------------------------------------------------------------------
(* At most once.                                                            *)

\* The times of a request are the limits of protocol.SignedRequest.
LEMMA RequestTimes ==
    ASSUME NEW r \in Requests
    PROVE  /\ r.id \in RequestIds /\ r.grant_id \in Devices /\ r.subject_key_id \in Devices
           /\ r.issued_at \in Nat /\ r.deadline \in Nat
           /\ r.grant_revision \in Nat /\ r.policy_revision \in Nat
           /\ r.issued_at < r.deadline
           /\ r.deadline <= r.issued_at + MaxRequestTtl
  BY RequestAssumption DEF RequestAssumption, SignedRequest

\* A claim row changes only by being written where there was none, by being
\* completed, and by being dropped after the retention period.
LEMMA ClaimRowStep ==
    ASSUME TypeOK, [Next]_vars, NEW id \in RequestIds
    PROVE  \/ request_claims[id].decision = "none"
           \/ /\ request_claims'[id].decision = request_claims[id].decision
              /\ request_claims'[id].claimed_at = request_claims[id].claimed_at
           \/ request_claims[id].claimed_at + AuditRetention < clock
<1>1. CASE Cleanup
  BY <1>1 DEF Cleanup
<1>2. ASSUME NEW h \in Handlers, CompleteClaim(h)
      PROVE  /\ request_claims'[id].decision = request_claims[id].decision
             /\ request_claims'[id].claimed_at = request_claims[id].claimed_at
  BY <1>2 DEF CompleteClaim, TypeOK, ClaimRecord
<1>3. ASSUME NEW r \in Requests, NEW t \in Nat, RecordDenial(r, t)
      PROVE  \/ request_claims[id].decision = "none"
             \/ request_claims'[id] = request_claims[id]
  BY <1>3 DEF RecordDenial, TypeOK
<1>4. ASSUME NEW h \in Handlers, AuthorizeLocked(h) \/ AuthorizeDenied(h)
      PROVE  \/ request_claims[id].decision = "none"
             \/ request_claims'[id] = request_claims[id]
  <2>1. handler[h].request \in Requests /\ ClaimTime(h) \in Nat
    BY <1>4, ClaimTimeType DEF AuthorizeLocked, AuthorizeDenied, TypeOK
  <2>2. RecordDenial(handler[h].request, ClaimTime(h))
    BY <1>4 DEF AuthorizeLocked, AuthorizeDenied
  <2>3. QED
    BY <1>3, <2>1, <2>2
<1>5. ASSUME NEW h \in Handlers, AuthorizeAccepted(h)
      PROVE  \/ request_claims[id].decision = "none"
             \/ request_claims'[id] = request_claims[id]
  <2>1. handler[h].request \in Requests /\ ClaimTime(h) \in Nat
    BY <1>5, ClaimTimeType DEF AuthorizeAccepted, TypeOK
  <2>2. request_claims[handler[h].request.id].decision = "none"
    BY <1>5, <2>1, RefusalNone DEF AuthorizeAccepted
  <2>3. QED
    BY <1>5, <2>2 DEF AuthorizeAccepted, TypeOK
<1>6. QED
  BY <1>1, <1>2, <1>4, <1>5, ClaimsStep

\* What is remembered stays remembered until it has expired for good: the
\* retention period outlasts a request's lifetime, the clock skew it is allowed
\* and every step back of the clock.
LEMMA RememberedForever ==
    ASSUME TypeOK, [Next]_vars, NEW r \in Requests, Remembered(r)
    PROVE  Remembered(r)'
<1>1. high <= high' /\ high \in Nat /\ high' \in Nat
  BY ClockStep
<1>2. CASE Expired(r)
  BY <1>1, <1>2, RequestTimes, TimeAssumption DEF TimeAssumption, Expired, Remembered
<1>3. CASE /\ request_claims[r.id].decision # "none"
           /\ r.issued_at <= request_claims[r.id].claimed_at + MaxClockSkew
  <2>1. CASE request_claims[r.id].claimed_at + AuditRetention < clock
    <3>1. request_claims[r.id].claimed_at \in Nat
      BY RequestTimes DEF TypeOK, ClaimRecord
    <3>2. Expired(r)
      BY <1>3, <2>1, <3>1, RequestTimes, TimeAssumption
         DEF TimeAssumption, Expired, TypeOK
    <3>3. QED
      BY <1>2, <3>2
  <2>2. CASE /\ request_claims'[r.id].decision = request_claims[r.id].decision
             /\ request_claims'[r.id].claimed_at = request_claims[r.id].claimed_at
    BY <1>3, <2>2 DEF Remembered
  <2>3. QED
    BY <1>3, <2>1, <2>2, ClaimRowStep, RequestTimes
<1>4. QED
  BY <1>2, <1>3 DEF Remembered

\* A request that passes claim's checks has never been settled.
LEMMA AcceptedIsFresh ==
    ASSUME TypeOK, ReplayInv, NEW h \in Handlers, AuthorizeAccepted(h)
    PROVE  /\ \A x \in handoffs : x.request # handler[h].request
           /\ handler[h].request \notin refused
<1> DEFINE r == handler[h].request
<1>1. r \in Requests /\ ClaimTime(h) \in Nat
  BY ClaimTimeType DEF AuthorizeAccepted, TypeOK
<1>2. /\ request_claims[r.id].decision = "none"
      /\ ~(ClaimTime(h) >= r.deadline)
  BY <1>1, RefusalNone DEF AuthorizeAccepted
<1>3. ~Expired(r)
  <2>1. clock <= ClaimTime(h)
    BY DEF ClaimTime, Later, TypeOK, HandlerRecord
  <2>2. QED
    BY <1>1, <1>2, <2>1, RequestTimes, TimeAssumption
       DEF TimeAssumption, Expired, TypeOK
<1>4. ~Remembered(r)
  BY <1>2, <1>3 DEF Remembered
<1>5. QED
  BY <1>4 DEF ReplayInv

\* The claim row a settled request leaves behind remembers it.
LEMMA SettledIsRemembered ==
    ASSUME TypeOK, ReplayInv, NEW h \in Handlers, handler[h].pc = "verified",
           NEW r \in Requests, r = handler[h].request,
           NEW decision \in {"allow", "deny"},
           request_claims' = [request_claims EXCEPT ![r.id] =
               [decision |-> decision, claimed_at |-> ClaimTime(h), completed |-> FALSE]]
    PROVE  Remembered(r)'
<1>1. r.issued_at <= ClaimTime(h) + MaxClockSkew
  <2>1. handler[h].now <= ClaimTime(h) /\ handler[h].now \in Nat /\ ClaimTime(h) \in Nat
    BY ClaimTimeType DEF ClaimTime, Later, TypeOK, HandlerRecord
  <2>2. QED
    BY <2>1, RequestTimes, TimeAssumption DEF TimeAssumption, ReplayInv
<1>2. /\ request_claims'[r.id].decision # "none"
      /\ request_claims'[r.id].claimed_at = ClaimTime(h)
  BY RequestTimes DEF TypeOK
<1>3. QED
  BY <1>1, <1>2 DEF Remembered

\* A refusal is remembered, whether it is new or repeats an earlier claim's.
LEMMA ReplayStepRefused ==
    ASSUME TypeOK, [Next]_vars, ReplayInv, NEW r \in refused'
    PROVE  r \in Requests /\ Remembered(r)'
<1>1. CASE r \in refused
  BY <1>1, RememberedForever DEF ReplayInv, TypeOK
<1>2. ASSUME NEW h \in Handlers, AuthorizeLocked(h) \/ AuthorizeDenied(h), r \notin refused
      PROVE  r \in Requests /\ Remembered(r)'
  <2>1. /\ RecordDenial(handler[h].request, ClaimTime(h))
        /\ handler[h].pc = "verified"
    BY <1>2 DEF AuthorizeLocked, AuthorizeDenied
  <2>2. /\ r = handler[h].request
        /\ request_claims' = [request_claims EXCEPT ![r.id] =
              [decision |-> "deny", claimed_at |-> ClaimTime(h), completed |-> FALSE]]
    BY <1>2, <2>1 DEF RecordDenial
  <2>3. r \in Requests
    BY <2>1, <2>2 DEF TypeOK
  <2>4. QED
    BY <2>1, <2>2, <2>3, SettledIsRemembered
<1>3. QED
  BY <1>1, <1>2, RefusedStep

\* So is a handoff.
LEMMA ReplayStepHandoff ==
    ASSUME TypeOK, [Next]_vars, ReplayInv, NEW x \in handoffs'
    PROVE  Remembered(x.request)'
<1>1. CASE x \in handoffs
  <2>1. x.request \in Requests
    BY <1>1 DEF TypeOK, Execution
  <2>2. QED
    BY <1>1, <2>1, RememberedForever DEF ReplayInv
<1>2. ASSUME NEW h \in Handlers, AuthorizeAccepted(h), x \notin handoffs
      PROVE  Remembered(x.request)'
  <2>1. x = ExecutionOf(handler[h].request) /\ handler[h].pc = "verified"
    BY <1>2 DEF AuthorizeAccepted
  <2>2. x.request = handler[h].request /\ x.request \in Requests
    BY <2>1 DEF ExecutionOf, TypeOK
  <2>3. request_claims' = [request_claims EXCEPT ![x.request.id] =
              [decision |-> "allow", claimed_at |-> ClaimTime(h), completed |-> FALSE]]
    BY <1>2, <2>2 DEF AuthorizeAccepted
  <2>4. QED
    BY <2>1, <2>2, <2>3, SettledIsRemembered
<1>3. QED
  BY <1>1, <1>2, HandoffStep

\* ReplayInv is inductive.
THEOREM ReplayInvariant == Spec => []ReplayInv
<1>1. Init => ReplayInv
  BY DEF Init, ReplayInv, Idle
<1>2. TypeOK /\ ReplayInv /\ [Next]_vars => ReplayInv'
  <2> SUFFICES ASSUME TypeOK, ReplayInv, [Next]_vars PROVE ReplayInv'
    OBVIOUS
  <2>1. \A x \in handoffs' : Remembered(x.request)'
    BY ReplayStepHandoff
  <2>2. \A r \in refused' : Remembered(r)'
    BY ReplayStepRefused
  <2>3. ASSUME NEW h \in Handlers, handler'[h].pc = "verified"
        PROVE  handler'[h].request.issued_at <= handler'[h].now + MaxClockSkew
    <3>1. CASE handler'[h] = handler[h]
      BY <2>3, <3>1 DEF ReplayInv
    <3>2. handler'[h] # Idle
      BY <2>3 DEF Idle
    <3>3. ASSUME NEW r \in Requests, Receive(h, r)
          PROVE  handler'[h].request.issued_at <= handler'[h].now + MaxClockSkew
      <4>1. handler'[h] = [Idle EXCEPT !.pc = "verified", !.request = r, !.now = clock]
        BY <3>3 DEF Receive, TypeOK
      <4>2. handler'[h].request = r /\ handler'[h].now = clock
        BY <4>1 DEF Idle
      <4>3. QED
        BY <3>3, <4>2, RequestTimes, TimeAssumption DEF TimeAssumption, Receive, TypeOK
    <3>4. ~(AuthorizeDenied(h) \/ AuthorizeAccepted(h) \/ Execute(h))
      BY <2>3 DEF AuthorizeDenied, AuthorizeAccepted, Execute, TypeOK, HandlerRecord
    <3>5. ~IssueReceipt(h)
      BY <2>3, <3>2, ReceiptEndsHandler
    <3>6. QED
      BY <3>1, <3>2, <3>3, <3>4, <3>5, HandlerStep
  <2>4. QED
    BY <2>1, <2>2, <2>3 DEF ReplayInv
<1>3. QED
  BY <1>1, <1>2, TypeCorrect, PTL DEF Spec

\* However many copies of a signed request arrive, in however many handlers, and
\* whatever crashes, cleanups and clock corrections come between them, its
\* operation is handed to an executor at most once.
THEOREM AtMostOnce == Spec => []ExecutedAtMostOnce
<1>1. Init => ExecutedAtMostOnce
  BY DEF Init, ExecutedAtMostOnce
<1>2. TypeOK /\ ReplayInv /\ ExecutedAtMostOnce /\ [Next]_vars => ExecutedAtMostOnce'
  <2> SUFFICES ASSUME TypeOK, ReplayInv, ExecutedAtMostOnce, [Next]_vars
               PROVE  ExecutedAtMostOnce'
    OBVIOUS
  <2>1. CASE handoffs' = handoffs
    BY <2>1 DEF ExecutedAtMostOnce
  <2>2. ASSUME NEW h \in Handlers, AuthorizeAccepted(h) PROVE ExecutedAtMostOnce'
    <3>1. handoffs' = handoffs \cup {ExecutionOf(handler[h].request)}
      BY <2>2 DEF AuthorizeAccepted
    <3>2. ExecutionOf(handler[h].request).request = handler[h].request
      BY DEF ExecutionOf
    <3>3. \A x \in handoffs : x.request # handler[h].request
      BY <2>2, AcceptedIsFresh
    <3>4. QED
      BY <3>1, <3>2, <3>3 DEF ExecutedAtMostOnce
  <2>3. QED
    BY <2>1, <2>2, HandoffStep
<1>3. QED
  BY <1>1, <1>2, TypeCorrect, ReplayInvariant, PTL DEF Spec

-----------------------------------------------------------------------------
(* Metering.                                                                *)

\* A step that leaves the grants and the handoffs alone leaves MeterInv alone.
LEMMA MeterFrame ==
    ASSUME MeterInv, grant' = grant, handoffs' = handoffs
    PROVE  MeterInv'
  BY DEF MeterInv

\* A new revision starts with no execution against its counter.
LEMMA MeterNewRevision ==
    ASSUME TypeOK, MeterInv, NEW d \in Devices, NEW g \in GrantRecord,
           g.revision > grant[d].revision, g.used_count = 0,
           grant' = [grant EXCEPT ![d] = g], handoffs' = handoffs
    PROVE  MeterInv'
<1>1. ASSUME NEW x \in handoffs
      PROVE  /\ x.device = x.request.grant_id
             /\ x.revision <= grant'[x.device].revision
             /\ x.use_sequence \in 1 .. x.max_uses
             /\ x.revision = grant'[x.device].revision =>
                    x.use_sequence <= grant'[x.device].used_count
  <2>1. /\ x.device \in Devices /\ x.revision \in Nat
        /\ grant[x.device].revision \in Nat /\ g.revision \in Nat
    BY DEF TypeOK, Execution, GrantRecord
  <2>2. x.revision <= grant[x.device].revision
    BY DEF MeterInv
  <2>3. CASE x.device = d
    <3>1. grant'[x.device] = g
      BY <2>3 DEF TypeOK
    <3>2. x.revision < g.revision
      BY <2>1, <2>2, <2>3
    <3>3. QED
      BY <2>1, <3>1, <3>2 DEF MeterInv
  <2>4. CASE x.device # d
    BY <2>1, <2>4 DEF MeterInv, TypeOK
  <2>5. QED
    BY <2>3, <2>4
<1>2. ASSUME NEW e \in Devices, NEW n \in 1 .. grant'[e].used_count
      PROVE  \E x \in handoffs : /\ x.device = e
                                 /\ x.revision = grant'[e].revision
                                 /\ x.use_sequence = n
  <2>1. e # d
    BY DEF TypeOK
  <2>2. grant'[e] = grant[e]
    BY <2>1 DEF TypeOK
  <2>3. QED
    BY <2>2 DEF MeterInv
<1>3. QED
  BY <1>1, <1>2 DEF MeterInv

\* An accepted claim takes the next number of the revision it was checked against.
LEMMA MeterSpend ==
    ASSUME TypeOK, MeterInv, NEW h \in Handlers, AuthorizeAccepted(h)
    PROVE  MeterInv'
<1> DEFINE r == handler[h].request
           d == r.grant_id
           e == ExecutionOf(r)
<1>1. r \in Requests /\ d \in Devices /\ ClaimTime(h) \in Nat
  BY ClaimTimeType, RequestTimes DEF AuthorizeAccepted, TypeOK
<1>2. grant[d].used_count \in Nat /\ grant[d].max_uses \in Nat /\ grant[d].revision \in Nat
  BY <1>1 DEF TypeOK, GrantRecord
<1>3. grant[d].used_count + 1 <= grant[d].max_uses
  BY <1>1, <1>2, RefusalNone DEF AuthorizeAccepted
<1>4. /\ e.request = r /\ e.device = d /\ e.revision = grant[d].revision
      /\ e.use_sequence = grant[d].used_count + 1 /\ e.max_uses = grant[d].max_uses
  BY DEF ExecutionOf
<1>5. handoffs' = handoffs \cup {e}
  BY DEF AuthorizeAccepted
<1>6. grant'[d].used_count = grant[d].used_count + 1 /\ grant'[d].revision = grant[d].revision
  BY <1>1 DEF AuthorizeAccepted, TypeOK, GrantRecord
<1>7. \A c \in Devices \ {d} : grant'[c] = grant[c]
  BY <1>1 DEF AuthorizeAccepted, TypeOK
<1>8. \A x \in handoffs : /\ x.device \in Devices /\ x.revision \in Nat
                          /\ x.use_sequence \in Nat
  BY DEF TypeOK, Execution
<1> HIDE DEF r, d, e
<1>9. ASSUME NEW x \in handoffs'
      PROVE  /\ x.device = x.request.grant_id
             /\ x.revision <= grant'[x.device].revision
             /\ x.use_sequence \in 1 .. x.max_uses
             /\ x.revision = grant'[x.device].revision =>
                    x.use_sequence <= grant'[x.device].used_count
  <2>1. CASE x = e
    BY <2>1, <1>2, <1>3, <1>4, <1>6 DEF d
  <2>2. CASE x \in handoffs /\ x.device = d
    BY <2>2, <1>2, <1>6, <1>8 DEF MeterInv
  <2>3. CASE x \in handoffs /\ x.device # d
    BY <2>3, <1>7, <1>8 DEF MeterInv
  <2>4. QED
    BY <1>5, <2>1, <2>2, <2>3
<1>10. ASSUME NEW c \in Devices, NEW n \in 1 .. grant'[c].used_count
       PROVE  \E x \in handoffs' : /\ x.device = c
                                   /\ x.revision = grant'[c].revision
                                   /\ x.use_sequence = n
  <2>1. CASE c # d
    BY <2>1, <1>5, <1>7 DEF MeterInv
  <2>2. CASE c = d /\ n = grant[d].used_count + 1
    BY <2>2, <1>4, <1>5, <1>6
  <2>3. CASE c = d /\ n # grant[d].used_count + 1
    <3>1. n \in 1 .. grant[d].used_count
      BY <2>3, <1>2, <1>6
    <3>2. QED
      BY <2>3, <3>1, <1>5, <1>6 DEF MeterInv
  <2>4. QED
    BY <2>1, <2>2, <2>3
<1>11. ASSUME NEW x \in handoffs, x.device = e.device, x.revision = e.revision
       PROVE  x.use_sequence # e.use_sequence
  <2>1. x.use_sequence <= grant[d].used_count
    BY <1>11, <1>4 DEF MeterInv
  <2>2. QED
    BY <2>1, <1>2, <1>4, <1>8
<1>12. \A x, y \in handoffs' :
         /\ x.device = y.device
         /\ x.revision = y.revision
         /\ x.use_sequence = y.use_sequence
         => x = y
  BY <1>5, <1>11 DEF MeterInv
<1>13. QED
  BY <1>9, <1>10, <1>12 DEF MeterInv

\* MeterInv is inductive.
THEOREM MeterInvariant == Spec => []MeterInv
<1>1. Init => MeterInv
  BY DEF Init, MeterInv, Unpaired
<1>2. TypeOK /\ TypeOK' /\ MeterInv /\ [Next]_vars => MeterInv'
  <2> SUFFICES ASSUME TypeOK, TypeOK', MeterInv, [Next]_vars PROVE MeterInv'
    OBVIOUS
  <2>1. CASE grant' = grant /\ handoffs' = handoffs
    BY <2>1, MeterFrame
  <2>2. ASSUME NEW d \in Devices, NEW t \in Terms, ApprovePairing(d, t) PROVE MeterInv'
    <3>1. /\ FreshGrant(1, t).revision = 1 /\ FreshGrant(1, t).used_count = 0
          /\ grant' = [grant EXCEPT ![d] = FreshGrant(1, t)]
          /\ handoffs' = handoffs
      BY <2>2 DEF ApprovePairing, FreshGrant, history
    <3>2. FreshGrant(1, t) \in GrantRecord
      BY TermsAssumption DEF TermsAssumption, FreshGrant, TypeOK, GrantRecord
    <3>3. FreshGrant(1, t).revision > grant[d].revision
      BY <2>2, <3>1 DEF ApprovePairing, Paired, TypeOK, GrantRecord
    <3>4. QED
      BY <3>1, <3>2, <3>3, MeterNewRevision
  <2>3. ASSUME NEW d \in Devices, NEW t \in Terms, ReplaceGrant(d, t) PROVE MeterInv'
    <3> DEFINE g == FreshGrant(grant[d].revision + 1, t)
    <3>1. /\ g.revision = grant[d].revision + 1 /\ g.used_count = 0
          /\ grant' = [grant EXCEPT ![d] = g]
          /\ handoffs' = handoffs
      BY <2>3 DEF ReplaceGrant, FreshGrant, history
    <3>2. g \in GrantRecord
      BY TermsAssumption DEF TermsAssumption, FreshGrant, TypeOK, GrantRecord
    <3>3. g.revision > grant[d].revision
      BY <3>1 DEF TypeOK, GrantRecord
    <3> HIDE DEF g
    <3>4. QED
      BY <3>1, <3>2, <3>3, MeterNewRevision
  <2>4. ASSUME NEW h \in Handlers, AuthorizeAccepted(h) PROVE MeterInv'
    BY <2>4, MeterSpend
  <2>5. ASSUME NEW d \in Devices, NEW t \in Terms, ApprovePairing(d, t) \/ ReplaceGrant(d, t)
        PROVE  handoffs' = handoffs
    BY <2>5 DEF ApprovePairing, ReplaceGrant, history
  <2>6. QED
    BY <2>1, <2>2, <2>3, <2>4, <2>5, HandoffStep, GrantStep
<1>3. QED
  BY <1>1, <1>2, TypeCorrect, PTL DEF Spec

\* No grant revision ever pays for more executions than its owner approved, and
\* the counter of the current one counts exactly those that happened, under any
\* interleaving of handlers with replacements, policy changes and crashes.
THEOREM Metering == Spec => []UsesAreMetered
<1>1. TypeOK /\ MeterInv => UsesAreMetered
  <2> SUFFICES ASSUME TypeOK, MeterInv PROVE UsesAreMetered
    OBVIOUS
  <2>1. ASSUME NEW d \in Devices
        PROVE  {x.use_sequence : x \in {y \in handoffs : /\ y.device = d
                                                         /\ y.revision = grant[d].revision}}
                 = 1 .. grant[d].used_count
    <3>1. ASSUME NEW x \in handoffs, x.device = d, x.revision = grant[d].revision
          PROVE  x.use_sequence \in 1 .. grant[d].used_count
      <4>1. /\ x.use_sequence \in 1 .. x.max_uses
            /\ x.use_sequence <= grant[d].used_count
        BY <3>1 DEF MeterInv
      <4>2. x.use_sequence \in Nat /\ x.max_uses \in Nat /\ grant[d].used_count \in Nat
        BY DEF TypeOK, Execution, GrantRecord
      <4>3. QED
        BY <4>1, <4>2
    <3>2. \A n \in 1 .. grant[d].used_count :
            \E x \in handoffs : /\ x.device = d
                                /\ x.revision = grant[d].revision
                                /\ x.use_sequence = n
      BY DEF MeterInv
    <3>3. QED
      BY <3>1, <3>2
  <2>2. QED
    BY <2>1 DEF UsesAreMetered, MeterInv
<1>2. QED
  BY <1>1, TypeCorrect, MeterInvariant, PTL

-----------------------------------------------------------------------------
(* Authority never revives.                                                 *)

\* Counting a use changes nothing else of a revision.
LEMMA UsedCountOnly ==
    ASSUME NEW g \in GrantRecord, NEW n
    PROVE  [[g EXCEPT !.used_count = n] EXCEPT !.used_count = 0] = [g EXCEPT !.used_count = 0]
  BY DEF GrantRecord

\* Revocations, revisions, counters and the policy revision only move forward.
THEOREM NeverRevives == Spec => AuthorityNeverRevives
<1>1. TypeOK /\ [Next]_vars =>
        [/\ device_revoked \subseteq device_revoked'
         /\ grant_revoked \subseteq grant_revoked'
         /\ policy <= policy'
         /\ \A d \in Devices :
              \/ grant'[d].revision > grant[d].revision
              \/ /\ grant'[d].revision = grant[d].revision
                 /\ grant'[d].used_count >= grant[d].used_count
                 /\ [grant'[d] EXCEPT !.used_count = 0] = [grant[d] EXCEPT !.used_count = 0]
        ]_vars
  <2> SUFFICES ASSUME TypeOK, [Next]_vars
               PROVE  /\ device_revoked \subseteq device_revoked'
                      /\ grant_revoked \subseteq grant_revoked'
                      /\ policy <= policy'
                      /\ \A d \in Devices :
                           \/ grant'[d].revision > grant[d].revision
                           \/ /\ grant'[d].revision = grant[d].revision
                              /\ grant'[d].used_count >= grant[d].used_count
                              /\ [grant'[d] EXCEPT !.used_count = 0]
                                   = [grant[d] EXCEPT !.used_count = 0]
    OBVIOUS
  <2>1. device_revoked \subseteq device_revoked' /\ grant_revoked \subseteq grant_revoked'
    BY DEF Next, Owner, Proceed, vars, durable, time, history, ApprovePairing,
       ReplaceGrant, RevokeDevice, RevokeGrant, AdvancePolicyRevision, Cleanup, Activate,
       Lock, Receive, AuthorizeLocked, AuthorizeDenied, AuthorizeAccepted, Execute, Cancel,
       IssueReceipt, AbandonReceipt, CompleteClaim, Crash, Tick, StepBack
  <2>2. policy <= policy'
    <3>1. CASE AdvancePolicyRevision
      BY <3>1 DEF AdvancePolicyRevision, TypeOK
    <3>2. CASE policy' = policy
      BY <3>2 DEF TypeOK
    <3>3. QED
      BY <3>1, <3>2 DEF Next, Owner, Proceed, vars, durable, time, history, ApprovePairing,
         ReplaceGrant, RevokeDevice, RevokeGrant, Cleanup, Activate, Lock, Receive,
         AuthorizeLocked, AuthorizeDenied, AuthorizeAccepted, Execute, Cancel,
         IssueReceipt, AbandonReceipt, CompleteClaim, Crash, Tick, StepBack
  <2>3. ASSUME NEW d \in Devices
        PROVE  \/ grant'[d].revision > grant[d].revision
               \/ /\ grant'[d].revision = grant[d].revision
                  /\ grant'[d].used_count >= grant[d].used_count
                  /\ [grant'[d] EXCEPT !.used_count = 0] = [grant[d] EXCEPT !.used_count = 0]
    <3>1. grant[d].revision \in Nat /\ grant[d].used_count \in Nat
      BY DEF TypeOK, GrantRecord
    <3>2. CASE grant'[d] = grant[d]
      BY <3>1, <3>2
    <3>3. ASSUME NEW c \in Devices, NEW t \in Terms, ApprovePairing(c, t) \/ ReplaceGrant(c, t)
          PROVE  grant'[d] = grant[d] \/ grant'[d].revision > grant[d].revision
      <4>1. c # d => grant'[d] = grant[d]
        BY <3>3 DEF ApprovePairing, ReplaceGrant, TypeOK
      <4>2. ApprovePairing(d, t) => grant'[d].revision > grant[d].revision
        BY <3>1 DEF ApprovePairing, FreshGrant, Paired, TypeOK
      <4>3. ReplaceGrant(d, t) => grant'[d].revision > grant[d].revision
        BY <3>1 DEF ReplaceGrant, FreshGrant, TypeOK
      <4>4. QED
        BY <3>3, <4>1, <4>2, <4>3
    <3>4. ASSUME NEW h \in Handlers, AuthorizeAccepted(h)
          PROVE  \/ grant'[d] = grant[d]
                 \/ grant'[d] = [grant[d] EXCEPT !.used_count = grant[d].used_count + 1]
      <4> DEFINE c == handler[h].request.grant_id
      <4>1. grant' = [grant EXCEPT ![c].used_count = @ + 1]
        BY <3>4 DEF AuthorizeAccepted
      <4> HIDE DEF c
      <4>2. QED
        BY <4>1 DEF TypeOK
    <3>5. ASSUME grant'[d] = [grant[d] EXCEPT !.used_count = grant[d].used_count + 1]
          PROVE  /\ grant'[d].revision = grant[d].revision
                 /\ grant'[d].used_count >= grant[d].used_count
                 /\ [grant'[d] EXCEPT !.used_count = 0] = [grant[d] EXCEPT !.used_count = 0]
      <4>1. grant[d] \in GrantRecord
        BY DEF TypeOK
      <4>2. /\ grant'[d].revision = grant[d].revision
            /\ grant'[d].used_count = grant[d].used_count + 1
        BY <3>5, <4>1 DEF GrantRecord
      <4>3. [grant'[d] EXCEPT !.used_count = 0] = [grant[d] EXCEPT !.used_count = 0]
        BY <3>5, <4>1, UsedCountOnly
      <4>4. QED
        BY <3>1, <4>2, <4>3
    <3>6. QED
      BY <3>2, <3>3, <3>4, <3>5, GrantStep
  <2>4. QED
    BY <2>1, <2>2, <2>3
<1>2. QED
  BY <1>1, TypeCorrect, PTL DEF Spec, AuthorityNeverRevives

-----------------------------------------------------------------------------
(* A handoff needs live authority.                                          *)

\* Whatever was true when a request was verified, at the moment it is handed to
\* an executor its device, grant, policy and lifetime are in force, and it has
\* never been refused.
THEOREM LiveAuthority == Spec => HandoffNeedsLiveAuthority
<1> DEFINE InForce(x) ==
             LET r == x.request
                 g == grant[x.device]
             IN  /\ signer
                 /\ r \notin refused
                 /\ r.subject_key_id = x.device
                 /\ x.device \notin device_revoked \cup grant_revoked
                 /\ x.revision = g.revision
                 /\ r.grant_revision = g.revision
                 /\ r.policy_revision = policy
                 /\ g.policy = policy
                 /\ r.operation \in g.scopes
                 /\ clock < r.deadline
                 /\ clock < g.expires_at
<1>1. TypeOK /\ ReplayInv /\ [Next]_vars => [\A x \in handoffs' \ handoffs : InForce(x)]_vars
  <2> SUFFICES ASSUME TypeOK, ReplayInv, [Next]_vars, NEW x \in handoffs' \ handoffs
               PROVE  InForce(x)
    OBVIOUS
  <2>1. PICK h \in Handlers : AuthorizeAccepted(h)
    BY HandoffStep
  <2> DEFINE r == handler[h].request
  <2>2. x = ExecutionOf(r)
    BY <2>1 DEF AuthorizeAccepted
  <2>3. x.request = r /\ x.device = r.grant_id /\ x.revision = grant[r.grant_id].revision
    BY <2>2 DEF ExecutionOf
  <2>4. r \in Requests /\ ClaimTime(h) \in Nat /\ clock <= ClaimTime(h) /\ clock \in Nat
    BY <2>1, ClaimTimeType DEF AuthorizeAccepted, TypeOK, ClaimTime, Later, HandlerRecord
  <2>5. signer /\ Refusal(r, ClaimTime(h)) = "none"
    BY <2>1 DEF AuthorizeAccepted
  <2>6. r \notin refused
    BY <2>1, AcceptedIsFresh
  <2>7. grant[r.grant_id].expires_at \in Nat /\ r.deadline \in Nat
    BY <2>4, RequestTimes DEF TypeOK, GrantRecord
  <2> HIDE DEF r
  <2>8. clock < r.deadline /\ clock < grant[r.grant_id].expires_at
    BY <2>4, <2>5, <2>7, RefusalNone
  <2>9. QED
    BY <2>3, <2>4, <2>5, <2>6, <2>8, RefusalNone
<1>2. QED
  BY <1>1, TypeCorrect, ReplayInvariant, PTL DEF Spec, HandoffNeedsLiveAuthority

-----------------------------------------------------------------------------
(* The authority implements the abstract metered execution.                 *)

\* OwnerInv is inductive.
THEOREM OwnerInvariant == Spec => []OwnerInv
<1>1. Init => OwnerInv
  BY DEF Init, OwnerInv, Unpaired
<1>2. TypeOK /\ OwnerInv /\ [Next]_vars => OwnerInv'
  <2> SUFFICES ASSUME TypeOK, OwnerInv, [Next]_vars PROVE OwnerInv'
    OBVIOUS
  <2>1. CASE UNCHANGED <<grant, device_revoked, grant_revoked, policy>>
    BY <2>1 DEF OwnerInv, Paired
  <2>2. ASSUME NEW d \in Devices, NEW t \in Terms, ApprovePairing(d, t) \/ ReplaceGrant(d, t)
        PROVE  OwnerInv'
    <3>1. PICK n \in Nat \ {0} : grant' = [grant EXCEPT ![d] = FreshGrant(n, t)]
      BY <2>2 DEF ApprovePairing, ReplaceGrant, TypeOK, GrantRecord
    <3>2. /\ policy' = policy
          /\ device_revoked' = device_revoked /\ grant_revoked' = grant_revoked
      BY <2>2 DEF ApprovePairing, ReplaceGrant
    <3>3. FreshGrant(n, t).policy = policy /\ FreshGrant(n, t).revision = n
      BY DEF FreshGrant
    <3>4. QED
      BY <3>1, <3>2, <3>3 DEF OwnerInv, Paired, TypeOK
  <2>3. ASSUME NEW d \in Devices, RevokeDevice(d) \/ RevokeGrant(d) PROVE OwnerInv'
    BY <2>3 DEF RevokeDevice, RevokeGrant, OwnerInv, Paired
  <2>4. CASE AdvancePolicyRevision
    BY <2>4 DEF AdvancePolicyRevision, OwnerInv, Paired, TypeOK, GrantRecord
  <2>5. ASSUME NEW h \in Handlers, AuthorizeAccepted(h) PROVE OwnerInv'
    <3>1. \A d \in Devices : /\ grant'[d].revision = grant[d].revision
                             /\ grant'[d].policy = grant[d].policy
      BY <2>5 DEF AuthorizeAccepted, TypeOK, GrantRecord
    <3>2. /\ policy' = policy
          /\ device_revoked' = device_revoked /\ grant_revoked' = grant_revoked
      BY <2>5 DEF AuthorizeAccepted
    <3>3. QED
      BY <3>1, <3>2 DEF OwnerInv, Paired, TypeOK
  <2>6. QED
    BY <2>1, <2>2, <2>3, <2>4, <2>5 DEF Next, Owner, Proceed, vars, durable, time, history,
       Cleanup, Activate, Lock, Receive, AuthorizeLocked, AuthorizeDenied, Execute, Cancel,
       IssueReceipt, AbandonReceipt, CompleteClaim, Crash, Tick, StepBack
<1>3. QED
  BY <1>1, <1>2, TypeCorrect, PTL DEF Spec

\* The refinement mapping of Metered.
settledBar == [r \in Requests |-> Settled(r)]
budgetBar  == [d \in Devices |-> grant[d].max_uses - grant[d].used_count]
liveBar    == {d \in Devices : /\ Paired(d)
                               /\ d \notin device_revoked \cup grant_revoked
                               /\ grant[d].policy = policy}
revokedBar == device_revoked \cup grant_revoked

\* A step that touches nothing the mapping reads is a stutter.
LEMMA MeteredStutter ==
    ASSUME UNCHANGED <<grant, device_revoked, grant_revoked, policy, handoffs, refused>>
    PROVE  UNCHANGED Metered!vars
<1>1. UNCHANGED <<settledBar, budgetBar, liveBar, revokedBar>>
  BY DEF settledBar, budgetBar, liveBar, revokedBar, Settled, Paired
<1>2. QED
  BY <1>1 DEF Metered!vars, settledBar, budgetBar, liveBar, revokedBar

\* A new revision, the first or a later one, endows its lineage.
LEMMA MeteredEndow ==
    ASSUME TypeOK, OwnerInv, NEW d \in Devices, NEW t \in Terms, NEW n \in Nat \ {0},
           d \notin device_revoked \cup grant_revoked,
           grant' = [grant EXCEPT ![d] = FreshGrant(n, t)],
           UNCHANGED <<device_revoked, grant_revoked, policy, handoffs, refused>>
    PROVE  Metered!Endow(d)
<1> DEFINE g == FreshGrant(n, t)
<1>1. g.revision = n /\ g.policy = policy /\ g.max_uses = t.max_uses /\ g.used_count = 0
  BY DEF FreshGrant
<1>2. t.max_uses \in Nat \ {0}
  BY TermsAssumption DEF TermsAssumption
<1>3. grant' = [grant EXCEPT ![d] = g]
  OBVIOUS
<1> HIDE DEF g
<1>4. settledBar' = settledBar
  BY DEF settledBar, Settled
<1>5. budgetBar'[d] = t.max_uses
  BY <1>1, <1>2, <1>3 DEF budgetBar, TypeOK
<1>6. budgetBar' = [budgetBar EXCEPT ![d] = budgetBar'[d]]
  BY <1>3 DEF budgetBar, TypeOK
<1>7. liveBar' = liveBar \cup {d}
  BY <1>1, <1>3 DEF liveBar, Paired, TypeOK
<1>8. revokedBar' = revokedBar /\ d \notin revokedBar
  BY DEF revokedBar
<1>9. QED
  BY <1>2, <1>4, <1>5, <1>6, <1>7, <1>8
     DEF Metered!Endow, settledBar, budgetBar, liveBar, revokedBar

LEMMA MeteredRevoke ==
    ASSUME TypeOK, NEW d \in Devices, RevokeDevice(d) \/ RevokeGrant(d)
    PROVE  Metered!Revoke(d)
<1>1. UNCHANGED <<grant, policy, handoffs, refused>>
  BY DEF RevokeDevice, RevokeGrant, history
<1>2. settledBar' = settledBar /\ budgetBar' = budgetBar
  BY <1>1 DEF settledBar, budgetBar, Settled
<1>3. revokedBar' = revokedBar \cup {d}
  BY DEF revokedBar, RevokeDevice, RevokeGrant
<1>4. liveBar' = liveBar \ {d}
  <2>1. liveBar' = {c \in Devices : Paired(c) /\ c \notin revokedBar' /\ grant[c].policy = policy}
    BY <1>1 DEF liveBar, revokedBar, Paired
  <2>2. liveBar = {c \in Devices : Paired(c) /\ c \notin revokedBar /\ grant[c].policy = policy}
    BY DEF liveBar, revokedBar
  <2>3. QED
    BY <1>3, <2>1, <2>2
<1>5. QED
  BY <1>2, <1>3, <1>4 DEF Metered!Revoke, settledBar, budgetBar, liveBar, revokedBar

LEMMA MeteredWithdraw ==
    ASSUME TypeOK, OwnerInv, AdvancePolicyRevision
    PROVE  Metered!WithdrawAll
<1>1. UNCHANGED <<grant, device_revoked, grant_revoked, handoffs, refused>>
  BY DEF AdvancePolicyRevision, history
<1>2. settledBar' = settledBar /\ budgetBar' = budgetBar /\ revokedBar' = revokedBar
  BY <1>1 DEF settledBar, budgetBar, revokedBar, Settled
<1>3. \A d \in Devices : grant'[d].policy # policy'
  BY <1>1 DEF AdvancePolicyRevision, OwnerInv, TypeOK, GrantRecord
<1>4. liveBar' = {}
  BY <1>3 DEF liveBar
<1>5. QED
  BY <1>2, <1>4 DEF Metered!WithdrawAll, settledBar, budgetBar, liveBar, revokedBar

\* A denial settles a request that was not settled before, or changes nothing.
LEMMA MeteredRefuse ==
    ASSUME TypeOK, NEW h \in Handlers, AuthorizeLocked(h) \/ AuthorizeDenied(h)
    PROVE  Metered!Next \/ UNCHANGED Metered!vars
<1>1. PICK r \in Requests : RecordDenial(r, ClaimTime(h))
  BY DEF AuthorizeLocked, AuthorizeDenied, TypeOK
<1>2. UNCHANGED <<grant, device_revoked, grant_revoked, policy, handoffs>>
  BY DEF AuthorizeLocked, AuthorizeDenied
<1>3. CASE refused' = refused
  BY <1>2, <1>3, MeteredStutter
<1>4. CASE refused' # refused
  <2>1. refused' = refused \cup {r} /\ r \notin refused
    BY <1>1, <1>4 DEF RecordDenial
  <2>2. budgetBar' = budgetBar /\ liveBar' = liveBar /\ revokedBar' = revokedBar
    BY <1>2 DEF budgetBar, liveBar, revokedBar, Paired
  <2>3. CASE \E x \in handoffs : x.request = r
    <3>1. settledBar' = settledBar
      BY <1>2, <2>1, <2>3 DEF settledBar, Settled
    <3>2. QED
      BY <2>2, <3>1 DEF Metered!vars, settledBar, budgetBar, liveBar, revokedBar
  <2>4. CASE ~ \E x \in handoffs : x.request = r
    <3>1. settledBar[r] = "fresh"
      BY <1>1, <2>1, <2>4 DEF settledBar, Settled
    <3>2. settledBar' = [settledBar EXCEPT ![r] = "refused"]
      BY <1>1, <1>2, <2>1, <2>4 DEF settledBar, Settled
    <3>3. Metered!Refuse(r)
      BY <2>2, <3>1, <3>2 DEF Metered!Refuse, settledBar, budgetBar, liveBar, revokedBar
    <3>4. QED
      BY <1>1, <3>3 DEF Metered!Next
  <2>5. QED
    BY <2>3, <2>4
<1>5. QED
  BY <1>3, <1>4

\* An accepted claim spends one use of a live grant on a fresh request.
LEMMA MeteredSpend ==
    ASSUME TypeOK, ReplayInv, NEW h \in Handlers, AuthorizeAccepted(h)
    PROVE  Metered!Next
<1>1. PICK r \in Requests : r = handler[h].request
  BY DEF AuthorizeAccepted, TypeOK
<1> DEFINE d == r.grant_id
<1>2. d \in Devices /\ ClaimTime(h) \in Nat
  BY ClaimTimeType, RequestTimes
<1>3. /\ handoffs' = handoffs \cup {ExecutionOf(r)} /\ ExecutionOf(r).request = r
      /\ UNCHANGED <<device_revoked, grant_revoked, policy, refused>>
      /\ grant' = [grant EXCEPT ![d].used_count = @ + 1]
      /\ Refusal(r, ClaimTime(h)) = "none"
  BY <1>1 DEF AuthorizeAccepted, ExecutionOf
<1>4. (\A x \in handoffs : x.request # r) /\ r \notin refused
  BY <1>1, AcceptedIsFresh
<1>5. [q \in Requests |-> q.grant_id][r] = d
  OBVIOUS
<1>6. /\ Paired(d) /\ d = r.subject_key_id
      /\ d \notin grant_revoked /\ r.subject_key_id \notin device_revoked
      /\ grant[d].policy = policy
      /\ ~(grant[d].used_count >= grant[d].max_uses)
  BY <1>2, <1>3, RefusalNone
<1> HIDE DEF d
<1>7. grant[d].used_count \in Nat /\ grant[d].max_uses \in Nat
  BY <1>2 DEF TypeOK, GrantRecord
<1>8. /\ grant'[d].used_count = grant[d].used_count + 1
      /\ grant'[d].max_uses = grant[d].max_uses
      /\ \A c \in Devices \ {d} : grant'[c] = grant[c]
      /\ \A c \in Devices : /\ grant'[c].revision = grant[c].revision
                            /\ grant'[c].policy = grant[c].policy
  BY <1>2, <1>3 DEF TypeOK, GrantRecord
<1>9. settledBar[r] = "fresh" /\ settledBar' = [settledBar EXCEPT ![r] = "spent"]
  BY <1>3, <1>4 DEF settledBar, Settled
<1>10. budgetBar[d] > 0 /\ budgetBar' = [budgetBar EXCEPT ![d] = @ - 1]
  BY <1>2, <1>6, <1>7, <1>8 DEF budgetBar
<1>11. d \in liveBar /\ liveBar' = liveBar /\ revokedBar' = revokedBar
  BY <1>2, <1>3, <1>6, <1>8 DEF liveBar, revokedBar, Paired
<1>12. Metered!Spend(r)
  BY <1>5, <1>9, <1>10, <1>11 DEF Metered!Spend, settledBar, budgetBar, liveBar, revokedBar
<1>13. QED
  BY <1>12 DEF Metered!Next

\* ConnectorAuthority implements MeteredExecution: what the owner is promised
\* holds of every behaviour of the code, for every choice of the constants.
THEOREM Refinement == Spec => ImplementsMeteredExecution
<1>1. Init => Metered!Init
  <2> SUFFICES ASSUME Init PROVE Metered!Init
    OBVIOUS
  <2>1. settledBar = [r \in Requests |-> "fresh"]
    BY DEF Init, settledBar, Settled
  <2>2. budgetBar = [d \in Devices |-> 0]
    BY DEF Init, budgetBar, Unpaired
  <2>3. liveBar = {} /\ revokedBar = {}
    BY DEF Init, liveBar, revokedBar, Paired, Unpaired
  <2>4. QED
    BY <2>1, <2>2, <2>3 DEF Metered!Init, settledBar, budgetBar, liveBar, revokedBar
<1>2. TypeOK /\ ReplayInv /\ OwnerInv /\ [Next]_vars => [Metered!Next]_(Metered!vars)
  <2> SUFFICES ASSUME TypeOK, ReplayInv, OwnerInv, [Next]_vars
               PROVE  Metered!Next \/ UNCHANGED Metered!vars
    OBVIOUS
  <2>1. CASE UNCHANGED <<grant, device_revoked, grant_revoked, policy, handoffs, refused>>
    BY <2>1, MeteredStutter
  <2>2. ASSUME NEW d \in Devices, NEW t \in Terms, ApprovePairing(d, t) PROVE Metered!Next
    <3>1. d \notin device_revoked \cup grant_revoked
      BY <2>2 DEF ApprovePairing, OwnerInv
    <3>2. PICK n \in Nat \ {0} : n = 1
      OBVIOUS
    <3>3. /\ grant' = [grant EXCEPT ![d] = FreshGrant(n, t)]
          /\ UNCHANGED <<device_revoked, grant_revoked, policy, handoffs, refused>>
      BY <2>2, <3>2 DEF ApprovePairing, history
    <3>4. Metered!Endow(d)
      BY <3>1, <3>3, MeteredEndow
    <3>5. QED
      BY <3>4 DEF Metered!Next
  <2>3. ASSUME NEW d \in Devices, NEW t \in Terms, ReplaceGrant(d, t) PROVE Metered!Next
    <3>1. PICK n \in Nat \ {0} : n = grant[d].revision + 1
      BY DEF TypeOK, GrantRecord
    <3>2. grant' = [grant EXCEPT ![d] = FreshGrant(n, t)]
      BY <2>3, <3>1 DEF ReplaceGrant
    <3>3. /\ d \notin device_revoked \cup grant_revoked
          /\ UNCHANGED <<device_revoked, grant_revoked, policy, handoffs, refused>>
      BY <2>3 DEF ReplaceGrant, history
    <3>4. Metered!Endow(d)
      BY <3>2, <3>3, MeteredEndow
    <3>5. QED
      BY <3>4 DEF Metered!Next
  <2>4. ASSUME NEW d \in Devices, RevokeDevice(d) \/ RevokeGrant(d) PROVE Metered!Next
    BY <2>4, MeteredRevoke DEF Metered!Next
  <2>5. CASE AdvancePolicyRevision
    BY <2>5, MeteredWithdraw DEF Metered!Next
  <2>6. ASSUME NEW h \in Handlers, AuthorizeLocked(h) \/ AuthorizeDenied(h)
        PROVE  Metered!Next \/ UNCHANGED Metered!vars
    BY <2>6, MeteredRefuse
  <2>7. ASSUME NEW h \in Handlers, AuthorizeAccepted(h) PROVE Metered!Next
    BY <2>7, MeteredSpend
  <2>8. QED
    BY <2>1, <2>2, <2>3, <2>4, <2>5, <2>6, <2>7 DEF Next, Owner, Proceed, vars, durable,
       time, history, Cleanup, Activate, Lock, Receive, Execute, Cancel, IssueReceipt,
       AbandonReceipt, CompleteClaim, Crash, Tick, StepBack
<1>3. QED
  BY <1>1, <1>2, TypeCorrect, ReplayInvariant, OwnerInvariant, PTL
     DEF Spec, ImplementsMeteredExecution, Metered!Spec

-----------------------------------------------------------------------------
(* Receipts.                                                                *)

\* The history only grows.
LEMMA HistoryGrows ==
    ASSUME [Next]_vars
    PROVE  handoffs \subseteq handoffs' /\ refused \subseteq refused' /\ receipts \subseteq receipts'
<1>1. handoffs \subseteq handoffs'
  BY HandoffStep DEF AuthorizeAccepted
<1>2. refused \subseteq refused'
  BY RefusedStep DEF AuthorizeLocked, AuthorizeDenied, RecordDenial
<1>3. receipts \subseteq receipts'
  BY ReceiptStep DEF IssueReceipt
<1>4. QED
  BY <1>1, <1>2, <1>3

\* Receipts signed before a step still match what is committed after it.
LEMMA ReceiptsFrame ==
    ASSUME ReceiptsMatchCommits, [Next]_vars, receipts' = receipts
    PROVE  ReceiptsMatchCommits'
  BY HistoryGrows DEF ReceiptsMatchCommits

\* A handler that does not move keeps what it carries to itself, if no other
\* handler and no receipt takes it up.
LEMMA CarriedFrame ==
    ASSUME [Next]_vars, NEW h \in Handlers, CarriedBy(h), handler'[h] = handler[h],
           handler[h].pc \in {"running", "decided"} /\ Holds(h) =>
             /\ \A p \in receipts' \ receipts : p.execution # handler[h].execution
             /\ \A k \in Handlers \ {h} : \/ handler'[k].pc \notin {"running", "decided"}
                                          \/ handler'[k].execution = handler[k].execution
                                               /\ handler[k].pc \in {"running", "decided"}
                                          \/ handler'[k].execution # handler[h].execution
    PROVE  CarriedBy(h)'
  BY HistoryGrows DEF CarriedBy, Holds, Carries

\* A handler that carries nothing is no obstacle.
LEMMA CarriedIdle ==
    ASSUME NEW h \in Handlers, handler'[h].pc \notin {"verified", "running", "decided"}
    PROVE  CarriedBy(h)'
  BY DEF CarriedBy

\* CarriedInv is inductive.
THEOREM CarriedInvariant == Spec => []CarriedInv
<1>1. Init => CarriedInv
  BY DEF Init, CarriedInv, CarriedBy, ReceiptsMatchCommits, Idle
<1>2. TypeOK /\ ReplayInv /\ CarriedInv /\ [Next]_vars => CarriedInv'
  <2> SUFFICES ASSUME TypeOK, ReplayInv, CarriedInv, [Next]_vars PROVE CarriedInv'
    OBVIOUS
  <2>a. \A h \in Handlers : CarriedBy(h)
    BY DEF CarriedInv
  <2>b. Idle.pc = "idle"
    BY DEF Idle
  <2>1. CASE handler' = handler /\ receipts' = receipts
    <3>1. \A h \in Handlers : CarriedBy(h)'
      BY <2>1, <2>a, CarriedFrame
    <3>2. QED
      BY <2>1, <3>1, ReceiptsFrame DEF CarriedInv
  <2>2. ASSUME receipts' = receipts,
               NEW h \in Handlers, CarriedBy(h)',
               \A k \in Handlers \ {h} :
                  /\ handler'[k] = handler[k]
                  /\ handler[k].pc \in {"running", "decided"} /\ Holds(k) =>
                       \/ handler'[h].pc \notin {"running", "decided"}
                       \/ handler'[h].execution = handler[h].execution
                            /\ handler[h].pc \in {"running", "decided"}
                       \/ handler'[h].execution # handler[k].execution
        PROVE  CarriedInv'
    <3>1. ASSUME NEW k \in Handlers \ {h} PROVE CarriedBy(k)'
      <4>1. ASSUME handler[k].pc \in {"running", "decided"}, Holds(k), NEW l \in Handlers \ {k}
            PROVE  \/ handler'[l].pc \notin {"running", "decided"}
                   \/ handler'[l].execution = handler[l].execution
                        /\ handler[l].pc \in {"running", "decided"}
                   \/ handler'[l].execution # handler[k].execution
        BY <2>2, <4>1
      <4>2. QED
        BY <2>2, <2>a, <4>1, CarriedFrame
    <3>2. QED
      BY <2>2, <3>1, ReceiptsFrame DEF CarriedInv
  <2>3. ASSUME NEW h \in Handlers,
               \/ AuthorizeLocked(h) \/ Cancel(h) \/ AbandonReceipt(h) \/ CompleteClaim(h)
        PROVE  CarriedInv'
    <3>1. handler' = [handler EXCEPT ![h] = Idle] /\ receipts' = receipts
      BY <2>3 DEF AuthorizeLocked, Cancel, AbandonReceipt, CompleteClaim, history
    <3>2. handler'[h].pc = "idle" /\ \A k \in Handlers \ {h} : handler'[k] = handler[k]
      BY <3>1, <2>b DEF TypeOK
    <3>3. QED
      BY <3>1, <3>2, <2>2, CarriedIdle
  <2>4. CASE Crash
    <3>1. receipts' = receipts /\ \A h \in Handlers : handler'[h].pc = "idle"
      BY <2>4, <2>b DEF Crash, history
    <3>2. QED
      BY <3>1, CarriedIdle, ReceiptsFrame DEF CarriedInv
  <2>5. ASSUME NEW h \in Handlers, NEW r \in Requests, Receive(h, r) PROVE CarriedInv'
    <3>1. /\ handler' = [handler EXCEPT ![h] =
                [Idle EXCEPT !.pc = "verified", !.request = r, !.now = clock]]
          /\ receipts' = receipts
      BY <2>5 DEF Receive, history
    <3>2. \A k \in Handlers \ {h} : handler'[k] = handler[k]
      BY <3>1 DEF TypeOK
    <3>3. handler'[h] = [Idle EXCEPT !.pc = "verified", !.request = r, !.now = clock]
      BY <3>1 DEF TypeOK
    <3>4. handler'[h].pc = "verified" /\ handler'[h].execution = NoExecution
      BY <3>3 DEF Idle
    <3>5. CarriedBy(h)'
      BY <3>4 DEF CarriedBy, Holds
    <3>6. QED
      BY <3>1, <3>2, <3>4, <3>5, <2>2
  <2>6. ASSUME NEW h \in Handlers, AuthorizeDenied(h) PROVE CarriedInv'
    <3> DEFINE code == Refusal(handler[h].request, ClaimTime(h))
    <3>1. /\ handler[h].pc = "verified"
          /\ handler' = [handler EXCEPT ![h].pc = "decided", ![h].failure = code]
          /\ receipts' = receipts
          /\ code # "none"
          /\ RecordDenial(handler[h].request, ClaimTime(h))
      BY <2>6 DEF AuthorizeDenied
    <3>2. \A k \in Handlers \ {h} : handler'[k] = handler[k]
      BY <3>1 DEF TypeOK
    <3>3. /\ handler'[h].pc = "decided" /\ handler'[h].failure = code
          /\ handler'[h].request = handler[h].request
          /\ handler'[h].execution = handler[h].execution
      BY <3>1 DEF TypeOK, HandlerRecord
    <3>4. handler'[h].execution = NoExecution
      BY <3>1, <3>3, <2>a DEF CarriedBy, Holds
    <3>5. code = "request_replayed" \/ handler[h].request \in refused'
      BY <3>1 DEF Refusal, RecordDenial
    <3> HIDE DEF code
    <3>6. CarriedBy(h)'
      BY <3>1, <3>3, <3>4, <3>5 DEF CarriedBy, Holds
    <3>7. \A k \in Handlers \ {h} : Holds(k) => handler'[h].execution # handler[k].execution
      BY <3>4 DEF Holds
    <3>8. QED
      BY <3>1, <3>2, <3>6, <3>7, <2>2
  <2>7. ASSUME NEW h \in Handlers, AuthorizeAccepted(h) PROVE CarriedInv'
    <3> DEFINE e == ExecutionOf(handler[h].request)
    <3>1. /\ handler' = [handler EXCEPT ![h].pc = "running", ![h].execution = e]
          /\ handoffs' = handoffs \cup {e}
          /\ receipts' = receipts
          /\ handler[h].request \in Requests
      BY <2>7 DEF AuthorizeAccepted, TypeOK
    <3>2. e.request = handler[h].request /\ e \in Execution /\ e # NoExecution
      BY <3>1, ExecutionOfType, ExecutionAssumption DEF ExecutionAssumption, ExecutionOf
    <3>3. e \notin handoffs
      BY <2>7, <3>2, AcceptedIsFresh
    <3> HIDE DEF e
    <3>4. \A k \in Handlers \ {h} : handler'[k] = handler[k]
      BY <3>1 DEF TypeOK
    <3>5. /\ handler'[h].pc = "running" /\ handler'[h].execution = e
          /\ handler'[h].request = handler[h].request
      BY <3>1 DEF TypeOK, HandlerRecord
    <3>6. \A p \in receipts : p.execution # e
      BY <3>2, <3>3 DEF CarriedInv, ReceiptsMatchCommits
    <3>7. \A k \in Handlers : handler[k].pc \in {"running", "decided"} => handler[k].execution # e
      BY <2>a, <3>2, <3>3 DEF CarriedBy, Holds
    <3>8. CarriedBy(h)'
      <4>1. \A p \in receipts' : p.execution # handler'[h].execution
        BY <3>1, <3>5, <3>6
      <4>2. \A k \in Handlers \ {h} : ~ (/\ handler'[k].pc \in {"running", "decided"}
                                        /\ handler'[k].execution = handler'[h].execution)
        BY <3>4, <3>5, <3>7
      <4>3. /\ handler'[h].pc = "running" /\ handler'[h].execution # NoExecution
            /\ handler'[h].execution \in handoffs'
            /\ handler'[h].execution.request = handler'[h].request
        BY <3>1, <3>2, <3>5
      <4>4. QED
        BY <4>1, <4>2, <4>3 DEF CarriedBy, Holds, Carries
    <3>9. QED
      BY <3>1, <3>4, <3>5, <3>7, <3>8, <2>2
  <2>8. ASSUME NEW h \in Handlers, Execute(h) PROVE CarriedInv'
    <3>1. /\ handler[h].pc = "running" /\ receipts' = receipts /\ refused' = refused
          /\ handoffs' = handoffs
          /\ \A k \in Handlers \ {h} : handler'[k] = handler[k]
          /\ handler'[h].pc = "decided"
          /\ handler'[h].request = handler[h].request
          /\ handler'[h].execution = handler[h].execution
      BY <2>8 DEF Execute, history, TypeOK, HandlerRecord
    <3>2. CarriedBy(h)'
      BY <3>1, <2>a DEF CarriedBy, Holds, Carries
    <3>3. QED
      BY <3>1, <3>2, <2>2
  <2>9. ASSUME NEW h \in Handlers, IssueReceipt(h) PROVE CarriedInv'
    <3> DEFINE q == [request |-> handler[h].request, execution |-> handler[h].execution,
                     failure |-> handler[h].failure]
    <3>1. /\ handler[h].pc = "decided"
          /\ receipts' = receipts \cup {q}
          /\ handoffs' = handoffs /\ refused' = refused
          /\ \A k \in Handlers \ {h} : handler'[k] = handler[k]
      BY <2>9 DEF IssueReceipt, TypeOK
    <3>2. handler'[h].pc \in {"issued", "idle"}
      BY <2>9, <2>b DEF IssueReceipt, TypeOK, HandlerRecord
    <3>3. /\ q.request = handler[h].request /\ q.execution = handler[h].execution
          /\ q.failure = handler[h].failure
      OBVIOUS
    <3> HIDE DEF q
    <3>4. ASSUME NEW k \in Handlers PROVE CarriedBy(k)'
      <4>1. CASE k = h
        BY <4>1, <3>2, CarriedIdle
      <4>2. CASE k # h
        <5>1. handler[k].pc \in {"running", "decided"} /\ Holds(k) =>
                q.execution # handler[k].execution
          BY <4>2, <2>a, <3>1, <3>3 DEF CarriedBy, Carries
        <5>2. \A l \in Handlers : \/ handler'[l].pc \notin {"running", "decided"}
                                  \/ handler'[l].execution = handler[l].execution
                                       /\ handler[l].pc \in {"running", "decided"}
          BY <3>1, <3>2
        <5>3. QED
          BY <4>2, <2>a, <3>1, <5>1, <5>2, CarriedFrame
      <4>3. QED
        BY <4>1, <4>2
    <3>5. IF q.execution # NoExecution
          THEN q.execution \in handoffs /\ q.execution.request = q.request
          ELSE /\ q.failure # "none"
               /\ q.failure = "request_replayed" \/ q.request \in refused
      BY <2>a, <3>1, <3>3 DEF CarriedBy, Holds
    <3>6. \A p \in receipts : q.execution # NoExecution => p.execution # q.execution
      BY <2>a, <3>1, <3>3 DEF CarriedBy, Holds
    <3>7. ReceiptsMatchCommits'
      BY <3>1, <3>5, <3>6 DEF CarriedInv, ReceiptsMatchCommits
    <3>8. QED
      BY <3>4, <3>7 DEF CarriedInv
  <2>10. QED
    BY <2>1, <2>3, <2>4, <2>5, <2>6, <2>7, <2>8, <2>9 DEF Next, Owner, Proceed, vars,
       durable, time, history, ApprovePairing, ReplaceGrant, RevokeDevice, RevokeGrant,
       AdvancePolicyRevision, Cleanup, Activate, Lock, Tick, StepBack
<1>3. QED
  BY <1>1, <1>2, TypeCorrect, ReplayInvariant, PTL DEF Spec

\* A signed receipt always states a committed decision: an accepted one a use
\* that was spent on that very request, vouched for by no other receipt.
THEOREM ReceiptsTellTheTruth == Spec => []ReceiptsMatchCommits
<1>1. CarriedInv => ReceiptsMatchCommits
  BY DEF CarriedInv
<1>2. QED
  BY <1>1, CarriedInvariant, PTL

\* A claim becomes complete only through the handler that holds its receipt.
LEMMA CompletedStep ==
    ASSUME TypeOK, [Next]_vars, NEW id \in RequestIds, request_claims'[id].completed
    PROVE  \/ request_claims[id].completed
           \/ \E h \in Handlers : handler[h].pc = "issued" /\ handler[h].request.id = id
<1>1. CASE Cleanup
  BY <1>1 DEF Cleanup, NoClaim
<1>2. ASSUME NEW h \in Handlers, CompleteClaim(h)
      PROVE  \/ request_claims[id].completed
             \/ handler[h].pc = "issued" /\ handler[h].request.id = id
  BY <1>2 DEF CompleteClaim, TypeOK, ClaimRecord
<1>3. ASSUME NEW r \in Requests, NEW t \in Nat, RecordDenial(r, t)
      PROVE  request_claims[id].completed
  BY <1>3 DEF RecordDenial, TypeOK
<1>4. ASSUME NEW h \in Handlers, AuthorizeLocked(h) \/ AuthorizeDenied(h)
      PROVE  request_claims[id].completed
  <2>1. handler[h].request \in Requests /\ ClaimTime(h) \in Nat
    BY <1>4, ClaimTimeType DEF AuthorizeLocked, AuthorizeDenied, TypeOK
  <2>2. RecordDenial(handler[h].request, ClaimTime(h))
    BY <1>4 DEF AuthorizeLocked, AuthorizeDenied
  <2>3. QED
    BY <1>3, <2>1, <2>2
<1>5. ASSUME NEW h \in Handlers, AuthorizeAccepted(h)
      PROVE  request_claims[id].completed
  BY <1>5 DEF AuthorizeAccepted, TypeOK
<1>6. QED
  BY <1>1, <1>2, <1>4, <1>5, ClaimsStep

\* Whatever a crash, a cancellation or an error cuts short, a claim marked
\* complete has its signed receipt.
THEOREM CompletionNeedsReceipt == Spec => []CompletionFollowsReceipt
<1>1. Init => CompletionInv
  BY DEF Init, CompletionInv, CompletionFollowsReceipt, Idle, NoClaim
<1>2. TypeOK /\ CompletionInv /\ [Next]_vars => CompletionInv'
  <2> SUFFICES ASSUME TypeOK, CompletionInv, [Next]_vars PROVE CompletionInv'
    OBVIOUS
  <2>1. ASSUME NEW h \in Handlers, handler'[h].pc = "issued"
        PROVE  \E p \in receipts' : p.request = handler'[h].request /\ p.execution # NoExecution
    <3>1. CASE handler'[h] = handler[h]
      BY <2>1, <3>1, HistoryGrows DEF CompletionInv
    <3>2. ASSUME IssueReceipt(h)
          PROVE  \E p \in receipts' : p.request = handler'[h].request /\ p.execution # NoExecution
      <4>1. handler[h].execution # NoExecution
        BY <2>1, <3>2 DEF IssueReceipt, TypeOK, Idle
      <4>2. handler'[h].request = handler[h].request
        BY <3>2, <4>1 DEF IssueReceipt, TypeOK, HandlerRecord
      <4>3. [request |-> handler[h].request, execution |-> handler[h].execution,
             failure |-> handler[h].failure] \in receipts'
        BY <3>2 DEF IssueReceipt
      <4>4. QED
        BY <4>1, <4>2, <4>3
    <3>3. handler'[h] # Idle
      BY <2>1 DEF Idle
    <3>4. ASSUME NEW r \in Requests PROVE ~Receive(h, r)
      <4>1. SUFFICES ASSUME Receive(h, r) PROVE FALSE
        OBVIOUS
      <4>2. handler'[h] = [Idle EXCEPT !.pc = "verified", !.request = r, !.now = clock]
        BY <4>1 DEF Receive, TypeOK
      <4>3. QED
        BY <2>1, <4>2 DEF Idle
    <3>5. ~(AuthorizeDenied(h) \/ AuthorizeAccepted(h) \/ Execute(h))
      BY <2>1 DEF AuthorizeDenied, AuthorizeAccepted, Execute, TypeOK, HandlerRecord
    <3>6. QED
      BY <3>1, <3>2, <3>3, <3>4, <3>5, HandlerStep
  <2>2. ASSUME NEW id \in RequestIds, request_claims'[id].completed
        PROVE  \E p \in receipts' : p.request.id = id /\ p.execution # NoExecution
    <3>1. CASE request_claims[id].completed
      BY <3>1, HistoryGrows DEF CompletionInv, CompletionFollowsReceipt
    <3>2. ASSUME NEW h \in Handlers, handler[h].pc = "issued", handler[h].request.id = id
          PROVE  \E p \in receipts' : p.request.id = id /\ p.execution # NoExecution
      BY <3>2, HistoryGrows DEF CompletionInv
    <3>3. QED
      BY <2>2, <3>1, <3>2, CompletedStep
  <2>3. QED
    BY <2>1, <2>2 DEF CompletionInv, CompletionFollowsReceipt
<1>3. CompletionInv => CompletionFollowsReceipt
  BY DEF CompletionInv
<1>4. QED
  BY <1>1, <1>2, <1>3, TypeCorrect, PTL DEF Spec
-----------------------------------------------------------------------------
(* Completion, while the wall clock never steps back.                       *)

\* A handler with a use to account for.
InFlight(h) ==
    \/ handler[h].pc \in {"running", "issued"}
    \/ handler[h].pc = "decided" /\ Holds(h)

Row(h) == request_claims[handler[h].request.id]

\* The row of a handler in flight is the one it wrote, incomplete and too young for
\* cleanup, and no two handlers in flight share one.
FlightInv ==
    /\ \A h \in Handlers : handler[h].pc = "verified" => handler[h].now <= clock
    /\ \A h \in Handlers :
         InFlight(h) => /\ Row(h).decision = "allow" /\ ~Row(h).completed
                        /\ Row(h).claimed_at <= clock
                        /\ handler[h].request.issued_at <= Row(h).claimed_at + MaxClockSkew
                        /\ clock <= handler[h].request.deadline + MaxOverrun
    /\ \A h \in Handlers : handler[h].pc = "issued" => Row(h).claimed_at <= handler[h].ended_at
    /\ \A h, k \in Handlers :
         InFlight(h) /\ InFlight(k) /\ h # k =>
             handler[h].request.id # handler[k].request.id

\* The clock stands or ticks.
LEMMA ClockOnlyTicks ==
    ASSUME TypeOK, [Next]_vars, MaxBackStep = 0
    PROVE  clock' = clock \/ Tick
<1>1. ~StepBack
  BY DEF StepBack, TypeOK
<1>2. clock' = clock \/ Tick \/ StepBack
  BY DEF Next, Owner, Proceed, vars, durable, time, history, ApprovePairing,
     ReplaceGrant, RevokeDevice, RevokeGrant, AdvancePolicyRevision, Cleanup, Activate,
     Lock, Receive, AuthorizeLocked, AuthorizeDenied, AuthorizeAccepted, Execute, Cancel,
     IssueReceipt, AbandonReceipt, CompleteClaim, Crash
<1> QED
  BY <1>1, <1>2

\* Nobody touches the row of a handler that stays in flight.
LEMMA RowOfFlightStands ==
    ASSUME TypeOK, FlightInv, [Next]_vars,
           MaxRequestTtl + MaxClockSkew + MaxOverrun <= AuditRetention,
           NEW h \in Handlers, InFlight(h), handler'[h] # Idle
    PROVE  request_claims'[handler[h].request.id] = Row(h)
<1> DEFINE r == handler[h].request
           id == r.id
<1>1. r \in Requests /\ id \in RequestIds
  BY RequestTimes DEF InFlight, TypeOK
<1>2. Row(h).decision = "allow" /\ Row(h) = request_claims[id]
  BY DEF FlightInv, Row
<1>3. CASE Cleanup
  <2>1. ~(request_claims[id].claimed_at + AuditRetention < clock)
    <3>1. /\ r.issued_at <= request_claims[id].claimed_at + MaxClockSkew
          /\ clock <= r.deadline + MaxOverrun
      BY DEF FlightInv, Row
    <3>2. /\ r.issued_at \in Nat /\ r.deadline \in Nat
          /\ r.deadline <= r.issued_at + MaxRequestTtl
      BY <1>1, RequestTimes
    <3>3. request_claims[id].claimed_at \in Nat /\ clock \in Nat
      BY <1>1 DEF TypeOK, ClaimRecord
    <3> QED
      BY <3>1, <3>2, <3>3, TimeAssumption DEF TimeAssumption
  <2> QED
    BY <1>1, <1>2, <1>3, <2>1 DEF Cleanup
<1>4. ASSUME NEW k \in Handlers, AuthorizeLocked(k) \/ AuthorizeDenied(k)
      PROVE  request_claims'[id] = request_claims[id]
  <2>1. handler[k].request \in Requests
    BY <1>4 DEF AuthorizeLocked, AuthorizeDenied, TypeOK
  <2>2. RecordDenial(handler[k].request, ClaimTime(k))
    BY <1>4 DEF AuthorizeLocked, AuthorizeDenied
  <2> QED
    BY <1>1, <1>2, <2>1, <2>2 DEF RecordDenial, TypeOK
<1>5. ASSUME NEW k \in Handlers, AuthorizeAccepted(k)
      PROVE  request_claims'[id] = request_claims[id]
  <2>1. handler[k].request \in Requests /\ ClaimTime(k) \in Nat
    BY <1>5, ClaimTimeType DEF AuthorizeAccepted, TypeOK
  <2>2. request_claims[handler[k].request.id].decision = "none"
    BY <1>5, <2>1, RefusalNone DEF AuthorizeAccepted
  <2>3. handler[k].request.id # id
    BY <1>2, <2>2
  <2> QED
    BY <1>1, <1>5, <2>3 DEF AuthorizeAccepted, TypeOK
<1>6. ASSUME NEW k \in Handlers, CompleteClaim(k)
      PROVE  request_claims'[id] = request_claims[id]
  <2>1. handler[k].pc = "issued" /\ handler'[k] = Idle
    BY <1>6 DEF CompleteClaim, TypeOK
  <2>2. k # h /\ InFlight(k)
    BY <2>1 DEF InFlight
  <2>3. handler[k].request.id # id
    BY <2>2 DEF FlightInv
  <2> QED
    BY <1>1, <1>6, <2>3 DEF CompleteClaim, TypeOK
<1> QED
  BY <1>2, <1>3, <1>4, <1>5, <1>6, ClaimsStep

\* A handler is in flight that was, with the same request, or whose claim has just
\* been accepted.
LEMMA FlightStep ==
    ASSUME TypeOK, CarriedInv, [Next]_vars, NEW h \in Handlers, InFlight(h)'
    PROVE  \/ /\ InFlight(h) /\ handler'[h] # Idle
              /\ handler'[h].request = handler[h].request
           \/ AuthorizeAccepted(h)
<1>1. handler'[h] # Idle
  BY DEF InFlight, Idle
<1>2. CASE handler'[h] = handler[h]
  BY <1>1, <1>2 DEF InFlight, Holds
<1>3. ASSUME NEW r \in Requests PROVE ~Receive(h, r)
  <2> SUFFICES ASSUME Receive(h, r) PROVE FALSE
    OBVIOUS
  <2>1. handler'[h].pc = "verified"
    BY DEF Receive, TypeOK, Idle
  <2> QED
    BY <2>1 DEF InFlight
<1>4. ~AuthorizeDenied(h)
  <2> SUFFICES ASSUME AuthorizeDenied(h) PROVE FALSE
    OBVIOUS
  <2>1. handler[h].execution = NoExecution
    BY DEF AuthorizeDenied, CarriedInv, CarriedBy, Holds
  <2>2. handler'[h].pc = "decided" /\ handler'[h].execution = NoExecution
    BY <2>1 DEF AuthorizeDenied, TypeOK, HandlerRecord
  <2> QED
    BY <2>2 DEF InFlight, Holds
<1>5. ASSUME Execute(h)
      PROVE  InFlight(h) /\ handler'[h].request = handler[h].request
  BY <1>5 DEF Execute, InFlight, TypeOK, HandlerRecord
<1>6. ASSUME IssueReceipt(h)
      PROVE  InFlight(h) /\ handler'[h].request = handler[h].request
  BY <1>1, <1>6 DEF IssueReceipt, InFlight, Holds, TypeOK, HandlerRecord
<1> QED
  BY <1>1, <1>2, <1>3, <1>4, <1>5, <1>6, HandlerStep

\* While the wall clock never steps back, and the retention period outlasts the
\* overrun of a run as well, complete_claim finds the row its handler claimed,
\* whoever else claims, cleans up, crashes or revokes: no signed receipt is withheld.
THEOREM CompletionIsAccepted ==
    ASSUME MaxBackStep = 0,
           MaxRequestTtl + MaxClockSkew + MaxOverrun <= AuditRetention
    PROVE  Spec => []CompletionNeverRefused
<1>1. Init => FlightInv
  BY DEF Init, FlightInv, InFlight, Idle
<1>2. TypeOK /\ ReplayInv /\ CarriedInv /\ FlightInv /\ [Next]_vars => FlightInv'
  <2> SUFFICES ASSUME TypeOK, ReplayInv, CarriedInv, FlightInv, [Next]_vars
               PROVE  FlightInv'
    OBVIOUS
  <2>0. clock \in Nat /\ clock' \in Nat /\ clock <= clock'
    BY ClockOnlyTicks DEF Tick, TypeOK
  <2>1. ASSUME NEW h \in Handlers, handler'[h].pc = "verified"
        PROVE  handler'[h].now <= clock'
    <3>1. CASE handler'[h] = handler[h]
      BY <2>0, <2>1, <3>1 DEF FlightInv, TypeOK, HandlerRecord
    <3>2. ASSUME NEW r \in Requests, Receive(h, r)
          PROVE  handler'[h].now <= clock'
      BY <2>0, <3>2 DEF Receive, TypeOK, Idle
    <3>3. handler'[h] # Idle
      BY <2>1 DEF Idle
    <3>4. ~(AuthorizeDenied(h) \/ AuthorizeAccepted(h) \/ Execute(h))
      BY <2>1 DEF AuthorizeDenied, AuthorizeAccepted, Execute, TypeOK, HandlerRecord
    <3>5. ~IssueReceipt(h)
      BY <2>1, <3>3, ReceiptEndsHandler
    <3> QED
      BY <3>1, <3>2, <3>3, <3>4, <3>5, HandlerStep
  <2>2. ASSUME NEW h \in Handlers, InFlight(h), handler'[h] # Idle,
               handler'[h].request = handler[h].request
        PROVE  /\ Row(h)' = Row(h)
               /\ Row(h)'.decision = "allow" /\ ~Row(h)'.completed
               /\ Row(h)'.claimed_at <= clock'
               /\ handler'[h].request.issued_at <= Row(h)'.claimed_at + MaxClockSkew
               /\ clock' <= handler'[h].request.deadline + MaxOverrun
    <3>1. Row(h)' = Row(h)
      BY <2>2, RowOfFlightStands DEF Row
    <3>2. handler[h].request \in Requests
      BY <2>2 DEF InFlight, TypeOK
    <3>3. Row(h).claimed_at \in Nat
      BY <3>2, RequestTimes DEF Row, TypeOK, ClaimRecord
    <3>4. clock' <= handler[h].request.deadline + MaxOverrun
      <4>1. handler[h].pc # "idle"
        BY <2>2 DEF InFlight
      <4>2. handler[h].request.deadline \in Nat
        BY <3>2, RequestTimes
      <4>3. CASE Tick
        BY <2>0, <4>1, <4>2, <4>3, TimeAssumption DEF Tick, TimeAssumption
      <4>4. CASE clock' = clock
        BY <2>2, <4>4 DEF FlightInv
      <4> QED
        BY <4>3, <4>4, ClockOnlyTicks
    <3> QED
      BY <2>0, <2>2, <3>1, <3>3, <3>4 DEF FlightInv
  <2>3. ASSUME NEW h \in Handlers, AuthorizeAccepted(h)
        PROVE  /\ Row(h)'.decision = "allow" /\ ~Row(h)'.completed
               /\ Row(h)'.claimed_at <= clock'
               /\ handler'[h].request.issued_at <= Row(h)'.claimed_at + MaxClockSkew
               /\ clock' <= handler'[h].request.deadline + MaxOverrun
               /\ handler'[h].pc = "running"
               /\ handler'[h].request = handler[h].request
               /\ request_claims[handler[h].request.id].decision = "none"
    <3> DEFINE r == handler[h].request
    <3>1. r \in Requests /\ ClaimTime(h) \in Nat /\ handler[h].pc = "verified"
      BY <2>3, ClaimTimeType DEF AuthorizeAccepted, TypeOK
    <3>2. /\ request_claims[r.id].decision = "none"
          /\ ~(ClaimTime(h) >= r.deadline)
      BY <2>3, <3>1, RefusalNone DEF AuthorizeAccepted
    <3>3. handler'[h].pc = "running" /\ handler'[h].request = r /\ clock' = clock
      BY <2>3 DEF AuthorizeAccepted, TypeOK, HandlerRecord, time
    <3>4. Row(h)' = [decision |-> "allow", claimed_at |-> ClaimTime(h), completed |-> FALSE]
      BY <2>3, <3>1, <3>3, RequestTimes DEF AuthorizeAccepted, Row, TypeOK
    <3>5. ClaimTime(h) = clock
      BY <3>1 DEF FlightInv, ClaimTime, Later, TypeOK, HandlerRecord
    <3>6. r.issued_at <= ClaimTime(h) + MaxClockSkew
      <4>1. r.issued_at <= handler[h].now + MaxClockSkew /\ handler[h].now <= clock
        BY <3>1 DEF ReplayInv, FlightInv
      <4>2. handler[h].now \in Nat
        BY DEF TypeOK, HandlerRecord
      <4> QED
        BY <2>0, <3>1, <3>5, <4>1, <4>2, RequestTimes, TimeAssumption DEF TimeAssumption
    <3>7. clock <= r.deadline + MaxOverrun
      BY <2>0, <3>1, <3>2, <3>5, RequestTimes, TimeAssumption DEF TimeAssumption
    <3> QED
      BY <2>0, <3>2, <3>3, <3>4, <3>5, <3>6, <3>7
  <2>4. \A h \in Handlers :
          InFlight(h)' => /\ Row(h)'.decision = "allow" /\ ~Row(h)'.completed
                          /\ Row(h)'.claimed_at <= clock'
                          /\ handler'[h].request.issued_at
                                <= Row(h)'.claimed_at + MaxClockSkew
                          /\ clock' <= handler'[h].request.deadline + MaxOverrun
    BY <2>2, <2>3, FlightStep
  <2>5. ASSUME NEW h \in Handlers, handler'[h].pc = "issued"
        PROVE  Row(h)'.claimed_at <= handler'[h].ended_at
    <3>1. InFlight(h)'
      BY <2>5 DEF InFlight
    <3>2. ~AuthorizeAccepted(h)
      BY <2>3, <2>5
    <3>3. InFlight(h) /\ handler'[h] # Idle /\ handler'[h].request = handler[h].request
      BY <3>1, <3>2, FlightStep
    <3>4. Row(h)' = Row(h)
      BY <2>2, <3>3
    <3>5. CASE handler'[h] = handler[h]
      BY <2>5, <3>4, <3>5 DEF FlightInv
    <3>6. ASSUME IssueReceipt(h)
          PROVE  Row(h)'.claimed_at <= handler'[h].ended_at
      <4>1. handler'[h].ended_at = EndedAt(h)
        BY <3>3, <3>6 DEF IssueReceipt, TypeOK, HandlerRecord
      <4>2. clock <= EndedAt(h) /\ EndedAt(h) \in Nat
        <5>1. handler[h].pc # "idle" /\ handler[h].request \in Requests
          BY <3>3 DEF InFlight, TypeOK
        <5>2. handler[h].request.issued_at \in Nat /\ handler[h].now \in Nat
          BY <5>1, RequestTimes DEF TypeOK, HandlerRecord
        <5> QED
          BY <2>0, <5>2 DEF EndedAt, Later
      <4>3. Row(h).claimed_at <= clock /\ Row(h).claimed_at \in Nat
        BY <3>3, RequestTimes DEF FlightInv, InFlight, Row, TypeOK, ClaimRecord
      <4> QED
        BY <2>0, <3>4, <4>1, <4>2, <4>3
    <3>7. ASSUME NEW r \in Requests PROVE ~Receive(h, r)
      BY <3>3 DEF Receive, InFlight, Idle
    <3>8. ~(AuthorizeDenied(h) \/ Execute(h))
      BY <2>5 DEF AuthorizeDenied, Execute, TypeOK, HandlerRecord
    <3> QED
      BY <3>2, <3>3, <3>5, <3>6, <3>7, <3>8, HandlerStep
  <2>6. ASSUME NEW h \in Handlers, NEW k \in Handlers, h # k,
               InFlight(h)', InFlight(k)'
        PROVE  handler'[h].request.id # handler'[k].request.id
    <3>1. ASSUME NEW x \in Handlers, NEW y \in Handlers, x # y,
                 AuthorizeAccepted(x), InFlight(y)
          PROVE  handler[x].request.id # handler[y].request.id
      BY <2>3, <3>1 DEF FlightInv, Row
    <3>2. ~(AuthorizeAccepted(h) /\ AuthorizeAccepted(k))
      <4> SUFFICES ASSUME AuthorizeAccepted(h), AuthorizeAccepted(k) PROVE FALSE
        OBVIOUS
      <4>1. handler'[k] = handler[k]
        BY <2>6 DEF AuthorizeAccepted, TypeOK
      <4>2. handler[k].pc = "verified"
        BY DEF AuthorizeAccepted
      <4> QED
        BY <2>3, <4>1, <4>2
    <3>3. \/ InFlight(h) /\ handler'[h].request = handler[h].request
          \/ AuthorizeAccepted(h) /\ handler'[h].request = handler[h].request
      BY <2>3, <2>6, FlightStep
    <3>4. \/ InFlight(k) /\ handler'[k].request = handler[k].request
          \/ AuthorizeAccepted(k) /\ handler'[k].request = handler[k].request
      BY <2>3, <2>6, FlightStep
    <3>5. CASE InFlight(h) /\ InFlight(k)
      BY <2>6, <3>3, <3>4, <3>5 DEF FlightInv
    <3> QED
      BY <2>6, <3>1, <3>2, <3>3, <3>4, <3>5
  <2> QED
    BY <2>1, <2>4, <2>5, <2>6 DEF FlightInv
<1>3. FlightInv => CompletionNeverRefused
  BY DEF FlightInv, CompletionNeverRefused, Completable, InFlight, Row
<1> QED
  BY <1>1, <1>2, <1>3, TypeCorrect, ReplayInvariant, CarriedInvariant, PTL DEF Spec
=============================================================================
