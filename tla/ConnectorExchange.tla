------------------------- MODULE ConnectorExchange -------------------------
(***************************************************************************)
(* The VPS side of a Connector operation: ConnectorClient.execute with its *)
(* one retry (connector/client.py), the exchange of one record over one    *)
(* connection (PinnedWssClient and _exchange_record in                     *)
(* connector/transport.py), the receipt evidence ledger                    *)
(* (connector/audit.py) and the availability snapshot.                     *)
(*                                                                         *)
(* The Connector at the other end is its promise: the actions of           *)
(* MeteredExecution, taken when a copy of a request arrives.  Connections  *)
(* break, answers get lost, and a copy already sent may arrive after its   *)
(* connection is gone.                                                     *)
(*                                                                         *)
(* Each caller is a process of its own.  They share the state directory:   *)
(* the ledger, appended to under a file lock, and the snapshot, replaced   *)
(* atomically.  Callers of one process interleave less.                    *)
(***************************************************************************)
EXTENDS Integers, Sequences

CONSTANTS
    Callers,          \* processes, each with one tool call to make
    OperationOf,      \* [Callers -> operations]
    BackendOutcomes,  \* what an executed operation can report
    Uses,             \* uses left on the grant
    Offsets,          \* VPS clock less the Connector's, as corrections may set it
    RequestTtl,       \* MAX_REQUEST_TTL_SECONDS or the operation's own timeout
    GrantExpiry,      \* when the grant on file expires
    SnapshotTtl,      \* DEFAULT_SNAPSHOT_TTL_SECONDS
    MaxClockSkew,     \* limits.MAX_CLOCK_SKEW_SECONDS
    MaxRecords,       \* audit._MAX_EVIDENCE_RECORDS
    EarlierEvidence,  \* what the ledger may hold from earlier calls
    MaxClock

ASSUME ExchangeAssumption ==
    /\ {RequestTtl, GrantExpiry, SnapshotTtl, MaxClockSkew, MaxRecords, MaxClock,
        Uses} \subseteq Nat
    /\ Offsets \subseteq -MaxClockSkew..MaxClockSkew
    /\ 0 \in Offsets
    /\ BackendOutcomes \subseteq {"ok", "invalid_input", "transient", "unbound"}

\* A request is named by its caller and the number of its signing.  That a call
\* never spends on a second one is for OneUsePerCall to show.
Requests == Callers \X {1, 2}

\* The evidence of earlier calls is whole, in order, and of other requests.
EarlierRecords == UNION {{l[i] : i \in 1..Len(l)} : l \in EarlierEvidence}
ASSUME EvidenceAssumption ==
    /\ EarlierEvidence \subseteq Seq(EarlierRecords)
    /\ \A e \in EarlierRecords : e.request \notin Requests /\ e.recorded_at \in Int
    /\ \A l \in EarlierEvidence :
          /\ Len(l) <= MaxRecords
          /\ \A i, j \in 1..Len(l) : i <= j => l[i].recorded_at <= l[j].recorded_at

VARIABLES
    \* the Connector (see MeteredExecution)
    settled, budget, live, revoked,
    \* the network
    wire,             \* copies of requests on their way to the Connector
    \* the VPS
    call,             \* what each caller is doing
    ledger,           \* the records of the evidence ledger, as written
    tail,             \* how its last line ends
    snapshot,         \* the snapshot file
    \* environment
    now,              \* time passing, and the Connector's clock
    offset            \* the VPS clock less now

connector == <<settled, budget, live, revoked>>
evidence  == <<ledger, tail>>
time      == <<now, offset>>
vars      == <<connector, wire, call, evidence, snapshot, time>>

\* One grant, which pays for every request.
Authority == INSTANCE MeteredExecution WITH
                Grants <- {"grant"}, GrantOf <- [r \in Requests |-> "grant"]

-----------------------------------------------------------------------------
NoAnswer   == [decision |-> "none", outcome |-> "none"]
ErrorFrame == [decision |-> "none", outcome |-> "protocol_mismatch"]
NoSnapshot == [state |-> "none", operation |-> "none", observed_at |-> 0]

Idle ==
    [at |-> "idle", signing |-> 0, attempt |-> 0, issued_at |-> 0, deadline |-> 0, expires |-> 0,
     answer |-> NoAnswer, observed_at |-> 0, outcome |-> "none"]

Init ==
    /\ settled = [r \in Requests |-> "fresh"]
    /\ budget = [g \in {"grant"} |-> Uses]
    /\ live = {"grant"}
    /\ revoked = {}
    /\ wire = {}
    /\ call = [c \in Callers |-> Idle]
    /\ ledger \in EarlierEvidence
    /\ tail = "clean"
    /\ snapshot = NoSnapshot
    /\ now = 0
    /\ offset = 0

VpsClock == now + offset

Request(c) == <<c, call[c].signing>>

-----------------------------------------------------------------------------
(* Availability, which gates each call.                                    *)

Fresh(c) ==
    /\ snapshot.operation = OperationOf[c]
    /\ snapshot.observed_at <= VpsClock + MaxClockSkew
    /\ VpsClock - snapshot.observed_at <= SnapshotTtl

Available(c)   == Fresh(c) /\ snapshot.state = "authenticated"
Unavailable(c) ==
    \/ Fresh(c) /\ snapshot.state = "unavailable"
    \/ snapshot.observed_at > VpsClock + MaxClockSkew
    \/ VpsClock >= GrantExpiry

-----------------------------------------------------------------------------
(* The exchange.                                                           *)

\* The operation's own time, or what is left of the grant on file.
Deadline == IF VpsClock + RequestTtl <= GrantExpiry THEN VpsClock + RequestTtl ELSE GrantExpiry

\* One request, signed now, and the moment at which its exchange is given up.
Invocation ==
    [Idle EXCEPT !.at = "dialing", !.signing = 1, !.issued_at = VpsClock,
                 !.deadline = Deadline, !.expires = now + (Deadline - VpsClock)]

\* ConnectorClient.execute up to its first await: availability and the grant on
\* file allow the call, and one request is signed for it.
Start(c) ==
    /\ call[c].at = "idle"
    /\ ~Unavailable(c)
    /\ now + RequestTtl <= MaxClock
    /\ call' = [call EXCEPT ![c] = Invocation]
    /\ UNCHANGED <<connector, wire, evidence, snapshot, time>>

\* The pinned connection is open and the request is written to it: from here on
\* its delivery is unknown.
Send(c) ==
    /\ call[c].at = "dialing"
    /\ now < call[c].expires
    /\ wire' = wire \cup {[request |-> Request(c), attempt |-> call[c].attempt,
                            deadline |-> call[c].deadline]}
    /\ call' = [call EXCEPT ![c].at = "waiting"]
    /\ UNCHANGED <<connector, evidence, snapshot, time>>

\* The caller still listens on the connection over which m was sent.
Listening(m) ==
    LET k == call[m.request[1]] IN
    /\ k.at = "waiting"
    /\ k.signing = m.request[2]
    /\ k.attempt = m.attempt

Reply(m, answer) ==
    call' = IF Listening(m) THEN [call EXCEPT ![m.request[1]].answer = answer] ELSE call

\* Mutant: a denial is answered without being committed.
Serve_DeniesInPassing(m) ==
    /\ m \in wire
    /\ wire' = wire \ {m}
    /\ \/ /\ now < m.deadline
          /\ Authority!Spend(m.request)
          /\ \E o \in BackendOutcomes : Reply(m, [decision |-> "allow", outcome |-> o])
       \/ /\ settled[m.request] = "fresh"
          /\ Reply(m, [decision |-> "deny", outcome |-> "denied"])
          /\ UNCHANGED connector
    /\ UNCHANGED <<evidence, snapshot, time>>

\* A copy arrives.  It is executed, refused for good, refused as seen before, or
\* answered without a signature (locked, unverifiable, overdue).
Serve(m) ==
    /\ m \in wire
    /\ wire' = wire \ {m}
    /\ \/ /\ now < m.deadline
          /\ Authority!Spend(m.request)
          /\ \E o \in BackendOutcomes : Reply(m, [decision |-> "allow", outcome |-> o])
       \/ /\ Authority!Refuse(m.request)
          /\ Reply(m, [decision |-> "deny", outcome |-> "denied"])
       \/ /\ settled[m.request] # "fresh"
          /\ Reply(m, [decision |-> "deny", outcome |-> "replayed"])
          /\ UNCHANGED connector
       \/ /\ Reply(m, ErrorFrame)
          /\ UNCHANGED connector
    /\ UNCHANGED <<evidence, snapshot, time>>

-----------------------------------------------------------------------------
(* What ends a call.                                                       *)

\* The call is over; of its errors, one is like another here.
Ended(c, outcome) ==
    [call EXCEPT ![c] = [Idle EXCEPT !.at = "ended", !.signing = call[c].signing,
                                     !.outcome = outcome]]

Projection(c, state, t) ==
    [state |-> state, operation |-> OperationOf[c], observed_at |-> t]

\* _save_snapshot_after_error: the error is raised whether or not it is saved.
Raise(c, state) ==
    /\ call' = Ended(c, "error")
    /\ snapshot' \in {snapshot, Projection(c, state, VpsClock)}
    /\ UNCHANGED <<connector, wire, evidence, time>>

\* _retry_eligible.
Retryable(c) == call[c].attempt = 0 /\ now < call[c].expires

\* Mutant: the retry signs a request of its own.
Breaks_SignsAgain(c) ==
    /\ call[c].at \in {"dialing", "waiting"}
    /\ Retryable(c)
    /\ call' = [call EXCEPT ![c].at = "dialing", ![c].attempt = 1, ![c].signing = 2,
                            ![c].answer = NoAnswer]
    /\ UNCHANGED <<connector, wire, evidence, snapshot, time>>

\* Mutant: a deadline that has passed is left to the transport to notice.
Breaks_RetriesOnly(c) ==
    /\ call[c].at \in {"dialing", "waiting"}
    /\ Retryable(c)
    /\ call' = [call EXCEPT ![c].at = "dialing", ![c].attempt = 1, ![c].answer = NoAnswer]
    /\ UNCHANGED <<connector, wire, evidence, snapshot, time>>

\* The Connector is offline, or the connection breaks or times out: the identical
\* invocation goes out once more while its deadline allows, sent before or not.
Breaks(c) ==
    /\ call[c].at \in {"dialing", "waiting"}
    /\ \/ /\ Retryable(c)
          /\ call' = [call EXCEPT ![c].at = "dialing", ![c].attempt = 1,
                                  ![c].answer = NoAnswer]
          /\ UNCHANGED <<connector, wire, evidence, snapshot, time>>
       \/ /\ ~Retryable(c)
          /\ Raise(c, "disconnected")

\* The leaf does not verify, or what comes back is no record: never retried.
Mismatch(c) ==
    /\ call[c].at \in {"dialing", "waiting"}
    /\ Raise(c, "unavailable")

\* BoundedRunner cancels the call at its own timeout, or its process dies at any
\* point: nothing is saved.
Abandoned(c) ==
    /\ call[c].at \notin {"idle", "ended"}
    /\ call' = Ended(c, "error")
    /\ UNCHANGED <<connector, wire, evidence, snapshot, time>>

-----------------------------------------------------------------------------
(* An answer.                                                              *)

RefuseFrame(c) ==
    /\ call[c].at = "waiting"
    /\ call[c].answer = ErrorFrame
    /\ Raise(c, "unavailable")

Signed(c) == call[c].at = "waiting" /\ call[c].answer.decision # "none"

\* A success must come before the deadline, and no receipt ends before its request
\* was issued.  MAX_RECEIPT_TTL_SECONDS outlasts every exchange.
OutOfWindow(c) ==
    \/ call[c].answer.outcome = "ok" /\ VpsClock >= call[c].deadline
    \/ VpsClock + MaxClockSkew < call[c].issued_at

\* verify_response fails: RECEIPT_EXPIRED leaves no evidence and no snapshot.
RefuseReceipt(c) ==
    /\ Signed(c)
    /\ OutOfWindow(c)
    /\ call' = Ended(c, "error")
    /\ UNCHANGED <<connector, wire, evidence, snapshot, time>>

\* The clock is read, the receipt verifies, and append_verified waits for its turn.
Verify(c) ==
    /\ Signed(c)
    /\ ~OutOfWindow(c)
    /\ call' = [call EXCEPT ![c].at = "verified", ![c].observed_at = VpsClock]
    /\ UNCHANGED <<connector, wire, evidence, snapshot, time>>

RecordOf(c) ==
    [request |-> Request(c), attempt |-> call[c].attempt, receipt |-> call[c].answer,
     recorded_at |-> call[c].observed_at]

\* Mutant: records are appended in whatever order they come.
Appendable_AnyOrder(c) == tail # "cut" /\ Len(ledger) < MaxRecords

\* Under the lock the chain verifies, has room, and is not ahead of this record.
\* A Connector never gives two receipts one identifier.
Appendable(c) ==
    /\ tail # "cut"
    /\ Len(ledger) < MaxRecords
    /\ ledger # <<>> => ledger[Len(ledger)].recorded_at <= call[c].observed_at

\* append_verified.  A line that lacks its newline verifies, and the record that
\* follows it ends up on the same line.
Record(c) ==
    /\ call[c].at = "verified"
    /\ Appendable(c)
    /\ ledger' = Append(ledger, RecordOf(c))
    /\ tail' = IF tail = "clean" THEN "clean" ELSE "cut"
    /\ call' = [call EXCEPT ![c].at = "recorded"]
    /\ UNCHANGED <<connector, wire, snapshot, time>>

\* Mutant: evidence that cannot be kept does not stop the result.
CannotRecord_GoesOn(c) ==
    /\ call[c].at = "verified"
    /\ ~Appendable(c)
    /\ call' = [call EXCEPT ![c].at = "recorded"]
    /\ UNCHANGED <<connector, wire, evidence, snapshot, time>>

\* ReceiptEvidenceError: the operation was executed, and the caller gets nothing.
CannotRecord(c) ==
    /\ call[c].at = "verified"
    /\ ~Appendable(c)
    /\ Raise(c, "unavailable")

\* The write fails or stops short, its fsync fails, or the process dies in it.
WriteFails(c) ==
    /\ call[c].at = "verified"
    /\ Appendable(c)
    /\ \/ UNCHANGED evidence
       \/ /\ tail' = "cut"
          /\ UNCHANGED ledger
       \/ /\ tail' \in IF tail = "clean" THEN {"clean", "unterminated"} ELSE {"cut"}
          /\ ledger' = Append(ledger, RecordOf(c))
    /\ call' = Ended(c, "error")
    /\ snapshot' \in {snapshot, Projection(c, "unavailable", VpsClock)}
    /\ UNCHANGED <<connector, wire, time>>

\* Mutant: every signed answer counts as a sign of life.
StateOf_AnySignature(receipt) == "authenticated"

\* _snapshot_from_receipt.
StateOf(receipt) ==
    CASE receipt.outcome \in {"ok", "invalid_input"}   -> "authenticated"
      [] receipt.outcome \in {"transient", "replayed"} -> "disconnected"
      [] OTHER                                         -> "unavailable"

\* The snapshot is saved, whatever is there, and the receipt's outcome returned;
\* a snapshot that cannot be saved is an error of its own here.
Save(c) ==
    /\ call[c].at = "recorded"
    /\ \/ /\ snapshot' = Projection(c, StateOf(call[c].answer), call[c].observed_at)
          /\ call' = Ended(c, IF call[c].answer.outcome = "ok" THEN "ok" ELSE "error")
       \/ /\ call' = Ended(c, "error")
          /\ UNCHANGED snapshot
    /\ UNCHANGED <<connector, wire, evidence, time>>

-----------------------------------------------------------------------------
Tick ==
    /\ now < MaxClock
    /\ now' = now + 1
    /\ UNCHANGED <<connector, wire, call, evidence, snapshot, offset>>

\* The VPS clock is corrected.
Adjust ==
    /\ offset' \in Offsets \ {offset}
    /\ UNCHANGED <<connector, wire, call, evidence, snapshot, now>>

Proceed(c) ==
    \/ Send(c) \/ Breaks(c) \/ Mismatch(c)
    \/ RefuseFrame(c) \/ RefuseReceipt(c) \/ Verify(c)
    \/ Record(c) \/ CannotRecord(c) \/ WriteFails(c) \/ Save(c)

Next ==
    \/ \E c \in Callers : Start(c) \/ Proceed(c) \/ Abandoned(c)
    \/ \E m \in wire : Serve(m)
    \/ Tick
    \/ Adjust

Spec == Init /\ [][Next]_vars

\* Time passes, asyncio.timeout_at ends every exchange at its deadline, and what
\* follows an answer waits for nothing but the lock.
Fairness ==
    /\ WF_vars(Tick)
    /\ \A c \in Callers :
         /\ WF_vars(now >= call[c].expires /\ Breaks(c))
         /\ WF_vars(call[c].at \in {"verified", "recorded"} /\ Proceed(c))

FairSpec == Spec /\ Fairness

-----------------------------------------------------------------------------
(* Properties.                                                             *)

Receipts ==
    {NoAnswer, ErrorFrame}
        \cup [decision : {"allow"}, outcome : BackendOutcomes]
        \cup [decision : {"deny"}, outcome : {"denied", "replayed"}]

Calls ==
    [at : {"idle", "dialing", "waiting", "verified", "recorded", "ended"},
     signing : {0, 1}, attempt : {0, 1}, issued_at : Int, deadline : Int, expires : Int,
     answer : Receipts, observed_at : Int, outcome : {"none", "ok", "error"}]

Records ==
    [request : Requests, attempt : {0, 1}, receipt : Receipts, recorded_at : Int]

\* Every variable has its type, a call is signed once, and the ledger has room for
\* what it holds.
TypeOK ==
    /\ settled \in [Requests -> {"fresh", "spent", "refused"}]
    /\ budget \in [{"grant"} -> Nat]
    /\ live = {"grant"} /\ revoked = {}
    /\ wire \subseteq [request : Requests, attempt : {0, 1}, deadline : Int]
    /\ call \in [Callers -> Calls]
    /\ ledger \in Seq(EarlierRecords \cup Records) /\ Len(ledger) <= MaxRecords
    /\ tail \in {"clean", "unterminated", "cut"}
    /\ snapshot.state \in {"none", "authenticated", "disconnected", "unavailable"}
    /\ now \in 0..MaxClock
    /\ offset \in Offsets

\* A caller that gets a result has the receipt for it in the ledger, and the
\* Connector has spent a use on that very request.
ResultIsRecorded ==
    \A c \in Callers : call[c].outcome = "ok" =>
        /\ settled[Request(c)] = "spent"
        /\ \E i \in 1..Len(ledger) :
             /\ ledger[i].request = Request(c)
             /\ ledger[i].receipt = [decision |-> "allow", outcome |-> "ok"]

\* A receipt says what the Connector settled: an accepted request was executed, a
\* denied one never is, one denied as a replay has been settled before.
Truthful(receipt, r) ==
    \/ receipt.decision = "allow" /\ settled[r] = "spent"
    \/ receipt = [decision |-> "deny", outcome |-> "denied"] /\ settled[r] = "refused"
    \/ receipt = [decision |-> "deny", outcome |-> "replayed"] /\ settled[r] # "fresh"

\* What the ledger says of a request is true, and stays so when late copies
\* arrive.  No request is there twice.
EvidenceMatchesAuthority ==
    \A i \in 1..Len(ledger) : ledger[i].request \in Requests =>
        /\ Truthful(ledger[i].receipt, ledger[i].request)
        /\ \A j \in 1..Len(ledger) : ledger[j].request = ledger[i].request => i = j

\* One tool call costs at most one use, however often it is sent.
OneUsePerCall ==
    \A c \in Callers : ~(settled[<<c, 1>>] = "spent" /\ settled[<<c, 2>>] = "spent")

\* The ledger passes its own check: _read_records refuses a chain whose times go
\* back, and every call with it, whichever process wrote it and by which clock.
TimesNeverGoBack ==
    \A i, j \in 1..Len(ledger) : i <= j => ledger[i].recorded_at <= ledger[j].recorded_at

\* An operation shown as available has answered with a receipt that is on record
\* and that a Connector signed after executing a request for that operation.
AvailableIsBacked ==
    \A c \in Callers : Available(c) =>
        \E i \in 1..Len(ledger) :
            /\ ledger[i].recorded_at = snapshot.observed_at
            /\ ledger[i].receipt.decision = "allow"
            /\ OperationOf[ledger[i].request[1]] = snapshot.operation

\* Every call comes back.
CallReturns == \A c \in Callers : call[c].at # "idle" ~> call[c].at = "ended"

=============================================================================
