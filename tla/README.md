# Verification of hermes-reach

hermes-reach gives an assistant running on a VPS read access to public and
signed-in web sources. What needs the owner's own device (a browser session, a
local file, a secret) runs in the *Connector*, a foreground process on that
device. The VPS reaches it over mutually authenticated WSS with signed requests
and gets signed receipts back. These TLA+ modules model the parts of that
system in which order, concurrency, failure and time decide whether it is
right: the authority that meters what a VPS may do, the state directory and the
life of an unlocked Connector, the pairing that creates the authority in the
first place, the VPS's own side of an operation with its retry and its evidence,
the files an owner approves, the worker processes, and the path of a source's
answer from the fork that fetched it to the caller.

Paths below are relative to `src/src/hermes_reach/`.

- [The system](#the-system): the parts, their state and how they interact
- [The modules](#the-modules): what is modelled and how it corresponds to the code
- [The runs](#the-runs): what TLC checks, on which instances, and what that shows
- [Fairness](#fairness)
- [The proofs](#the-proofs)
- [Findings](#findings)
- [Limits](#limits): what the models assume, and what is not modelled
- [Plan](#plan)

## The system

| Part | State it keeps | Operations | Correct when |
|---|---|---|---|
| Authority store (`connector/store.py`) | SQLite tables: devices, device keys, grant lineages and revisions, scopes, policy, `request_claims`, pairings | `begin_pairing`, `approve_pairing`, `deny_pairing`, `replace_grant`, `revoke_device`, `revoke_grant`, `advance_policy_revision`, `claim`, `complete_claim`, `cleanup`, each one `BEGIN IMMEDIATE` transaction | a request runs at most once; a grant pays for exactly `max_uses`; nothing restores revoked, superseded or spent authority |
| Grant authority (`connector/authority.py`) | the signing identity while unlocked; a mutex | `_activate_from_service`, `lock`, `authorize_and_handoff`, `deny_authenticated_request`, `complete` ; `BoundReceiptIssuer.issue` | no handoff without a committed claim; a receipt states what was committed |
| Service (`connector/service.py`) | `_server`, `_signer`, the command loop | `unlock`, `lock`, `exit`, `pending`, `approve`, `deny`; `_handle_operation`, `_handle_pairing` | the key is in use only between unlock and lock; every handler settles |
| WSS listener (`connector/transport.py`) | socket, TLS leaf, connection tasks, expiry task, shared close task | `start`, `close`, `_close_at_expiry`, `_serve_connection` | whoever begins a shutdown, it releases everything, once |
| VPS client (`connector/client.py`) | profile file, availability snapshots | `pair`, `poll`, `execute`, `resolve` | a paired VPS holds what the owner approved; a result is believed only with a verified receipt |
| Receipt evidence (`connector/audit.py`) | one locked, hash-chained file | `append_verified`, `records`, `prune` | the chain verifies after every append, prune and crash |
| Operation audit (`audit/ledger.py`) | a hash-chained file, not locked | `append`, `records`, `prune` | the same, for one writer |
| Wire protocol (`connector/protocol.py`) | none | encoding, parsing, signing and verifying of records | one encoding per record; time windows and contexts are enforced |
| State directory (`connector/identity.py`, `tls.py`, `store.py`, `cli.py`) | writer lock, sealed key file, CA certificate, database; one TLS leaf per unlock | `init`, `serve`, inspection; create, open, mint | what opens is complete and of one identity; nothing is overwritten |
| Local media (`connector/media_policy.py`) | pending and granted files, in memory | `propose`, `approve`, `consume`, `clear` | a grant opens one unchanged file once |
| Secrets (`connector/secrets.py`, `bitwarden_helper.py`) | one-use leases, a helper process | acquire, use, release | a secret is used once and wiped |
| Runner (`runtime/`) | the attempts of one call | `run`, `_attempt`, `_bounded`; dispatch, registry, responses | one time budget over attempts, retry and fallback; a cancelled call stays cancelled; what was cut is said to be |
| Sources (`sources/`) | worker processes, each with its private directory | request, fetch, start, feed, time out, kill, reap, decode, project | no worker and no secret outlives its call; an answer is to the call; a loss is told |
| Bridge (`agent_reach_bridge.py`) | none | attests the installed fork | (static) |
| Catalog, contracts, schemas, plugin, CLI | none | validation, wiring, presentation | (static) |

How they interact. A VPS tool call passes the runner, reaches the Connector
source adapter, and `execute` in the client, which signs a request and sends it
over WSS, twice at most. In the Connector the connection's handler task verifies
it outside every lock, then enters the authority's mutex, where one store
transaction decides; the executor runs after the mutex is left. A receipt is
signed, the claim is marked complete, and the response goes back; the client
verifies it, appends it to the evidence ledger and saves a snapshot of the
operation's availability. Pairing takes the same listener but its decision comes
from the owner, at a blocking prompt in the command loop. The command loop, the
listener, its connections and its timers share one event loop; the store is
shared with no other process (`StoreWriterLease`).

A source that needs no device is called on the VPS itself: the adapter makes a
request, a worker process runs the Agent-Reach fork and answers with one frame on
a pipe, and the adapter projects the frame to a result. The social sources and
Xueqiu take the same path inside the Connector, as executors of a granted
operation, and the frame becomes the operation's signed result.

What is hard in this code, with the line at which it bites, is the list
`hazards` of `PROJECT.json`. In short: what was verified before a lock, an await
or a prompt and is used after it; copies and retries of signed requests; crashes
between a claim and its receipt, or between two files of the state directory;
clock readings taken at different moments and on different hosts, and clocks that
step back; tasks that cancel and await one another during shutdown; cancellations
and timers that arrive while a worker is being cleaned up; files written by two
processes, or read while they are written; and rules written twice, once on each
side of a pipe.

## The modules

| Module | Models |
|---|---|
| `MeteredExecution` | the promise of the authority to a device owner, without clocks, rows, handlers or crashes |
| `ConnectorAuthority` | the store's authority tables, `GrantAuthority`, and the handlers of `ConnectorService` from socket to receipt; implements `MeteredExecution` |
| `UnlockLease` | the promise of unlock and lock |
| `StateDirectory` | the files of the Connector and their writer lock, under `init`, `serve` and inspection |
| `ServiceLifecycle` | `StateDirectory`, and on it the command loop, listener, expiry task, close task, connection and handler tasks; implements `UnlockLease` |
| `Pairing` | both sides of pairing, profile file and pairings table included, on two clocks |
| `ConnectorExchange` | the VPS client's `execute`, the network, the evidence ledger and the snapshot, against `MeteredExecution` |
| `FileGrants` | the registry of approved files, and the executions that spend a grant |
| `WorkerSupervision` | the attempts of one call and the processes they start, on either side |
| `SourceResults` | the frames and results the parts of a source call hand to each other |
| `PublicFetch` | one hop of a public HTTP fetch |
| `V2exSource`, `RssSource`, `BilibiliSource`, `YoutubeSource`, `ExaSource`, `XueqiuSource`, `OpencliSource` | per source: calls, request, worker, parent, projection, as operators |
| `SourceCall` | one call of any of them, from the tool to the response |
| `*Proofs` | theorems about the module of that name |
| `SourceAnswerProofs` | theorems about what `SourceCall` answers, on top of `SourceCallProofs` |
| `MC*` | constants of the small instances for TLC, where the `.cfg` cannot name them |

The modules of the Connector meet at one interface. A handler of
`ServiceLifecycle` that goes from `created` to `executing` or `done` is a handler
of `ConnectorAuthority` that goes through `Receive` to `AuthorizeAccepted` or to
a refusal; `service.signer # 0` in the one is `signer` in the other; a cancelled
handler of the one is `Cancel` of the other. `ConnectorAuthority` lets `Lock` and
`Activate` happen at any moment, and so covers every order in which
`ServiceLifecycle` can produce them. In the same way `Pairing` produces
`ApprovePairing`, which `ConnectorAuthority` lets happen at any moment for any
unpaired device, `FileGrants` sees the authority as one number that may change
between any two of its steps, and `WorkerSupervision` with `side = "connector"` is
what happens inside `Execute`. `ConnectorExchange` uses the Connector by its
promise alone: its `Serve` takes the actions of `MeteredExecution`, which the
theorem `Refinement` says `ConnectorAuthority` implements. `SourceCall` says what
a worker's answer becomes, `WorkerSupervision` what becomes of the worker.

### ConnectorAuthority

State: `grant` is the current row of `grant_revisions` with its scopes and
counter; `device_revoked`, `grant_revoked` the two `revoked_at` columns; `policy`
the policy table; `request_claims` the claim rows; `signer` the signing identity
in memory; `handler[h]` the local variables of one `_handle_operation`. The
durable variables survive `Crash`, the others do not. `handoffs`, `refused` and
`receipts` are history: no action reads them. Superseded revisions need no state
of their own, because no code path writes to them and `claim` refuses them by
number.

One identifier stands for a device, its key and its grant lineage:
`approve_pairing` makes the three together and nothing else makes any of them.

| Action | Code |
|---|---|
| `ApprovePairing`, `ReplaceGrant`, `RevokeDevice`, `RevokeGrant`, `AdvancePolicyRevision`, `Cleanup` | the `AuthorityStore` methods of those names |
| `Activate`, `Lock` | `GrantAuthority._activate_from_service`, `lock` |
| `Receive` | `_handle_operation` up to the mutex: lookup of the device's key, `verify_signed_request`, `now` read once |
| `AuthorizeAccepted`, `AuthorizeDenied` | `authorize_and_handoff` with `AuthorityStore.claim`; `Refusal` lists claim's checks in claim's order |
| `AuthorizeLocked` | the same after the signer has gone: `deny_authenticated_request` |
| `Execute` | the executor and the deadline check after it |
| `IssueReceipt`, `AbandonReceipt` | the second reading of the clock and `BoundReceiptIssuer.issue` |
| `CompleteClaim` | `complete_claim` |
| `Cancel` | cancellation at the handler's only await |
| `Crash`, `Tick`, `StepBack` | the host |

### StateDirectory

`files` holds the four entries of the directory, `lock` who holds the lock on the
writer lock file, `process[p]` the command each process runs and where it is. A
key or certificate is written under a temporary name (`temporary`), linked to its
own (`linked`, when it has two links and no reader accepts it) and unlinked from
the temporary one (`whole`); the database is created `empty` and becomes `ready`
in one transaction. An identity is named by the process that generated it.

| Action | Code |
|---|---|
| `CreateLockFile`, `Enter` | `StoreWriterLease`, which only `init` lets create the file |
| `BeginInit` | `_require_initialization_directory` |
| `WriteKey`, `WriteCertificate`, `Link`, `Unlink` | `_create_key_file` and the same steps for the certificate |
| `CreateDatabase`, `CommitDatabase` | `AuthorityStore.initialize` |
| `InitFails` | the cleanups of a failed step; `Dies`: a killed process, of any command but a serving one |
| `OpenStore` | `_open_state_directory`: the certificate, the lock, the store; nobody looks at the key before unlock |
| `Inspects` | `OfflineConnectorInspector` |

### ServiceLifecycle

One action is what one task does between two awaits. `owner` is the command
loop, `service` the two attributes that decide admission, `closer[l]` and
`expiry[l]` the shared close task and the expiry task of lease `l`, `conn[c]` and
`handler[c]` a connection's own task and the handler task it creates. Which of
two ready tasks runs first is left open. asyncio runs them in the order in which
they became ready, so the model has more orders than one build of the loop, and
none fewer. The service opens and closes with one of the processes of
`StateDirectory`, and is not killed while it serves: what a crash leaves behind is
the subject of `ConnectorAuthority` and `Pairing`.

`close()` is the delicate part. The first caller creates the close task, every
caller shields and awaits it, and a caller that is cancelled meanwhile swallows
the cancellation, goes on waiting and re-raises at the end (`Interrupt`, and the
`expiry` component in `FinishStarts`).

### Pairing

A pairing is identified by its key and the number of the attempt; the leaf
certificate in the challenge is what else can differ between what the two ends
display, so identifier and leaf stand for the transcript and for the short
authentication string derived from it. `Answer` is `_handle_pairing` with
`begin_pairing`; `Review`, `Approve`, `Deny`, `Decline` are the owner's commands,
split where the prompt waits; `Expired` is `_expire_pending`, which every method
runs first. On the VPS, `Pair` is the start or resumption of the orchestrator,
`Challenged` the exchange with its save before display, `Polled` the poll with
`commit_paired`, `Fails` every way of losing the connection or the process, after
which only the profile file is left.

The VPS's clock differs from the Connector's by a constant, chosen at the start,
within the allowed skew or beyond it. Each record has its own window, read on the
clock of whoever looks: `InitVerified`, `ChallengeAllowed`, `ChallengeVerified`,
`GrantVerified` and `CompleteVerified` are those windows, and they are not the
same. A challenge is refused by its own constructor when the VPS is ahead and the
pairing's deadline therefore lies more than `PairingTtl` after the Connector's
now; a first grant is refused while the VPS's clock is behind its `not_before`, for
which no skew is allowed.

### ConnectorExchange

Each caller is a process with one call to make. Processes share the two files
and no memory; calls of one process, which `asyncio.gather` runs concurrently,
interleave less, because nothing is awaited from `Verify` to `Save`. `wire` holds
the copies of requests under way: `Send` adds one, `Serve` takes one, and a copy
whose connection has gone (`Breaks`, `Abandoned`) stays until it arrives, or never
does. `ledger` and `tail` are the evidence file: its records, and whether its last
line is whole.

| Action | Code |
|---|---|
| `Start` | the availability gate of `resolve` and `execute` up to its first await |
| `Send` | `_exchange_record` up to `send_text` |
| `Serve` | `_handle_operation`, by its promise |
| `Breaks` | connection errors and timeouts, `_retry_eligible` and the retry |
| `Mismatch`, `RefuseFrame` | what is never retried |
| `Abandoned` | cancellation by the runner, or the end of the process |
| `Verify`, `RefuseReceipt` | the second reading of the clock and `verify_response` |
| `Record`, `CannotRecord`, `WriteFails` | `append_verified` under the file lock, its checks, and every way the write can end |
| `Save` | `_snapshot_from_receipt` and the snapshot file |
| `Tick`, `Adjust` | the host's clock and its correction |

### FileGrants

The owner's thread proposes a file (`OwnerBegins`, `OwnerProposes`), sees its
digest, confirms or declines, and grants it after a second reading
(`OwnerApproves`, `OwnerGrants`); a request whose claim names the grant consumes
it (`UserConsumes`), holds the copy (`UserHolds`), and a one-use execution hands
the copy to its executor (`UserExecutes`, `ExecutorReads`, `ExecutorEnds`,
`Abandon`). Every reading is two steps outside the registry's mutex, and `Write`,
`Clear`, `LockOrUnlock`, `AuthorityChanges` and `Tick` come between any two steps. A
write may leave the file's stat as it was. `context` stands for the device, the
grant with its revision, the policy and the operation, which the code compares
one by one.

### WorkerSupervision

`phase` is where the coroutine that supervises the attempt is, `leader[a]` and
`child[a]` the worker's process and one it has started, `directory[a]` its private
directory, `timer` the deadlines that apply. `side = "vps"` is `BoundedRunner` over
the adapters of `sources/`: primary binding twice, fallbacks once, one budget,
SIGKILL to the worker's process group before anything is awaited. The signal
reaches what is in that group: `Apart` says which workers start their processes in
groups of their own (Exa's mcporter on the VPS, OpenCLI's Node in the Connector), and
`SignalGroup` passes those by. `side = "connector"` is an executor under `asyncio.timeout_at`: SIGTERM, a time of grace, then SIGKILL.
`retries = "binding"` is the binding that repeats nothing (Exa, and Xueqiu, whose
attempt 0 is the helper process that fetches the secret).

`Thrown` is `CancelledError` at the await the coroutine is in: in `spawning` and
`exchanging` it starts the cleanup, in `grace` and `reaping` it ends it
(`Abandon`), because `cleanup_worker_resources` catches `Exception` only. The frame
that held the `TemporaryDirectory` is then dropped with the coroutine, and the
object's finalizer removes the directory at some later step (`Finalize`), whether
or not the worker still runs in it. Timers fire once, the caller may cancel again
and again.

### SourceCall and its sources

Each source module has the same operators, named after it: `Calls` (what the
catalog lets through), `Request` (what the adapter makes of a call), `ForkLists`
(what the fork may return, right or wrong), `Worker` (the frame the worker writes
for it), `Decode` (what the parent accepts), `Broken` (a worker that exits, writes
nonsense or too much), `Adapted` (the projection). `SourceCall` runs one call
through them.

| Action | Code |
|---|---|
| `TurnAway`, `Prepare` | `_dispatch_group`, the registry as `bootstrap.py` and `build_vps_runtime` fill it, `RuntimeDispatcher.dispatch`, the adapters' `execute` up to the worker |
| `FetchHop` | `PublicHttpTransport`: one hop of a feed's redirects, then the RSS preflight |
| `WorkerAnswers`, `WorkerBreaks` | the `main` of the workers |
| `AskAgain` | the second worker of `OpenCliSocialExecutor` |
| `Receive` | decoding in the parent, projection, and for the Connector's sources the signed result in between |
| `Bound` | `BoundedRunner._bounded`, `runner_group`, `execution_response` |

An item is reduced to its schema, the identifiers the validators compare and
whether everything else in it is within its bounds. Two kinds of item keep more,
because their worker and their parent do not ask the same of it: a YouTube item says
whether its title is only white space, and an OpenCLI item which of its required
texts is too long (`over`) and where in it the cut would fall (`gap`). The fork may return any list
of such items, of any order and length up to `MaxForkItems`, claim to be
truncated or partial, give any code, or answer for another source or operation.
OpenCLI's trimming of items to a budget of characters is modelled as it is
computed, fields dropped first, then text, then items. Its seventeen operations
have four shapes, and one operation of each shape and target stands for those
that share them.

## The runs

Every passing run explores its whole state space. The bounds are chosen so that
each hazard the run is about happens within them; a property that is stated for
all handlers or requests can only be broken by two of them, or by one and a past
one, which is why two suffice. Where a property is also proved, the run is a check
of the model, and the theorem has no bounds.

| Run | Instance | What it shows |
|---|---|---|
| `authority_replay` | 2 handlers, copies of one request at 0 and another under the same identifier at 4, a grant of two uses, clock to 5, retention 3, fairness | At most once, also after `Cleanup` has dropped the claim row, receipts that state commits, refinement of `MeteredExecution`, and every request settles. The clock runs far enough past retention for cleanup to drop a row and the identifier to be used again. |
| `authority_owner` | 2 handlers, 2 requests for the one use of the first of 2 revisions, 2 policies, an operation without executor, a clock that never steps back | Both requests are valid when they arrive: one is paid for and the other finds the limit exhausted, in whichever order they reach the store. Every owner command comes between verification, claim, execution and receipt; completion is never refused. The requests end at different times. |
| `authority_unreceipted` | 2 devices, 1 handler, a clock that never steps back | Finding 1. |
| `lifecycle_lease` | 2 processes, 2 connections, 2 unlocks | From an empty directory: what opens is whole, nothing is overwritten; the lease is released before it is let go of, refinement of `UnlockLease`, and liveness. Two processes race and die over the directory; with two leases, a connection of the first can meet the second; with two connections, one can drain while one is served. |
| `lifecycle_shutdown` | 1 process, 1 connection, 1 unlock | Finding 2. |
| `pairing_key` | 1 key, its clock 1 behind, level, 1 or 2 ahead, 2 attempts, 2 leaves, clock to 6, TTL 2, skew 1, retention 3 | What a paired VPS believes, what both terminals show, approvals, decisions and liveness, for a key that pairs, fails, and pairs again. The clock runs past TTL and retention, so that rows expire and are dropped. |
| `exchange_call` | 1 caller, clocks 1 apart in either direction, ledger of 1 record | Whatever is sent again, lost or late, the call costs one use, ends, and leaves evidence that is true of what the Connector did. |
| `exchange_evidence` | 2 callers, a clock corrected by 1, ledger of 2 records, empty or with an earlier record | No result without its record, times that never go back and availability that is backed, when two processes append to one ledger, also when it is full, a write fails or the clock is set back. Two records and an earlier one fill the ledger. No request is recorded twice in either run of `ConnectorExchange`, since each caller makes one; that part of `EvidenceMatchesAuthority` is shown by its theorem only. |
| `source_call` | all seven sources; limits to 3, of which 2 items pass; lists of up to 3 items | What was fetched kept to its terms; what the worker writes the parent accepts, but for the fields of which the parent asks more (`ParentAsksMore`); the answer is to the call; every loss and every failure is told, through fork, worker, adapter, runner and response. Three items are one more than any limit lets through; three redirects are enough to meet http, https and a refused host in any order. |
| `worker_supervision` | both sides, one fallback, one child per worker, budget 5 for attempts of 2, grace 2 in a deadline of 3 | What the parent can signal is killed, the secret closed, a cancellation kept and a directory removed only behind its worker or by its finalizer, whichever await a timer or a cancellation meets; and the call returns. The budget cuts the third attempt short, and the deadline leaves no room for the whole time of grace. |
| `worker_grace` | the Connector's side | Finding 3. |
| `file_grants` | 2 executions of one grant, one identifier, 2 writes, 2 revisions, one lock, contents of two parts | What is read is what was approved, once. Two writes change a file and put it back; the second execution asks for a grant that is spent or being spent. |

Constants are scaled, their order is not: the code has a request TTL of 60 s, a
skew of 30 s, a pairing TTL of 300 s and a retention of 30 days, and the
instances keep TTL + skew + clock correction within retention, as
`TimeAssumption` and `PairingAssumption` demand. What `authority_owner`
shows of two requests for one use, `Metering` proves for any number of handlers,
requests, uses and revisions.

`lifecycle_*` allow the system to stop, since `exit` ends the program and the
unlocks are bounded, and `exchange_*` do, since each caller makes one call and the
clock is bounded. In every other run TLC also checks that the system never
deadlocks, but for a last step of its own where the bounds end.

## Fairness

- `ConnectorAuthority`: `Proceed(h)` is weakly fair. A handler is a task of an
  event loop whose only await is bounded by `asyncio.timeout_at` with the
  request's deadline. `Cancel`, `Crash`, the owner, the VPS and the clock are not
  fair; nothing depends on them.
- `ServiceLifecycle`: the tasks run on, and every wait for a peer ends
  (`_serve_connection` has an idle timeout and a request timeout, the WebSocket
  close has its own). Executors give way to cancellation. The owner's
  commands, the arrival of connections and messages and the expiry of the leaf
  are not fair, nor is anything in `StateDirectory`.
- `Pairing`: time passes, and the VPS's event loop runs its command, whose every
  wait for the network ends at the pairing deadline. Neither the owner nor the
  Connector is fair, so `PairReturns` holds against a Connector that is locked,
  dead or blocked at its prompt.
- `ConnectorExchange`: time passes, `asyncio.timeout_at` ends an exchange once its
  deadline has passed (`Breaks`), and what follows an answer waits for the file
  lock only, which no one holds across an await. The Connector, the network and
  the correction of the clock are not fair, so `CallReturns` holds against a
  Connector that never answers.
- `WorkerSupervision`: time passes, the event loop runs what is ready, timers that
  are due fire, and a process sent SIGKILL dies. No worker has to answer, exit or
  obey a SIGTERM, and no caller has to cancel.
- `SourceCall` and `FileGrants` have safety properties only and state no fairness.

## The proofs

Seven modules are proved about with TLAPS, in eight modules of proofs, for all values
of their constants: any number of devices, handlers, requests, processes,
connections, leases, keys, callers, attempts, executions, grants, redirects and items
of an answer, and all limits and time constants that satisfy the named assumptions.
Each module of proofs shows an inductive invariant and takes its theorems from it.
Every safety and action property of a passing run is stated by a theorem.

### ConnectorAuthorityProofs

Assumes `RequestAssumption` (a request lives at most `MaxRequestTtl`, as
`create_signed_request` and `verify_signed_request` enforce), `TermsAssumption`
(what an owner approves has uses and a lifetime), `TimeAssumption` (request TTL +
skew + clock correction is within the retention of claims) and
`ExecutionAssumption` (the null value is not an execution).

| Theorem | States | By |
|---|---|---|
| `TypeCorrect` | `TypeOK` | inductive as it stands, with `used_count <= max_uses` and the clock within `MaxBackStep` of its high-water mark |
| `AtMostOnce` | `ExecutedAtMostOnce` | `ReplayInv` |
| `Metering` | `UsesAreMetered` | `MeterInv` |
| `LiveAuthority` | `HandoffNeedsLiveAuthority` | `ReplayInv` |
| `NeverRevives` | `AuthorityNeverRevives` | `TypeOK` |
| `ReceiptsTellTheTruth` | `ReceiptsMatchCommits` | `CarriedInv` |
| `CompletionNeedsReceipt` | `CompletionFollowsReceipt` | `CompletionInv` |
| `CompletionIsAccepted` | `CompletionNeverRefused` | `FlightInv`, from two premises of its own |
| `Refinement` | `ImplementsMeteredExecution` | all of these, and `OwnerInv` |

The strengthenings, and why they are needed:

- `ReplayInv`. That a request ran is only remembered by its claim row, and
  cleanup drops rows. So `Remembered(r)` says: the row of `r.id` is there, or the
  high-water mark of the clock is so far past the request's deadline that no clock
  within `MaxBackStep` of it can take the request for live. It has a part on
  handlers in flight, whose `now` was read earlier. This is where
  `TimeAssumption` is used. It is one second from sharp: with a retention two
  shorter than it asks for, TLC finds a second execution in `authority_replay`.
- `MeterInv` splits the equation of `UsesAreMetered` into facts that one step can
  preserve: each execution of the current revision has a number up to
  `used_count`, each number has an execution, numbers are not shared, and no
  execution is of a revision still to come.
- `CarriedInv` ties what a handler carries (its execution, its failure code) to
  the history, so that the receipt it signs later is true.
- `CompletionInv` does the same for a handler that has signed and not completed.
- `FlightInv`: the row of a handler with a use to account for is the one it wrote,
  incomplete, no later than the clock, and no other such handler has it. The two
  premises of `CompletionIsAccepted` are where this can fail: a clock set back
  between two readings (`MaxBackStep = 0` excludes it; the code does not), and a
  cleanup that drops the row of a run still going on (`MaxRequestTtl + MaxClockSkew
  + MaxOverrun <= AuditRetention`: 60 + 30 seconds and an overrun of one turn of the
  loop against 30 days). The constants of `authority_owner` satisfy both.
- `OwnerInv`: only paired devices are revoked and no grant is bound to a policy
  still to come, which is what the mapping to `Endow` and `WithdrawAll` needs.

### ServiceLifecycleProofs

Assumes that the null process is none (`ProcessAssumption`) and that there is a
lease to open (`LeaseAssumption`).

| Theorem | States | By |
|---|---|---|
| `OpenedStoreIsUsable` | `OpensWhatInitMade` | `DirectoryInv` |
| `Preserved` | `StateIsPreserved` | `DirectoryInv` |
| `ReleasedWhenLetGo` | `LetGoIsReleased` | `RunInv` |
| `ServiceImplementsLease` | `ImplementsUnlockLease` | `SystemInv` |

`DirectoryInv` says why a store can be opened only when everything before it is
there: whoever runs a command holds the lock (`LockInv`); a certificate exists only
next to a whole key, and for its identity, a database only next to a whole
certificate, and a ready one is of the key's identity (`FilesInv`); and each place
of `init` is reached with the files before it whole (`PlaceInv`). `RunInv` has what
the command loop holds at each place (`OwnerInv`), that a lease whose close task
drains accepts nobody and one whose close task is past draining holds nothing
(`LeaseInv`), and that a connection came through a listener and a handler through
a connection (`ConnInv`). Together with `LetGoIsReleased` they give `NobodyWorks`,
which is what `Withdraw` of the abstract lease demands. `ServingInv` connects the
halves: while a command loop runs some process serves, hence holds the lock, hence
no other process opens the store.

### PairingProofs

Assumes `PairingAssumption` (pairing TTL + skew within the retention).

| Theorem | States |
|---|---|
| `PairedIsApproved` | `PairedMeansApproved` |
| `ApprovalIsAtomic` | `ApprovalsMadeTheirDevice` |
| `SameDisplay` | `BothDisplayTheSame` |
| `DecisionStands` | `DecidedOnce` |

The invariant relates four copies of one pairing: the row (`RowInv`), the profile
file (`ExchangeInv`: the challenge on disk was made by the Connector over the leaf
it was seen over), the answer on its way (`AnswerInv`: it says what is on record)
and the owner's prompt (`PromptInv`). `BegunInv` says that a pairing whose row
cleanup has dropped is overdue by then on the Connector's clock, so that it is
never asked for again; that is where the assumption is used.

### ConnectorExchangeProofs

Assumes `EvidenceAssumption`: the earlier records of a ledger are of other
requests, in order.

| Theorem | States | By |
|---|---|---|
| `TypeCorrect` | `TypeOK` and `CallInv` | inductive |
| `OneUse` | `OneUsePerCall` | no second signing is ever settled (`FirstSigningOnly`) |
| `Chronological` | `TimesNeverGoBack` | inductive with types |
| `EvidenceIsTrue` | `EvidenceMatchesAuthority` | `EvidenceInv`: receipts under way and receipts on file say what was settled |
| `ResultsAreRecorded` | `ResultIsRecorded` | `ResultInv`: between the append and the return the record is there |
| `AvailabilityIsBacked` | `AvailableIsBacked` | `ResultInv` |

### FileGrantsProofs

| Theorem | States |
|---|---|
| `ReadsTheApproved` | `ReadsWhatWasApproved` |
| `OneHandOver` | `HandedOverOnce` |
| `ClearedForGood` | `NothingAfterClear` |
| `CopyIsReleased` | `OpenWhileExecuted` |

`GrantInv` (what is granted was confirmed, under an identifier of its own),
`OwnerInv` (what the owner is looking at was granted by nobody else), `SpentInv` (a
spent grant is gone, and was spent once) and `UserInv` (what each execution holds).

### WorkerSupervisionProofs

| Theorem | States |
|---|---|
| `GroupsAreKilled` | `GroupIsKilled` |
| `SecretIsClosed` | `SecretEndsWithCall` |
| `CancellationStands` | `CancellationIsKept` |
| `DirectoryIsLeft` | `DirectoryOutlivesWorker` |

`FreshInv` (nothing was started for an attempt to come), `PhaseInv` (where the
worker is while the coroutine is where it is, that its directory is held meanwhile,
and that on the VPS the group was killed before `reaping`) and `CancelInv` (a
cancelled call only cleans up). The theorems say as much as the code does:
`GroupIsKilled` leaves out the processes a signal to the group does not reach
(`Apart`), and `DirectoryOutlivesWorker` the directories that a timer or a
cancellation during the cleanup leaves to their finalizer; it says that there are
no others.

### SourceCallProofs

For any `Sources`, limits, budgets and number of redirects.

| Theorem | States | By |
|---|---|---|
| `FetchIsConfined` | `FetchKeepsItsTerms` | `FetchInv`: the hops are URLs, and the last of them is the base of the next (`FollowedRedirect`) |
| `FailureReachesCaller` | `FailureIsTold` | `ToldInv`: a frame is the answer to what the fork returned, and a result without a success of the fork is a failure |

`ToldInv` rests on one lemma per source (`V2exTellsFailure` and its like): whatever
a fork reports, the worker's code, the parent's decoding and the adapter's class
keep a failure a failure, a transient one transient and a lasting one lasting.
`BrokenWorkerIsTold` says the same of a worker that breaks.

### SourceAnswerProofs

Assumes `SourceLimits`, `OpencliLimits`, `MaxTopicItemsAssumption` and
`MaxEntriesAssumption`: the limits are positive, a caller's limit may exceed the
catalog's bound, and a thread's may not.

| Theorem | States | By |
|---|---|---|
| `ParentAccepts` | `ParentAcceptsWorker` | `SuccessIsAnswered` and `FailedForkIsTold`: a worker's frame decodes to itself, or has a field of which the parent asks more |
| `CallerGetsItsAnswer` | `AnswerIsRequested` | `AnswerInv`: a result is a failure or answers what the fork returned (`Answers`) |
| `LossReachesCaller` | `LossIsTold` | the same |

None of the three properties is inductive. `AnswerInv` says at each place what is
known there: a request is one an adapter makes, with its limit filled in
(`AskedRequests`); a frame is the answer to a result the fork may return; a result
answers the request and tells what was left out (`Answers`). Whether it does is
decided between two steps, inside operators: one lemma per source (`V2exAnswers` and
its like) follows the fork's success through the worker's checks, the parent's and
the projection. `BoundAnswers` follows the result through the runner's bounds,
which keep a beginning of the list, and a beginning of what was asked for is that
too (`BeginningIsRequested`). `ToldInv` covers every failure on the way, so
`AnswerStep` takes it before and after the step.

`MaxForkItems` bounds the lists of a fork in the runs and is any number here. The
items themselves are those the runs use; only `AnswerInv`'s lemma for lists of a fork
(`ForkReturnsList`) looks at them, and only at the fields of a social item. The other
lemmas are for any items.

Three operators compute along a list: the characters of an answer
(`TotalCharacters`), the items that fit the budget (`FitBudget`) and the entries with
text (`UsableEntries`). They are recursive functions, and what they compute is proved
by induction along the list. The library's induction rules take a predicate, which
the provers cannot instantiate; `Along` states induction for a set of numbers
instead, from the least element a non-empty set of numbers has, and `FunctionAlong`
that a function defined step by step along a list exists. From these follow
`BudgetIsKept` (what the worker fits is within the budget the parent sums up again,
and is marked as truncated when it is shorter) and `UsableAreEntries` (what is left
is of the feed, and no longer).

### Only model-checked

All liveness (`EveryRequestSettles`,
`EveryConnectionEnds`, `ShutdownReleases`, `LockReturnsUnlessMutualWait`,
`PairReturns` and both `CallReturns`), which is beyond the prover.

## Findings

1. *A run that ended in time may get no receipt* (`authority_unreceipted`).
   `_handle_operation` reads the clock once for the deadline check
   (`connector/service.py:885`) and again for `ended_at` (899). When the deadline passes in between, it asks for an `ok` receipt
   that ended too late, which `BoundReceiptIssuer.issue` refuses: the use is spent,
   the claim stays incomplete and the VPS gets no receipt.
   `docs/connector-security.md` allows that for a crash only. (The same loss after
   a clock correction, in `complete_claim`, is why `CompletionNeverRefused` is
   stated for a clock that never steps back.)
2. *A shared shutdown may not finish* (`lifecycle_shutdown`). When the leaf
   expires in the loop iteration in which `lock` or `exit` has created the close
   task, the expiry task joins that close task; the close task cancels the expiry
   task and awaits it; the expiry task swallows the cancellation and goes on
   awaiting the close task. Connections, listener and leaf key are released all
   the same (`ShutdownReleases` holds), but the owner's command never returns and
   the signer stays. `LockReturnsUnlessMutualWait` says that this is the only way.

3. *A worker told to stop may be left behind* (`worker_grace`). The executor's
   wait of five seconds for a worker that was sent SIGTERM runs inside the
   execution's own `asyncio.timeout_at`, whose deadline is at most a second after
   the worker's. Its `CancelledError` arrives during the wait, is not an
   `Exception`, and skips the rest of the cleanup: no SIGKILL and no reaping.
   `docs/agent-reach-decisions/opencli-social-1.8.6-hermes.1.md:149`
   promises both. On the VPS the order is the other way round (kill first, await
   later), and `GroupIsKilled` holds there of the worker and what is in its group.

Noticed while modelling, stated by no violated property:

- After the leaf has expired the listener is closed, but
  `ConnectorService._server` stays set: the service calls itself unlocked until
  the owner locks it.
- An `init` that dies or fails half way leaves a directory that neither `init` nor
  `serve` accepts any more; it has to be removed by hand.
- An inspection takes the writer lock. While it runs, `serve` is refused as if the
  Connector ran already.
- A pairing that is approved after the VPS's last poll leaves the key with a
  device and the VPS without a grant. `device_keys.key_id` is unique, so that key
  can never pair again.
- The windows of the pairing records allow for skew unevenly: a VPS ahead within
  the skew gets no challenge in the first seconds of its request, and one behind
  refuses its grant until its own clock has reached `not_before`.
- Nobody looks at the evidence ledger before a request is sent. Once its last
  line is cut short, it is full, or the clock was set back behind its last record,
  every call still spends a use and then fails with `CONNECTOR_STATE_INVALID`.
- An append that stops just before its newline leaves a chain that verifies; the
  next record is then written to the same line, and nothing verifies any more.
- There is one snapshot for all operations. A call of another operation replaces
  a cached `unavailable`, which then no longer spares the next call its use.
- The snapshot of the process that finishes last stands, also when it observed
  less recently than the one it replaces.
- A second cancellation, or the attempt's timer, that meets a VPS source's cleanup
  while it awaits the killed worker skips the rest. The `TemporaryDirectory` is
  dropped with the frame, and its finalizer removes the directory before anybody has
  reaped the worker, which `docs/agent-reach-decisions/bilibili-cli-0.6.2.md:104` puts
  first. `DirectoryOutlivesWorker` says that nothing else leaves a directory to the
  finalizer.
- OpenCLI's worker cuts a text that is too long to its bound
  (`sources/opencli_social_worker.py:1089` and 1108) and writes the beginning as it is.
  When the cut falls behind a space, the beginning ends in one, and the parent, which
  accepts only texts that are their own trimmed form, refuses the frame: an answer
  that was checked and shortened, which `tests/test_opencli_social_worker.py:945`
  expects to be decoded, becomes a contract violation. YouTube's worker accepts a
  title that is only white space, which the parent normalizes to nothing and refuses
  (`sources/youtube.py:527`). Each costs a whole answer; `ParentAsksMore` names both,
  and `ParentAcceptsWorker` says that there are no others.
- mcporter, which Exa's worker starts, leads a process group of its own
  (`docs/agent-reach-decisions/exa-mcporter-1.5.0.md:72`), and the parent's SIGKILL
  goes to the worker's (`sources/exa.py:384`): mcporter is left to end by itself.
  `GroupIsKilled` does not speak of it.
- Bilibili's `read.video` is the one read of a single item that neither the worker
  nor the parent compares with what was asked for (`Belongs` leaves it out).
- YouTube's projection reports `deadline_exceeded` and `cancelled` as permanent
  (`docs/agent-reach-decisions/youtube-yt-dlp-2026.7.4.md:177` says so), and the
  RSS contract has no code for a failure for a while. `FailureIsTold` is stated
  accordingly.

## Limits

What the models assume:

- Signatures, hashes, TLS and SQLite transactions do what they are for. A request
  that fails verification changes nothing and is left out.
- `StateDirectory` takes a lock on a file and the creation of a link to be atomic,
  and a killed process to lose its lock, as the kernel does.
- `ConnectorAuthority` includes replace, revoke, policy and cleanup, which the
  store and the authority offer and the foreground service does not call yet; it
  takes the claims of one store to be made by one process at a time, which
  `OpensWhatInitMade` shows of the writer lock.
- A wall clock is corrected backwards by at most `MaxBackStep` in all, and a
  handler outlives its request's deadline by at most `MaxOverrun` (the
  granularity of the loop, not a timeout of the code).
- `Pairing` takes the Connector's clock to be monotone. A VPS signs honest records
  and runs one pair command at a time. The expiry of the first grant, which lies
  far beyond the pairing's, is left out. Its run has one key, so the limit of
  pending pairings (`MayBegin`) is met by one key only; the theorems are for any
  number of keys.
- In `ConnectorExchange` the VPS clock stays within `MaxClockSkew` of the
  Connector's, before and after each correction; the grant and the pairing stay
  what they were, and one grant pays for all. Time passes on the VPS as it does on
  the Connector, so the monotonic deadline is a point of `now`. No two receipts
  of a Connector have one identifier.
- `FileGrants`: a replacement of the file by rename is taken for a write in place.
  An open descriptor would keep the old file, so readings of the model may change
  where the program's do not. `prepare_model_execution` has no caller in the program yet. A lock
  keeps the grants in memory; only `close` clears them. Two parts of a file and one
  stat stand for its bytes and for the fields of its stat.
- `WorkerSupervision`: one process started by a worker stands for all of them. The
  leader of a group may exit before it.
- `SourceCall` begins with a call the catalog has validated, and takes the fork to
  answer anything. A search of several sources is several such calls. The runner's
  repetition of a transient attempt and its fallbacks (`runtime/runner.py:75`) are
  left to `WorkerSupervision`: `SourceCall` follows one attempt, and its properties
  speak of the last. Xueqiu's check of the characters of a whole answer
  (`sources/xueqiu.py:367`) is left out, because twenty items within
  their own bounds do not reach it. OpenCLI's author and date are cut as the required
  texts are; one cut of a required text stands for them.
- Counters (`MaxClock`, `MaxRevision`, `MaxPolicy`, `MaxLeases`, `MaxAttempts`,
  `MaxLeaf`, `MaxWrites`, `MaxSession`, `MaxForkItems`) bound the exploration and
  correspond to nothing in the code; in the proofs they are any numbers.

Not modelled, and why (the list `components` of `PROJECT.json` has every part):

- `audit/ledger.py`, `runtime/tokens.py` and the pruning of the evidence ledger:
  nothing in the program calls them.
- `PairingWssClient.resolve`: it has no caller either.
- `agent_reach_bridge.py`, `sources/exa_artifacts.py`,
  `sources/xueqiu_activation.py`, `runtime/release.py`: comparisons of installed
  files with pinned digests, without state of their own.
- `catalog.py`, `contracts.py`, `schemas.py`: tables and argument validation.
- Encoding, parsing and signing in `protocol.py`, passphrase entry and encryption in
  `identity.py`, certificates in `tls.py`: what they compare and when they refuse is
  in the guards of the models, the bytes are not.
- The column by column checks of rows in `store.py`, which refuse a database that
  was tampered with or is of another schema version (there is no migration).
- Presentation in `cli.py`, `status.py` and `tools.py`, and the texts of items.

## Plan

1. Done and proved: `ConnectorAuthority`, `ServiceLifecycle` with `StateDirectory`,
   `Pairing`, `ConnectorExchange`, `FileGrants`, `WorkerSupervision`; each but for its
   liveness.
2. Done and proved: `SourceCall` with its seven sources and `PublicFetch`.
3. When the program comes to use them: the evidence ledger's `prune` with its atomic
   rewrite, and the operation audit ledger, which appends without a lock. To state
   then: the chain verifies whenever the lock is free; a crash loses at most the
   record being written.
