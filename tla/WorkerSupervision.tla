-------------------------- MODULE WorkerSupervision --------------------------
(***************************************************************************)
(* One call and the worker processes it starts, seen by the coroutine that *)
(* supervises them.                                                        *)
(*                                                                         *)
(* On the VPS, BoundedRunner gives each attempt a share of one time budget *)
(* and repeats what failed for a while; a worker that did not answer is    *)
(* killed with its process group. In the Connector, the executor of a      *)
(* social source asks a second worker until its deadline; a worker that    *)
(* did not answer is asked to stop, and killed when it does not. Xueqiu's  *)
(* executor has one worker, and before it a helper process that fetches    *)
(* the secret the worker is given: attempt 0.                              *)
(*                                                                         *)
(* A timer, and whoever cancels the call, raise CancelledError in the      *)
(* coroutine at the await it is in, the awaits of the cleanup included.    *)
(***************************************************************************)
EXTENDS Integers

CONSTANTS
    Sides,          \* the sides a run looks at: "vps", "connector"
    Fallbacks,      \* how many more bindings the runner may fall back to
    TotalTime,      \* total_timeout_seconds
    AttemptTime,    \* attempt_timeout_seconds
    RequestTime,    \* what is left to a Connector request when it arrives
    HelperTime,     \* DEFAULT_SECRET_HELPER_TIMEOUT_SECONDS
    Grace,          \* _WORKER_GRACEFUL_SHUTDOWN_SECONDS
    MaxClock        \* bound: then every timer is due

ASSUME SupervisionLimits ==
    /\ Sides \subseteq {"vps", "connector"}
    /\ Fallbacks \in Nat
    /\ {TotalTime, AttemptTime, RequestTime, HelperTime, Grace, MaxClock} \subseteq Nat \ {0}

VARIABLES
    side,       \* the side of the call
    retries,    \* who repeats an attempt, retry_owner: "runner" or "binding"
    phase,      \* where the coroutine is
    attempt,    \* the number of its attempt
    leader,     \* the worker process of each attempt
    child,      \* a process the worker of each attempt has started
    directory,  \* the private directory of each attempt
    secret,     \* the SecretMaterial of the call
    outcome,    \* what the attempt comes to, while its cleanup runs
    timer,      \* the deadlines: of the attempt, the worker, the helper, the grace
    fired,      \* whether the attempt's timer has raised its cancellation
    cancelled,  \* whether the caller has cancelled the call
    result,     \* what the call came to
    clock

processes == <<leader, child>>
vars == <<side, retries, phase, attempt, leader, child, directory, secret,
          outcome, timer, fired, cancelled, result, clock>>

Attempts == 0..(2 + Fallbacks)

\* Where the coroutine awaits something, and an exception can reach it.
Awaiting == {"spawning", "exchanging", "grace", "reaping"}

\* A worker leads a session of its own, and what it starts stays in its process
\* group; but mcporter, for Exa's worker, and Node, for OpenCLI's, are put in groups
\* of their own. Exa is the one VPS source whose binding retries by itself, Xueqiu the
\* one Connector source that does: its helper and worker keep their children.
Apart == IF side = "vps" THEN retries = "binding" ELSE retries = "runner"

\* Processes that have not been told to end, or may take no notice of it.
Live == {"running", "told"}

\* The service reads whole seconds of the wall clock, the executor fractions: the
\* worker's deadline is up to one second before that of the execution.
Init ==
    /\ side \in Sides
    /\ retries \in {"runner", "binding"}
    /\ phase = "ready"
    /\ attempt = IF side = "connector" /\ retries = "binding" THEN 0 ELSE 1
    /\ leader = [a \in Attempts |-> "none"]
    /\ child = [a \in Attempts |-> "none"]
    /\ directory = [a \in Attempts |-> "none"]
    /\ secret = "none"
    /\ outcome = "none"
    /\ timer \in [attempt : {RequestTime}, worker : {RequestTime, RequestTime - 1},
                  helper : {0}, grace : {0}]
    /\ fired = FALSE
    /\ cancelled = FALSE
    /\ result = "none"
    /\ clock = 0

Due(t) == clock >= t \/ clock = MaxClock

Sooner(s, t) == IF s <= t THEN s ELSE t

-----------------------------------------------------------------------------
(* Attempts.                                                               *)

\* BoundedRunner.run: the primary binding twice, then each fallback once, unless
\* the binding retries by itself.
RunnerGoesOn == retries = "runner" /\ attempt < 2 + Fallbacks

\* OpenCliSocialExecutor.execute: a second worker, while the deadline has not
\* passed (XueqiuExecutor has none: "binding").
ExecutorGoesOn == retries = "runner" /\ attempt = 1 /\ ~Due(timer.worker)

\* Mutant: whatever raised the cancellation, the attempt has timed out.
Verdict_Timeout(what, byTimer, byCaller) ==
    IF byTimer \/ byCaller
    THEN IF side = "vps" THEN "transient" ELSE "deadline"
    ELSE what

\* asyncio.timeout turns its own cancellation into a TimeoutError, and leaves a
\* cancellation of the caller alone.
Verdict(what, byTimer, byCaller) ==
    CASE byCaller -> "cancelled"
      [] byTimer /\ ~byCaller -> IF side = "vps" THEN "transient" ELSE "deadline"
      [] OTHER -> what

\* Mutant: what an exception other than an Exception ends is not cleaned up.
LeaveSecret_Caught(verdict) ==
    secret' = CASE attempt = 0 /\ verdict = "success" -> "open"
                [] secret = "open" /\ verdict # "cancelled" -> "closed"
                [] OTHER -> secret

\* BitwardenSecretProvider.resolve opens the secret; however the executor ends,
\* execute_with_secret clears the environment and closes the secret.
LeaveSecret(verdict) ==
    secret' = CASE attempt = 0 /\ verdict = "success" -> "open"
                [] secret = "open" -> "closed"
                [] OTHER -> secret

\* The attempt is over: the call is too, or its next attempt follows at once.
Settle(verdict) ==
    LET again == \/ /\ verdict = "transient"
                    /\ IF side = "vps" THEN RunnerGoesOn ELSE ExecutorGoesOn
                 \/ attempt = 0 /\ verdict = "success"
    IN  /\ LeaveSecret(verdict)
        /\ phase' = IF again THEN "ready" ELSE "over"
        /\ attempt' = IF again THEN attempt + 1 ELSE attempt
        /\ result' = CASE again -> "none"
                       [] verdict \in {"success", "cancelled"} /\ ~again -> verdict
                       [] OTHER -> "failure"
        /\ outcome' = "none"

\* Each worker but RSS's has a TemporaryDirectory, which is cleaned up.
RemoveDirectory ==
    directory' = [directory EXCEPT ![attempt] = IF @ = "held" THEN "removed" ELSE @]

\* The frame that holds the TemporaryDirectory is left without cleaning it up: it
\* remains until the object is collected.
DropDirectory ==
    directory' = [directory EXCEPT ![attempt] = IF @ = "held" THEN "dropped" ELSE @]

\* An attempt may begin: the budget, or the deadline of the call, is not spent.
InTime ==
    CASE side = "vps" -> clock < TotalTime
      [] side = "connector" /\ attempt = 0 -> ~Due(timer.attempt)
      [] OTHER -> ~Due(timer.worker)

\* BoundedRunner._attempt, SubprocessBitwardenHelper.fetch, and the workers'
\* execute, up to the spawn.
Start ==
    /\ phase = "ready" /\ InTime
    /\ phase' = "spawning"
    /\ timer' = CASE side = "vps" ->
                         [timer EXCEPT !.attempt = Sooner(clock + AttemptTime, TotalTime)]
                  [] side = "connector" /\ attempt = 0 ->
                         [timer EXCEPT !.helper = Sooner(clock + HelperTime, timer.attempt)]
                  [] OTHER -> timer
    /\ fired' = FALSE
    /\ directory' = IF attempt = 0 THEN directory
                    ELSE [directory EXCEPT ![attempt] = "held"]
    /\ UNCHANGED <<side, retries, attempt, processes, secret, outcome, cancelled, result,
                   clock>>

\* It is too late; or the secret's binding is revoked, or its files have changed.
Refuse ==
    /\ phase = "ready"
    /\ \/ ~InTime /\ Settle("transient")
       \/ attempt = 0 /\ Settle("permanent")
    /\ UNCHANGED <<side, retries, processes, directory, timer, fired, cancelled, clock>>

\* create_subprocess_exec: the worker leads a session of its own.
Spawn ==
    /\ phase = "spawning"
    /\ leader' = [leader EXCEPT ![attempt] = "running"]
    /\ phase' = "exchanging"
    /\ UNCHANGED <<side, retries, attempt, child, directory, secret, outcome, timer, fired,
                   cancelled, result, clock>>

SpawnFails ==
    /\ phase = "spawning"
    /\ RemoveDirectory
    /\ Settle("transient")
    /\ UNCHANGED <<side, retries, processes, timer, fired, cancelled, clock>>

-----------------------------------------------------------------------------
(* Cleanup: cleanup_worker_resources and _cleanup_process_group.           *)

\* SIGKILL to the process group of the worker; the processes outside it run on.
SignalGroup ==
    child' = [child EXCEPT ![attempt] = IF @ = "alive" /\ ~Apart THEN "killed" ELSE @]

\* _kill_process_group of the helper: nothing is done when it has exited.
KillHelper(what, byTimer, byCaller) ==
    IF leader[attempt] = "running"
    THEN /\ leader' = [leader EXCEPT ![attempt] = "killed"]
         /\ SignalGroup
         /\ phase' = "reaping"
         /\ outcome' = what
         /\ UNCHANGED <<attempt, result, directory, secret>>
    ELSE /\ RemoveDirectory
         /\ Settle(Verdict(what, byTimer, byCaller))
         /\ UNCHANGED processes

\* Mutant: a worker that has exited has left nothing behind.
KillGroup_Leader(what, byTimer, byCaller) == KillHelper(what, byTimer, byCaller)

\* Mutant: the directory goes before the worker has been awaited.
KillGroup_RemovesFirst(what, byTimer, byCaller) ==
    /\ SignalGroup
    /\ RemoveDirectory
    /\ IF leader[attempt] = "running"
       THEN /\ leader' = [leader EXCEPT ![attempt] = "killed"]
            /\ phase' = "reaping"
            /\ outcome' = what
            /\ UNCHANGED <<attempt, result, secret>>
       ELSE Settle(Verdict(what, byTimer, byCaller)) /\ UNCHANGED leader

\* The VPS: SIGKILL to the whole group, even if its leader has exited, before
\* anything is awaited; then the leader is awaited.
KillGroup(what, byTimer, byCaller) ==
    /\ SignalGroup
    /\ IF leader[attempt] = "running"
       THEN /\ leader' = [leader EXCEPT ![attempt] = "killed"]
            /\ phase' = "reaping"
            /\ outcome' = what
            /\ UNCHANGED <<attempt, result, directory, secret>>
       ELSE /\ RemoveDirectory
            /\ Settle(Verdict(what, byTimer, byCaller))
            /\ UNCHANGED leader

\* The Connector: SIGTERM to the leader, which stops its own children, and a
\* time of grace; nothing is done about a leader that has exited.
TellLeader(what, byTimer, byCaller) ==
    /\ IF leader[attempt] = "running"
       THEN /\ leader' = [leader EXCEPT ![attempt] = "told"]
            /\ phase' = "grace"
            /\ outcome' = what
            /\ timer' = [timer EXCEPT !.grace = clock + Grace]
            /\ UNCHANGED <<attempt, result, directory, secret>>
       ELSE /\ RemoveDirectory
            /\ Settle(Verdict(what, byTimer, byCaller))
            /\ UNCHANGED <<leader, timer>>
    /\ UNCHANGED child

\* The cleanup of an attempt without a validated answer.
Cleanup(what, byTimer, byCaller) ==
    \/ side = "vps" /\ KillGroup(what, byTimer, byCaller) /\ UNCHANGED timer
    \/ side = "connector" /\ attempt = 0 /\ KillHelper(what, byTimer, byCaller)
       /\ UNCHANGED timer
    \/ side = "connector" /\ attempt # 0 /\ TellLeader(what, byTimer, byCaller)

\* The worker has answered and exited; its answer is valid or it is not.
Receive ==
    /\ phase = "exchanging"
    /\ leader[attempt] \in {"answered", "exited"}
    /\ \/ /\ leader[attempt] = "answered"
          /\ RemoveDirectory
          /\ Settle("success")
          /\ UNCHANGED <<processes, timer>>
       \/ \E what \in {"transient", "permanent"} : Cleanup(what, FALSE, FALSE)
    /\ UNCHANGED <<side, retries, fired, cancelled, clock>>

\* The pipe breaks, or the worker writes too much.
ExchangeBreaks ==
    /\ phase = "exchanging"
    /\ leader[attempt] = "running"
    /\ \E what \in {"transient", "permanent"} : Cleanup(what, FALSE, FALSE)
    /\ UNCHANGED <<side, retries, fired, cancelled, clock>>

\* asyncio.timeout in the Connector's worker: it answers deadline_exceeded; and
\* wait_for in fetch: the secret is unavailable.
WorkerDeadline ==
    /\ side = "connector"
    /\ phase = "exchanging"
    /\ Due(IF attempt = 0 THEN timer.helper ELSE timer.worker)
    /\ Cleanup("transient", FALSE, FALSE)
    /\ UNCHANGED <<side, retries, fired, cancelled, clock>>

\* Mutant: who does not stop in time is awaited all the same.
GraceEnds_Patient ==
    /\ phase = "grace"
    /\ leader[attempt] = "exited"
    /\ RemoveDirectory
    /\ Settle(Verdict(outcome, fired, cancelled))
    /\ UNCHANGED <<side, retries, processes, timer, fired, cancelled, clock>>

\* The leader stops in time; or it does not, and is killed with its group.
GraceEnds ==
    /\ phase = "grace"
    /\ \/ /\ leader[attempt] = "exited"
          /\ RemoveDirectory
          /\ Settle(Verdict(outcome, fired, cancelled))
          /\ UNCHANGED processes
       \/ /\ leader[attempt] = "told" /\ Due(timer.grace)
          /\ SignalGroup
          /\ leader' = [leader EXCEPT ![attempt] = "killed"]
          /\ phase' = "reaping"
          /\ UNCHANGED <<attempt, directory, secret, outcome, result>>
    /\ UNCHANGED <<side, retries, timer, fired, cancelled, clock>>

\* process.wait returns, and the directory is removed.
Reaped ==
    /\ phase = "reaping"
    /\ leader[attempt] = "exited"
    /\ RemoveDirectory
    /\ Settle(Verdict(outcome, fired, cancelled))
    /\ UNCHANGED <<side, retries, processes, timer, fired, cancelled, clock>>

\* cleanup_worker_resources catches Exception, which CancelledError is not: what
\* is left of the cleanup is skipped.
Abandon(byTimer, byCaller) ==
    /\ DropDirectory
    /\ Settle(Verdict(outcome, byTimer, byCaller))

\* CancelledError at the await the coroutine is in. asyncio itself ends a process
\* whose creation is cancelled.
Thrown(byTimer, byCaller) ==
    \/ /\ phase = "spawning"
       /\ RemoveDirectory
       /\ Settle(Verdict("none", byTimer, byCaller))
       /\ UNCHANGED <<processes, timer>>
    \/ /\ phase = "exchanging"
       /\ Cleanup("none", byTimer, byCaller)
    \/ /\ phase \in {"grace", "reaping"}
       /\ Abandon(byTimer, byCaller)
       /\ UNCHANGED <<processes, timer>>

\* wait_for around the binding, timeout_at around the Connector's execution.
TimerFires ==
    /\ phase \in Awaiting
    /\ ~fired /\ Due(timer.attempt)
    /\ fired' = TRUE
    /\ Thrown(TRUE, cancelled)
    /\ UNCHANGED <<side, retries, cancelled, clock>>

\* The caller goes away, or the Connector is locked. It may do so once more.
CallerCancels ==
    /\ phase \in Awaiting
    /\ cancelled' = TRUE
    /\ Thrown(fired, TRUE)
    /\ UNCHANGED <<side, retries, fired, clock>>

-----------------------------------------------------------------------------
(* The processes and the clock.                                            *)

Environment == <<side, retries, phase, attempt, directory, secret, outcome, timer,
                 fired, cancelled, result>>

StartsChild ==
    /\ phase = "exchanging" /\ leader[attempt] = "running" /\ child[attempt] = "none"
    /\ child' = [child EXCEPT ![attempt] = "alive"]
    /\ UNCHANGED <<Environment, leader, clock>>

ChildEnds(a) ==
    /\ child[a] = "alive"
    /\ child' = [child EXCEPT ![a] = "gone"]
    /\ UNCHANGED <<Environment, leader, clock>>

\* The worker writes its frame and exits, or exits without.
WorkerExits(a) ==
    /\ leader[a] = "running"
    /\ \E how \in {"answered", "exited"} : leader' = [leader EXCEPT ![a] = how]
    /\ UNCHANGED <<Environment, child, clock>>

\* A worker that is told to stop ends what it has started, then itself.
WorkerStops(a) ==
    /\ leader[a] = "told"
    /\ leader' = [leader EXCEPT ![a] = "exited"]
    /\ child' = [child EXCEPT ![a] = IF @ = "alive" THEN "gone" ELSE @]
    /\ UNCHANGED <<Environment, clock>>

\* The finalizer of a TemporaryDirectory that nothing refers to any more removes the
\* directory, whatever still runs in it.
Finalize(a) ==
    /\ directory[a] = "dropped"
    /\ directory' = [directory EXCEPT ![a] = "finalized"]
    /\ UNCHANGED <<side, retries, phase, attempt, processes, secret, outcome, timer, fired,
                   cancelled, result, clock>>

KilledDies(a) ==
    /\ leader[a] = "killed"
    /\ leader' = [leader EXCEPT ![a] = "exited"]
    /\ UNCHANGED <<Environment, child, clock>>

Tick ==
    /\ clock < MaxClock
    /\ clock' = clock + 1
    /\ UNCHANGED <<Environment, processes>>

Finished == phase = "over" /\ clock = MaxClock /\ UNCHANGED vars

Coroutine ==
    \/ Start \/ Refuse \/ Spawn \/ SpawnFails \/ Receive \/ ExchangeBreaks \/ WorkerDeadline
    \/ GraceEnds \/ Reaped \/ TimerFires

Next ==
    \/ Coroutine \/ CallerCancels \/ StartsChild
    \/ \E a \in Attempts :
           ChildEnds(a) \/ WorkerExits(a) \/ WorkerStops(a) \/ KilledDies(a) \/ Finalize(a)
    \/ Tick \/ Finished

Spec == Init /\ [][Next]_vars

\* The event loop runs what is ready: a new attempt, an exit it has been told of,
\* a timer that is due. A process that is killed dies. No worker has to answer, to
\* exit or to obey, and no caller has to cancel.
Fairness ==
    /\ WF_vars(Tick)
    /\ WF_vars(Start \/ Refuse) /\ WF_vars(Spawn \/ SpawnFails)
    /\ WF_vars(Receive) /\ WF_vars(GraceEnds) /\ WF_vars(Reaped)
    /\ WF_vars(WorkerDeadline) /\ WF_vars(TimerFires)
    /\ \A a \in Attempts : WF_vars(KilledDies(a))

FairSpec == Spec /\ Fairness

-----------------------------------------------------------------------------
(* Properties.                                                             *)

IsOver(a) == a < attempt \/ (a = attempt /\ phase = "over")
Answered(a) == a = attempt /\ result = "success"

\* On the VPS an attempt that ended without a valid answer has left nothing running
\* in its worker's process group, whichever await was cancelled and by whom, and the
\* helper of a secret never outlives its fetch (v2ex.py:406 and the same function of
\* the other sources; secrets.py:890). Exa's mcporter, which leads a group of its own,
\* is not reached (exa.py:384).
GroupIsKilled ==
    \A a \in Attempts : IsOver(a) /\ ~Answered(a) =>
        /\ side = "vps" => leader[a] \notin Live /\ (Apart \/ child[a] # "alive")
        /\ a = 0 => leader[a] \notin Live

\* A secret is readable only while the call that fetched it goes on: an exception
\* that cuts the cleanup of its worker short still closes it (secrets.py:538).
SecretEndsWithCall == secret = "open" => phase # "over"

\* A call its caller has cancelled ends as cancelled: it is not taken for one that
\* timed out, is not retried, and starts no other worker.
CancellationIsKept ==
    cancelled => /\ phase \notin {"ready", "spawning"}
                 /\ phase = "over" => result = "cancelled"

\* The cleanup removes the private directory of a worker only when the worker has
\* been reaped. Only the attempt a timer or the caller has interrupted while it was
\* cleaning up leaves its directory to the finalizer, and that attempt is over and
\* unanswered. No attempt ends with its directory still held.
DirectoryOutlivesWorker ==
    \A a \in Attempts :
        /\ directory[a] = "removed" => leader[a] \notin Live \cup {"killed"}
        /\ directory[a] \in {"dropped", "finalized"} =>
               /\ IsOver(a) /\ ~Answered(a)
               /\ a = attempt => fired \/ cancelled
        /\ IsOver(a) => directory[a] # "held"

\* Whatever the worker does, the call comes to an end.
CallReturns == phase # "over" ~> phase = "over"

\* docs/agent-reach-decisions/opencli-social-1.8.6-hermes.1.md:149: Hermes waits for
\* at most five seconds and then kills and reaps the worker group as a fallback. So
\* a call that nobody cancels leaves no worker behind.
WorkerIsReaped ==
    phase = "over" /\ ~cancelled => \A a \in Attempts : leader[a] \notin Live
=============================================================================
