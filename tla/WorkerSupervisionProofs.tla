---------------------- MODULE WorkerSupervisionProofs ----------------------
(***************************************************************************)
(* Theorems about WorkerSupervision, for any budgets, deadlines and times  *)
(* of grace, and any number of fallbacks.                                  *)
(***************************************************************************)
EXTENDS WorkerSupervision, TLAPS

-----------------------------------------------------------------------------
(* The invariant.                                                          *)

Phases    == {"ready", "spawning", "exchanging", "grace", "reaping", "over"}
Leaders   == {"none", "running", "told", "killed", "answered", "exited"}
Children  == {"none", "alive", "killed", "gone"}
Places    == {"none", "held", "removed", "dropped", "finalized"}
Timers    == [attempt : Int, worker : Int, helper : Int, grace : Int]

\* Every variable has its type.
TypeOK ==
    /\ side \in Sides /\ retries \in {"runner", "binding"}
    /\ phase \in Phases /\ attempt \in Attempts
    /\ leader \in [Attempts -> Leaders] /\ child \in [Attempts -> Children]
    /\ directory \in [Attempts -> Places]
    /\ secret \in {"none", "open", "closed"}
    /\ outcome \in {"none", "transient", "permanent"}
    /\ timer \in Timers
    /\ fired \in BOOLEAN /\ cancelled \in BOOLEAN
    /\ result \in {"none", "success", "cancelled", "failure"}
    /\ clock \in Nat

\* Nothing has been started for an attempt to come.
FreshInv ==
    /\ side = "vps" => attempt # 0
    /\ \A a \in Attempts :
         a > attempt \/ (a = attempt /\ phase \in {"ready", "spawning"})
           => leader[a] = "none" /\ child[a] = "none"
    /\ \A a \in Attempts :
         a > attempt \/ (a = attempt /\ phase = "ready") => directory[a] = "none"

\* Where the worker is while the coroutine is where it is.
PhaseInv ==
    /\ phase \in Awaiting => directory[attempt] \in {"none", "held"}
    /\ phase = "exchanging" => leader[attempt] \in {"running", "answered", "exited"}
    /\ phase = "grace" =>
         /\ side = "connector" /\ attempt # 0
         /\ leader[attempt] \in {"told", "exited"}
    /\ phase = "reaping" =>
         /\ leader[attempt] \in {"killed", "exited"}
         /\ side = "vps" => Apart \/ child[attempt] # "alive"

\* A cancelled call only cleans up.
CancelInv ==
    cancelled => /\ phase \in {"grace", "reaping", "over"}
                 /\ phase = "over" => result = "cancelled"

Inv ==
    /\ TypeOK /\ FreshInv /\ PhaseInv /\ CancelInv
    /\ GroupIsKilled /\ SecretEndsWithCall /\ DirectoryOutlivesWorker

-----------------------------------------------------------------------------
(* The end of an attempt.                                                  *)

\* Whoever is told of a cancellation by the caller reports it.
LEMMA VerdictType ==
    ASSUME NEW what, NEW byTimer \in BOOLEAN, NEW byCaller \in BOOLEAN
    PROVE  /\ byCaller => Verdict(what, byTimer, byCaller) = "cancelled"
           /\ Verdict(what, byTimer, byCaller) \in {"cancelled", "transient", "deadline", what}
  BY Zenon DEF Verdict

\* An attempt is followed by the next, or the call is over and its secret closed.
LEMMA SettleChange ==
    ASSUME TypeOK, FreshInv, NEW verdict, Settle(verdict)
    PROVE  /\ outcome' = "none" /\ secret' \in {"none", "open", "closed"}
           /\ attempt' \in Attempts
           /\ \/ /\ phase' = "ready" /\ attempt' = attempt + 1 /\ result' = "none"
                 /\ verdict = "transient" \/ (verdict = "success" /\ attempt = 0)
              \/ /\ phase' = "over" /\ attempt' = attempt /\ secret' # "open"
                 /\ result' \in {"success", "cancelled", "failure"}
                 /\ verdict = "cancelled" => result' = "cancelled"
                 /\ result' = "success" <=> verdict = "success"
<1> DEFINE again == \/ /\ verdict = "transient"
                       /\ IF side = "vps" THEN RunnerGoesOn ELSE ExecutorGoesOn
                    \/ attempt = 0 /\ verdict = "success"
<1>0. /\ secret \in {"none", "open", "closed"} /\ attempt \in 0..(2 + Fallbacks)
      /\ Fallbacks \in Nat
  BY SupervisionLimits DEF SupervisionLimits, TypeOK, Attempts
<1>1. /\ LeaveSecret(verdict) /\ outcome' = "none"
      /\ phase' = IF again THEN "ready" ELSE "over"
      /\ attempt' = IF again THEN attempt + 1 ELSE attempt
      /\ result' = CASE again -> "none"
                     [] verdict \in {"success", "cancelled"} /\ ~again -> verdict
                     [] OTHER -> "failure"
  BY DEF Settle
<1>2. /\ secret' \in {"none", "open", "closed"}
      /\ ~(attempt = 0 /\ verdict = "success") => secret' # "open"
  BY <1>0, <1>1, Zenon DEF LeaveSecret
<1>3. CASE again
  <2>1. attempt < 2 + Fallbacks
    BY <1>0, <1>3 DEF RunnerGoesOn, ExecutorGoesOn
  <2>2. phase' = "ready" /\ attempt' = attempt + 1
    BY <1>1, <1>3
  <2>3. result' = "none"
    BY <1>1, <1>3, Zenon
  <2>4. attempt' \in Attempts
    BY <1>0, <2>1, <2>2 DEF Attempts
  <2>5. verdict = "transient" \/ (verdict = "success" /\ attempt = 0)
    BY <1>3
  <2> HIDE DEF again
  <2>6. QED
    BY <1>1, <1>2, <2>2, <2>3, <2>4, <2>5
<1>4. CASE ~again
  <2>1. phase' = "over" /\ attempt' = attempt
    BY <1>1, <1>4
  <2>2. /\ result' \in {"success", "cancelled", "failure"}
        /\ verdict = "cancelled" => result' = "cancelled"
        /\ result' = "success" <=> verdict = "success"
    <3>1. verdict \in {"success", "cancelled"} => result' = verdict
      BY <1>1, <1>4, Zenon
    <3>2. verdict \notin {"success", "cancelled"} => result' = "failure"
      BY <1>1, <1>4, Zenon
    <3>3. QED
      BY <3>1, <3>2
  <2>3. secret' # "open"
    BY <1>2, <1>4
  <2>4. outcome' = "none" /\ attempt' \in Attempts
    BY <1>0, <1>1, <2>1 DEF Attempts
  <2> HIDE DEF again
  <2>5. QED
    BY <1>2, <2>1, <2>2, <2>3, <2>4
<1>5. QED
  BY <1>3, <1>4

\* What every step leaves alone.
Frame == UNCHANGED <<side, retries>> /\ clock' \in Nat /\ fired' \in BOOLEAN /\ timer' \in Timers

\* Only the current attempt is touched.
Elsewhere ==
    /\ leader' \in [Attempts -> Leaders] /\ child' \in [Attempts -> Children]
    /\ directory' \in [Attempts -> Places]
    /\ \A a \in Attempts \ {attempt} :
         leader'[a] = leader[a] /\ child'[a] = child[a] /\ directory'[a] = directory[a]

\* The current attempt ends with a verdict, and leaves what it may leave.
Ends(verdict) ==
    /\ Frame /\ Elsewhere /\ Settle(verdict)
    /\ phase # "over" /\ leader' = leader
    /\ cancelled' \in BOOLEAN /\ (cancelled' => verdict = "cancelled")
    /\ side = "vps" /\ verdict # "success" =>
         leader[attempt] \notin Live /\ (Apart \/ child'[attempt] # "alive")
    /\ attempt = 0 => leader[attempt] \notin Live
    /\ directory'[attempt] = "removed" => leader[attempt] \notin Live \cup {"killed"}
    /\ directory'[attempt] \in {"dropped", "finalized"} =>
         verdict # "success" /\ (fired' \/ cancelled')
    /\ directory'[attempt] # "held"

\* The end of an attempt keeps the invariant.
LEMMA EndsInv == ASSUME Inv, NEW verdict, Ends(verdict) PROVE Inv'
<1>0. /\ TypeOK /\ FreshInv /\ attempt \in Nat /\ Attempts \subseteq Nat
      /\ phase # "over" /\ Settle(verdict) /\ Frame /\ Elsewhere /\ leader' = leader
  BY SupervisionLimits DEF SupervisionLimits, Inv, Ends, TypeOK, Attempts
<1>1. /\ outcome' = "none" /\ secret' \in {"none", "open", "closed"} /\ attempt' \in Attempts
      /\ \/ /\ phase' = "ready" /\ attempt' = attempt + 1 /\ result' = "none"
            /\ verdict = "transient" \/ (verdict = "success" /\ attempt = 0)
         \/ /\ phase' = "over" /\ attempt' = attempt /\ secret' # "open"
            /\ result' \in {"success", "cancelled", "failure"}
            /\ verdict = "cancelled" => result' = "cancelled"
            /\ result' = "success" <=> verdict = "success"
  BY <1>0, SettleChange
<1>2. TypeOK'
  BY <1>0, <1>1 DEF TypeOK, Frame, Elsewhere, Phases, Ends
<1>3. FreshInv'
  <2>1. side' = "vps" => attempt' # 0
    BY <1>0, <1>1 DEF FreshInv, Frame
  <2>2. ASSUME NEW a \in Attempts, a > attempt' \/ (a = attempt' /\ phase' \in {"ready", "spawning"})
        PROVE  leader'[a] = "none" /\ child'[a] = "none" /\ directory'[a] = "none"
    <3>1. a > attempt /\ a \in Attempts \ {attempt}
      BY <1>0, <1>1, <2>2
    <3>2. QED
      BY <1>0, <3>1 DEF FreshInv, Elsewhere
  <2>3. QED
    BY <2>1, <2>2 DEF FreshInv
<1>4. PhaseInv'
  BY <1>1 DEF PhaseInv, Awaiting
<1>5. CancelInv'
  BY <1>1 DEF CancelInv, Ends
<1>6. GroupIsKilled'
  <2>1. ASSUME NEW a \in Attempts, IsOver(a)', ~Answered(a)'
        PROVE  /\ side' = "vps" => leader'[a] \notin Live /\ (Apart' \/ child'[a] # "alive")
               /\ a = 0 => leader'[a] \notin Live
    <3>1. CASE a = attempt
      <4>1. verdict = "success" => attempt = 0 /\ side # "vps"
        BY <1>0, <1>1, <2>1, <3>1 DEF Answered, IsOver, FreshInv
      <4>2. QED
        BY <1>0, <3>1, <4>1 DEF Ends, Frame, Apart
    <3>2. CASE a # attempt
      <4>1. a < attempt
        BY <1>0, <1>1, <2>1, <3>2 DEF IsOver
      <4>2. IsOver(a) /\ ~Answered(a)
        BY <3>2, <4>1 DEF IsOver, Answered
      <4>3. leader'[a] = leader[a] /\ child'[a] = child[a]
        BY <1>0, <3>2 DEF Elsewhere
      <4>4. QED
        BY <1>0, <4>2, <4>3 DEF Inv, GroupIsKilled, Frame, Apart
    <3>3. QED
      BY <3>1, <3>2
  <2>2. QED
    BY <2>1 DEF GroupIsKilled
<1>7. SecretEndsWithCall'
  BY <1>1 DEF SecretEndsWithCall
<1>8. DirectoryOutlivesWorker'
  <2>1. ASSUME NEW a \in Attempts
        PROVE  /\ directory'[a] = "removed" => leader'[a] \notin Live \cup {"killed"}
               /\ directory'[a] \in {"dropped", "finalized"} =>
                      /\ IsOver(a)' /\ ~Answered(a)'
                      /\ a = attempt' => fired' \/ cancelled'
               /\ IsOver(a)' => directory'[a] # "held"
    <3>1. CASE a = attempt
      <4>1. verdict # "success" => IsOver(a)' /\ ~Answered(a)'
        BY <1>0, <1>1, <3>1 DEF IsOver, Answered
      <4>2. QED
        BY <1>0, <3>1, <4>1 DEF Ends
    <3>2. CASE a # attempt
      <4>1. /\ leader'[a] = leader[a] /\ directory'[a] = directory[a]
            /\ IsOver(a) => IsOver(a)' /\ a # attempt' /\ ~Answered(a)'
        BY <1>0, <1>1, <3>2 DEF Elsewhere, IsOver, Answered
      <4>2. IsOver(a)' => IsOver(a)
        BY <1>0, <1>1, <3>2 DEF IsOver
      <4>3. QED
        BY <4>1, <4>2 DEF Inv, DirectoryOutlivesWorker
    <3>3. QED
      BY <3>1, <3>2
  <2>2. QED
    BY <2>1 DEF DirectoryOutlivesWorker
<1>9. QED
  BY <1>2, <1>3, <1>4, <1>5, <1>6, <1>7, <1>8 DEF Inv

-----------------------------------------------------------------------------
(* The cleanup of an attempt.                                              *)

\* Removing the directory of the attempt touches no other.
LEMMA Removal ==
    ASSUME TypeOK, RemoveDirectory
    PROVE  /\ directory' \in [Attempts -> Places]
           /\ \A a \in Attempts \ {attempt} : directory'[a] = directory[a]
           /\ directory'[attempt] = IF directory[attempt] = "held" THEN "removed"
                                    ELSE directory[attempt]
  BY DEF RemoveDirectory, TypeOK, Places

\* Nor does leaving it to its finalizer.
LEMMA Dropping ==
    ASSUME TypeOK, DropDirectory
    PROVE  /\ directory' \in [Attempts -> Places]
           /\ \A a \in Attempts \ {attempt} : directory'[a] = directory[a]
           /\ directory'[attempt] = IF directory[attempt] = "held" THEN "dropped"
                                    ELSE directory[attempt]
  BY DEF DropDirectory, TypeOK, Places

\* A signal reaches the group of the current worker and no other process.
LEMMA Signalled ==
    ASSUME TypeOK, SignalGroup
    PROVE  /\ child' \in [Attempts -> Children]
           /\ \A a \in Attempts \ {attempt} : child'[a] = child[a]
           /\ Apart \/ child'[attempt] # "alive"
  BY DEF SignalGroup, TypeOK, Children

\* A cleanup has to wait for the worker, or ends the attempt.
Waits(what) ==
    /\ Frame /\ Elsewhere
    /\ UNCHANGED <<attempt, result, directory, secret>>
    /\ outcome' = what
    /\ \/ phase' = "reaping" /\ leader'[attempt] = "killed"
       \/ phase' = "grace" /\ leader'[attempt] = "told" /\ side = "connector" /\ attempt # 0
    /\ side = "vps" => Apart \/ child'[attempt] # "alive"

\* What a cleanup does while the worker may still run.
LEMMA CleanupChange ==
    ASSUME Inv, phase = "exchanging", NEW what \in {"none", "transient", "permanent"},
           NEW byTimer \in BOOLEAN, NEW byCaller \in BOOLEAN,
           Cleanup(what, byTimer, byCaller), UNCHANGED <<side, retries, clock>>,
           fired' = byTimer \/ fired' = fired, cancelled' = byCaller,
           what = "none" => byTimer \/ byCaller,
           cancelled => byCaller
    PROVE  Waits(what) \/ \E verdict : Ends(verdict)
<1>0. /\ TypeOK /\ attempt \in Attempts /\ timer \in Timers /\ clock \in Nat
      /\ leader \in [Attempts -> Leaders] /\ child \in [Attempts -> Children]
      /\ directory \in [Attempts -> Places]
      /\ leader[attempt] \in {"running", "answered", "exited"}
      /\ directory[attempt] \in {"none", "held"}
      /\ side \in {"vps", "connector"} /\ (side = "vps" => attempt # 0)
      /\ fired' \in BOOLEAN /\ cancelled' \in BOOLEAN
      /\ Grace \in Nat
  BY SupervisionLimits DEF SupervisionLimits, Inv, TypeOK, PhaseInv, FreshInv, Awaiting
<1> DEFINE v == Verdict(what, byTimer, byCaller)
<1>1. cancelled' => v = "cancelled"
  BY VerdictType
<1>2. v # "success"
  <2>1. v \in {"cancelled", "transient", "deadline", what}
    BY VerdictType
  <2>2. QED
    BY <2>1
<1>3. timer' \in Timers
  <2>1. timer' = timer \/ timer' = [timer EXCEPT !.grace = clock + Grace]
    BY DEF Cleanup, TellLeader
  <2>2. clock + Grace \in Int
    BY <1>0
  <2>3. QED
    BY <1>0, <2>1, <2>2 DEF Timers
<1>4. Frame
  BY <1>0, <1>3 DEF Frame
<1> HIDE DEF v
<1>5. ASSUME /\ leader' = leader /\ leader[attempt] # "running" /\ RemoveDirectory /\ Settle(v),
             child' = child \/ SignalGroup,
             side = "vps" => Apart \/ child'[attempt] # "alive"
      PROVE  Ends(v)
  <2>1. leader[attempt] \in {"answered", "exited"}
    BY <1>0, <1>5
  <2>2. child' \in [Attempts -> Children] /\ \A a \in Attempts \ {attempt} : child'[a] = child[a]
    BY <1>0, <1>5, Signalled
  <2>3. Elsewhere /\ directory'[attempt] \in {"none", "removed"}
    BY <1>0, <1>5, <2>2, Removal DEF Elsewhere
  <2>4. phase # "over"
    OBVIOUS
  <2>5. QED
    BY <1>0, <1>1, <1>2, <1>4, <1>5, <2>1, <2>3, <2>4 DEF Ends, Live
<1>6. CASE side = "vps" /\ KillGroup(what, byTimer, byCaller)
  <2>1. /\ SignalGroup
        /\ Apart \/ child'[attempt] # "alive"
        /\ child' \in [Attempts -> Children]
        /\ \A a \in Attempts \ {attempt} : child'[a] = child[a]
    BY <1>0, <1>6, Signalled DEF KillGroup
  <2>2. CASE leader[attempt] = "running"
    <3>1. /\ leader' = [leader EXCEPT ![attempt] = "killed"] /\ phase' = "reaping"
          /\ outcome' = what /\ UNCHANGED <<attempt, result, directory, secret>>
      BY <1>6, <2>2 DEF KillGroup
    <3>2. leader' \in [Attempts -> Leaders] /\ leader'[attempt] = "killed"
          /\ \A a \in Attempts \ {attempt} : leader'[a] = leader[a]
      BY <1>0, <3>1 DEF Leaders
    <3>3. QED
      BY <1>0, <1>4, <2>1, <3>1, <3>2 DEF Waits, Elsewhere
  <2>3. CASE leader[attempt] # "running"
    BY <1>5, <1>6, <2>1, <2>3 DEF KillGroup, v
  <2>4. QED
    BY <2>2, <2>3
<1>7. CASE side = "connector" /\ attempt = 0 /\ KillHelper(what, byTimer, byCaller)
  <2>1. CASE leader[attempt] = "running"
    <3>1. /\ leader' = [leader EXCEPT ![attempt] = "killed"] /\ phase' = "reaping"
          /\ SignalGroup
          /\ outcome' = what /\ UNCHANGED <<attempt, result, directory, secret>>
      BY <1>7, <2>1 DEF KillHelper
    <3>2. leader' \in [Attempts -> Leaders] /\ leader'[attempt] = "killed"
          /\ \A a \in Attempts \ {attempt} : leader'[a] = leader[a]
      BY <1>0, <3>1 DEF Leaders
    <3>3. child' \in [Attempts -> Children] /\ \A a \in Attempts \ {attempt} : child'[a] = child[a]
      BY <1>0, <3>1, Signalled
    <3>4. QED
      BY <1>0, <1>4, <1>7, <3>1, <3>2, <3>3 DEF Waits, Elsewhere
  <2>2. CASE leader[attempt] # "running"
    <3>1. /\ RemoveDirectory /\ Settle(v) /\ leader' = leader /\ child' = child
          /\ side # "vps"
      BY <1>7, <2>2 DEF KillHelper, v, processes
    <3>2. QED
      BY <1>5, <2>2, <3>1
  <2>3. QED
    BY <2>1, <2>2
<1>8. CASE side = "connector" /\ attempt # 0 /\ TellLeader(what, byTimer, byCaller)
  <2>1. CASE leader[attempt] = "running"
    <3>1. /\ leader' = [leader EXCEPT ![attempt] = "told"] /\ phase' = "grace" /\ child' = child
          /\ outcome' = what /\ UNCHANGED <<attempt, result, directory, secret>>
      BY <1>8, <2>1 DEF TellLeader
    <3>2. leader' \in [Attempts -> Leaders] /\ leader'[attempt] = "told"
          /\ \A a \in Attempts \ {attempt} : leader'[a] = leader[a]
      BY <1>0, <3>1 DEF Leaders
    <3>3. QED
      BY <1>0, <1>4, <1>8, <3>1, <3>2 DEF Waits, Elsewhere
  <2>2. CASE leader[attempt] # "running"
    <3>1. RemoveDirectory /\ Settle(v) /\ leader' = leader /\ child' = child
      BY <1>8, <2>2 DEF TellLeader, v
    <3>2. side # "vps"
      BY <1>8
    <3>3. QED
      BY <1>5, <2>2, <3>1, <3>2
  <2>3. QED
    BY <2>1, <2>2
<1>9. QED
  BY <1>6, <1>7, <1>8 DEF Cleanup

\* An attempt that goes on keeps its directory, and touches no other.
LEMMA StillHeld ==
    ASSUME Inv, phase' # "over", attempt' = attempt, directory'[attempt] \in {"none", "held"},
           \A a \in Attempts \ {attempt} : leader'[a] = leader[a] /\ directory'[a] = directory[a]
    PROVE  DirectoryOutlivesWorker'
<1>0. Attempts \subseteq Nat /\ attempt \in Attempts
  BY SupervisionLimits DEF SupervisionLimits, Inv, TypeOK, Attempts
<1>1. ASSUME NEW a \in Attempts
      PROVE  /\ directory'[a] = "removed" => leader'[a] \notin Live \cup {"killed"}
             /\ directory'[a] \in {"dropped", "finalized"} =>
                    /\ IsOver(a)' /\ ~Answered(a)'
                    /\ a = attempt' => fired' \/ cancelled'
             /\ IsOver(a)' => directory'[a] # "held"
  <2>1. CASE a = attempt
    BY <1>0, <2>1 DEF IsOver
  <2>2. CASE a # attempt
    <3>1. (IsOver(a)' <=> IsOver(a)) /\ ~Answered(a)'
      BY <1>0, <2>2 DEF IsOver, Answered
    <3>2. leader'[a] = leader[a] /\ directory'[a] = directory[a]
      BY <2>2
    <3>3. /\ directory[a] = "removed" => leader[a] \notin Live \cup {"killed"}
          /\ directory[a] \in {"dropped", "finalized"} => IsOver(a)
          /\ IsOver(a) => directory[a] # "held"
      BY DEF Inv, DirectoryOutlivesWorker
    <3>4. QED
      BY <2>2, <3>1, <3>2, <3>3
  <2>3. QED
    BY <2>1, <2>2
<1>2. QED
  BY <1>1 DEF DirectoryOutlivesWorker

\* An attempt that waits for its worker keeps the invariant.
LEMMA WaitsInv ==
    ASSUME Inv, phase \in {"exchanging", "grace"}, NEW what \in {"none", "transient", "permanent"},
           Waits(what), cancelled' \in BOOLEAN
    PROVE  Inv'
<1>0. /\ TypeOK /\ attempt' = attempt /\ attempt \in Attempts /\ Attempts \subseteq Nat
      /\ phase' \in {"grace", "reaping"}
      /\ leader'[attempt] \in {"told", "killed"}
      /\ directory' = directory /\ directory[attempt] \in {"none", "held"}
  BY SupervisionLimits DEF SupervisionLimits, Inv, TypeOK, Attempts, Waits, PhaseInv, Awaiting
<1>1. TypeOK'
  BY <1>0 DEF TypeOK, Waits, Frame, Elsewhere, Phases
<1>2. FreshInv'
  <2>1. \A a \in Attempts : a > attempt => a \in Attempts \ {attempt}
    BY <1>0
  <2>2. QED
    BY <1>0, <2>1 DEF Inv, FreshInv, Waits, Frame, Elsewhere
<1>3. PhaseInv'
  BY <1>0 DEF PhaseInv, Waits, Frame, Apart
<1>4. CancelInv'
  BY <1>0 DEF CancelInv
<1>5. GroupIsKilled'
  <2>1. ASSUME NEW a \in Attempts, IsOver(a)'
        PROVE  IsOver(a) /\ ~Answered(a) /\ a # attempt
    BY <1>0, <2>1 DEF IsOver, Answered
  <2>2. QED
    BY <2>1 DEF Inv, GroupIsKilled, Waits, Frame, Elsewhere, Apart
<1>6. SecretEndsWithCall'
  BY <1>0 DEF SecretEndsWithCall
<1>7. DirectoryOutlivesWorker'
  BY <1>0, StillHeld DEF Waits, Elsewhere
<1>8. QED
  BY <1>1, <1>2, <1>3, <1>4, <1>5, <1>6, <1>7 DEF Inv

-----------------------------------------------------------------------------
(* Every step keeps the invariant.                                         *)

\* What holds of the types, for use in the steps below.
LEMMA Types ==
    ASSUME Inv
    PROVE  /\ TypeOK /\ attempt \in Attempts /\ Attempts \subseteq Nat
           /\ leader \in [Attempts -> Leaders] /\ child \in [Attempts -> Children]
           /\ directory \in [Attempts -> Places]
           /\ timer \in Timers /\ clock \in Nat /\ fired \in BOOLEAN /\ cancelled \in BOOLEAN
           /\ outcome \in {"none", "transient", "permanent"}
           /\ side \in {"vps", "connector"}
           /\ {TotalTime, AttemptTime, RequestTime, HelperTime, Grace, MaxClock} \subseteq Nat
  BY SupervisionLimits DEF SupervisionLimits, Inv, TypeOK, Attempts

\* An attempt that ends while nothing of it runs.
LEMMA EndsQuietly ==
    ASSUME Inv, phase # "over", NEW verdict, Settle(verdict),
           RemoveDirectory \/ (UNCHANGED directory /\ directory[attempt] = "none"),
           directory[attempt] \in {"none", "held"},
           UNCHANGED <<side, retries, leader, child, timer, clock>>,
           fired' \in BOOLEAN, cancelled' \in BOOLEAN, cancelled' => verdict = "cancelled",
           leader[attempt] \notin Live \cup {"killed"},
           side = "vps" => Apart \/ child[attempt] # "alive"
    PROVE  Inv'
<1>1. Frame /\ Elsewhere /\ directory'[attempt] \in {"none", "removed"}
  BY Types, Removal DEF Frame, Elsewhere
<1>2. Ends(verdict)
  BY <1>1, Types DEF Ends
<1>3. QED
  BY <1>2, EndsInv

\* Before a worker runs.
LEMMA BeforeWorker ==
    ASSUME Inv, Start \/ Refuse \/ Spawn \/ SpawnFails
    PROVE  Inv'
<1>0. ~cancelled
  BY DEF Inv, CancelInv, Start, Refuse, Spawn, SpawnFails
<1>1. CASE Start
  <2>1. timer' \in Timers
    <3>1. \A t \in Int : /\ [timer EXCEPT !.attempt = t] \in Timers
                         /\ [timer EXCEPT !.helper = t] \in Timers
      BY Types DEF Timers
    <3>2. Sooner(clock + AttemptTime, TotalTime) \in Int
          /\ Sooner(clock + HelperTime, timer.attempt) \in Int
      BY Types DEF Sooner, Timers
    <3>3. timer' \in {timer, [timer EXCEPT !.attempt = Sooner(clock + AttemptTime, TotalTime)],
                      [timer EXCEPT !.helper = Sooner(clock + HelperTime, timer.attempt)]}
      <4> DEFINE t1 == [timer EXCEPT !.attempt = Sooner(clock + AttemptTime, TotalTime)]
                 t2 == [timer EXCEPT !.helper = Sooner(clock + HelperTime, timer.attempt)]
      <4>1. timer' = CASE side = "vps" -> t1
                       [] side = "connector" /\ attempt = 0 -> t2
                       [] OTHER -> timer
        BY <1>1 DEF Start
      <4> HIDE DEF t1, t2
      <4>2. timer' \in {timer, t1, t2}
        BY <4>1, Zenon
      <4>3. QED
        BY <4>2 DEF t1, t2
    <3>4. QED
      BY <3>1, <3>2, <3>3, Types
  <2>2. /\ phase = "ready" /\ phase' = "spawning" /\ fired' = FALSE
        /\ directory' = IF attempt = 0 THEN directory ELSE [directory EXCEPT ![attempt] = "held"]
        /\ UNCHANGED <<side, retries, attempt, leader, child, secret, outcome, cancelled, result,
                       clock>>
    BY <1>1 DEF Start, processes
  <2>3. /\ directory' \in [Attempts -> Places] /\ directory'[attempt] \in {"none", "held"}
        /\ \A a \in Attempts \ {attempt} : directory'[a] = directory[a]
    BY <2>2, Types DEF Places, Inv, FreshInv
  <2>4. TypeOK'
    BY <2>1, <2>2, <2>3, Types DEF TypeOK, Phases
  <2>5. FreshInv'
    <3>1. \A a \in Attempts : a > attempt => directory'[a] = directory[a]
      BY <2>3, Types
    <3>2. QED
      BY <2>2, <3>1 DEF Inv, FreshInv
  <2>6. PhaseInv' /\ CancelInv' /\ SecretEndsWithCall'
    BY <1>0, <2>2, <2>3 DEF PhaseInv, CancelInv, SecretEndsWithCall, Awaiting
  <2>7. GroupIsKilled' /\ DirectoryOutlivesWorker'
    <3>1. GroupIsKilled'
      BY <2>2 DEF Inv, GroupIsKilled, IsOver, Answered, Apart
    <3>2. DirectoryOutlivesWorker'
      BY <2>2, <2>3, StillHeld
    <3>3. QED
      BY <3>1, <3>2
  <2>8. QED
    BY <2>4, <2>5, <2>6, <2>7 DEF Inv
<1>2. CASE Spawn
  <2>1. /\ phase = "spawning" /\ phase' = "exchanging"
        /\ leader' = [leader EXCEPT ![attempt] = "running"]
        /\ UNCHANGED <<side, retries, attempt, child, directory, secret, outcome, timer, fired,
                       cancelled, result, clock>>
    BY <1>2 DEF Spawn
  <2>2. /\ leader' \in [Attempts -> Leaders] /\ leader'[attempt] = "running"
        /\ \A a \in Attempts \ {attempt} : leader'[a] = leader[a]
    BY <2>1, Types DEF Leaders
  <2>3. TypeOK'
    BY <2>1, <2>2, Types DEF TypeOK, Phases
  <2>4. FreshInv'
    <3>1. \A a \in Attempts : a > attempt => leader'[a] = leader[a]
      BY <2>2, Types
    <3>2. QED
      BY <2>1, <3>1 DEF Inv, FreshInv
  <2>5. PhaseInv' /\ CancelInv' /\ SecretEndsWithCall'
    BY <1>0, <2>1, <2>2 DEF Inv, PhaseInv, CancelInv, SecretEndsWithCall, Awaiting
  <2>6. GroupIsKilled'
    <3>1. ASSUME NEW a \in Attempts, IsOver(a)' PROVE IsOver(a) /\ ~Answered(a) /\ a # attempt
      BY <2>1, <3>1, Types DEF IsOver, Answered
    <3>2. QED
      BY <2>1, <2>2, <3>1 DEF Inv, GroupIsKilled, Apart
  <2>7. DirectoryOutlivesWorker'
    <3>1. directory[attempt] \in {"none", "held"}
      BY <2>1 DEF Inv, PhaseInv, Awaiting
    <3>2. QED
      BY <2>1, <2>2, <3>1, StillHeld
  <2>8. QED
    BY <2>3, <2>4, <2>5, <2>6, <2>7 DEF Inv
<1>3. ASSUME phase \in {"ready", "spawning"}
      PROVE  /\ leader[attempt] \notin Live \cup {"killed"} /\ child[attempt] # "alive"
             /\ directory[attempt] \in {"none", "held"}
             /\ phase = "ready" => directory[attempt] = "none"
  BY <1>3, Types DEF Inv, FreshInv, Live, PhaseInv, Awaiting
<1>4. CASE Refuse
  <2>1. \E verdict : Settle(verdict)
    BY <1>4 DEF Refuse
  <2>2. QED
    BY <1>0, <1>3, <1>4, <2>1, Types, EndsQuietly DEF Refuse, processes
<1>5. CASE SpawnFails
  BY <1>0, <1>3, <1>5, Types, EndsQuietly DEF SpawnFails, processes
<1>6. QED
  BY <1>1, <1>2, <1>4, <1>5

\* While a worker runs, or is waited for.
LEMMA WithWorker ==
    ASSUME Inv, \/ Receive \/ ExchangeBreaks \/ WorkerDeadline \/ GraceEnds \/ Reaped
                \/ TimerFires \/ CallerCancels
    PROVE  Inv'
<1>1. ASSUME phase = "exchanging", NEW what \in {"none", "transient", "permanent"},
             NEW byTimer \in BOOLEAN, NEW byCaller \in BOOLEAN,
             Cleanup(what, byTimer, byCaller), UNCHANGED <<side, retries, clock>>,
             fired' = byTimer \/ fired' = fired, cancelled' = byCaller,
             what = "none" => byTimer \/ byCaller,
             cancelled => byCaller
      PROVE  Inv'
  <2>1. Waits(what) \/ \E verdict : Ends(verdict)
    BY <1>1, CleanupChange
  <2>2. QED
    BY <1>1, <2>1, WaitsInv, EndsInv
<1>2. phase = "exchanging" => cancelled = FALSE
  BY Types DEF Inv, CancelInv
<1>3. ASSUME phase = "exchanging", NEW what \in {"transient", "permanent"},
             Cleanup(what, FALSE, FALSE), UNCHANGED <<side, retries, fired, cancelled, clock>>
      PROVE  Inv'
  BY <1>1, <1>2, <1>3
<1>4. CASE Receive
  <2>1. CASE /\ leader[attempt] = "answered" /\ RemoveDirectory /\ Settle("success")
             /\ UNCHANGED <<processes, timer>>
    <3>1. /\ phase = "exchanging" /\ UNCHANGED <<side, retries, leader, child, timer, clock>>
          /\ fired' = fired /\ cancelled' = cancelled
      BY <1>4, <2>1 DEF Receive, processes
    <3>2. directory[attempt] \in {"none", "held"}
      BY <3>1 DEF Inv, PhaseInv, Awaiting
    <3>3. Frame /\ Elsewhere /\ directory'[attempt] \in {"none", "removed"}
      BY <2>1, <3>1, <3>2, Types, Removal DEF Frame, Elsewhere
    <3>4. Ends("success")
      BY <1>2, <2>1, <3>1, <3>3, Types DEF Ends, Live
    <3>5. QED
      BY <3>4, EndsInv
  <2>2. CASE \E what \in {"transient", "permanent"} : Cleanup(what, FALSE, FALSE)
    BY <1>3, <1>4, <2>2 DEF Receive
  <2>3. QED
    BY <1>4, <2>1, <2>2 DEF Receive
<1>5. CASE ExchangeBreaks
  BY <1>3, <1>5 DEF ExchangeBreaks
<1>6. CASE WorkerDeadline
  BY <1>3, <1>6 DEF WorkerDeadline
<1>7. ASSUME NEW verdict, Settle(verdict), phase \in {"grace", "reaping"},
             RemoveDirectory, leader[attempt] = "exited",
             UNCHANGED <<side, retries, leader, child, timer, fired, cancelled, clock>>,
             cancelled => verdict = "cancelled",
             side = "vps" => Apart \/ child[attempt] # "alive"
      PROVE  Inv'
  <2>1. directory[attempt] \in {"none", "held"}
    BY <1>7 DEF Inv, PhaseInv, Awaiting
  <2>2. QED
    BY <1>7, <2>1, Types, EndsQuietly DEF Live
<1>8. cancelled => Verdict(outcome, fired, cancelled) = "cancelled"
  BY Types, VerdictType
<1>9. CASE GraceEnds
  <2>1. /\ phase = "grace" /\ side = "connector"
        /\ UNCHANGED <<side, retries, timer, fired, cancelled, clock>>
    BY <1>9 DEF GraceEnds, Inv, PhaseInv
  <2>2. CASE leader[attempt] = "exited"
    <3>1. /\ RemoveDirectory /\ Settle(Verdict(outcome, fired, cancelled))
          /\ UNCHANGED <<leader, child>>
      BY <1>9, <2>2 DEF GraceEnds, processes
    <3>2. QED
      BY <1>7, <1>8, <2>1, <2>2, <3>1
  <2>3. CASE leader[attempt] # "exited"
    <3>1. /\ leader' = [leader EXCEPT ![attempt] = "killed"] /\ phase' = "reaping"
          /\ SignalGroup /\ UNCHANGED <<attempt, directory, secret, outcome, result>>
      BY <1>9, <2>3 DEF GraceEnds
    <3>2. /\ leader' \in [Attempts -> Leaders] /\ leader'[attempt] = "killed"
          /\ \A a \in Attempts \ {attempt} : leader'[a] = leader[a]
      BY <3>1, Types DEF Leaders
    <3>3. Waits(outcome)
      BY <2>1, <3>1, <3>2, Types, Signalled DEF Waits, Frame, Elsewhere
    <3>4. QED
      BY <2>1, <3>3, Types, WaitsInv
  <2>4. QED
    BY <2>2, <2>3
<1>10. CASE Reaped
  <2>1. /\ phase = "reaping" /\ leader[attempt] = "exited" /\ RemoveDirectory
        /\ Settle(Verdict(outcome, fired, cancelled))
        /\ UNCHANGED <<side, retries, leader, child, timer, fired, cancelled, clock>>
    BY <1>10 DEF Reaped, processes
  <2>2. side = "vps" => Apart \/ child[attempt] # "alive"
    BY <2>1 DEF Inv, PhaseInv
  <2>3. QED
    BY <1>7, <1>8, <2>1, <2>2
<1>11. ASSUME NEW byTimer \in BOOLEAN, NEW byCaller \in BOOLEAN, byTimer \/ byCaller,
              Thrown(byTimer, byCaller), phase \in Awaiting,
              UNCHANGED <<side, retries, clock>>,
              fired' = byTimer, cancelled' = byCaller, cancelled => byCaller
       PROVE  Inv'
  <2>1. \A what : byCaller => Verdict(what, byTimer, byCaller) = "cancelled"
    BY VerdictType
  <2>2. CASE phase = "spawning"
    <3>1. /\ RemoveDirectory /\ Settle(Verdict("none", byTimer, byCaller))
          /\ UNCHANGED <<leader, child, timer>>
      BY <1>11, <2>2 DEF Thrown, processes
    <3>2. /\ leader[attempt] \notin Live \cup {"killed"} /\ child[attempt] # "alive"
          /\ directory[attempt] \in {"none", "held"}
      BY <2>2, Types DEF Inv, FreshInv, Live, PhaseInv, Awaiting
    <3>3. QED
      BY <1>11, <2>1, <2>2, <3>1, <3>2, EndsQuietly
  <2>3. CASE phase = "exchanging"
    <3>1. Cleanup("none", byTimer, byCaller)
      BY <1>11, <2>3 DEF Thrown
    <3>2. QED
      BY <1>1, <1>11, <2>3, <3>1
  <2>4. CASE phase \in {"grace", "reaping"}
    <3> DEFINE v == Verdict(outcome, byTimer, byCaller)
    <3>1. Settle(v) /\ DropDirectory /\ UNCHANGED <<leader, child, timer>>
      BY <1>11, <2>4 DEF Thrown, Abandon, processes
    <3>2. /\ side = "vps" => leader[attempt] \notin Live /\ (Apart \/ child[attempt] # "alive")
          /\ attempt = 0 => leader[attempt] \notin Live
          /\ directory[attempt] \in {"none", "held"}
      BY <2>4 DEF Inv, PhaseInv, Live, Awaiting
    <3>3. byCaller => v = "cancelled"
      BY <2>1
    <3>4. v # "success"
      <4>1. v \in {"cancelled", "transient", "deadline", outcome}
        BY VerdictType, <1>11
      <4>2. QED
        BY <4>1, Types
    <3> HIDE DEF v
    <3>5. /\ Frame /\ Elsewhere
          /\ directory'[attempt] \in {"none", "dropped"}
      BY <1>11, <3>1, <3>2, Types, Dropping DEF Frame, Elsewhere
    <3>6. Ends(v)
      BY <1>11, <2>4, <3>1, <3>2, <3>3, <3>4, <3>5 DEF Ends
    <3>7. QED
      BY <3>6, EndsInv
  <2>5. QED
    BY <1>11, <2>2, <2>3, <2>4 DEF Awaiting
<1>12. CASE TimerFires
  <2>1. /\ phase \in Awaiting /\ fired' = TRUE /\ Thrown(TRUE, cancelled)
        /\ UNCHANGED <<side, retries, cancelled, clock>>
    BY <1>12 DEF TimerFires
  <2>2. QED
    BY <1>11, <2>1, Types
<1>13. CASE CallerCancels
  <2>1. /\ phase \in Awaiting /\ cancelled' = TRUE /\ Thrown(fired, TRUE)
        /\ UNCHANGED <<side, retries, fired, clock>>
    BY <1>13 DEF CallerCancels
  <2>2. QED
    BY <1>11, <2>1, Types
<1>14. QED
  BY <1>4, <1>5, <1>6, <1>9, <1>10, <1>12, <1>13

\* Processes that act on their own, and time.
LEMMA Elsewise ==
    ASSUME Inv, \/ StartsChild \/ Tick \/ Finished
                \/ \E a \in Attempts :
                     \/ ChildEnds(a) \/ WorkerExits(a) \/ WorkerStops(a) \/ KilledDies(a)
                     \/ Finalize(a)
    PROVE  Inv'
<1>1. CASE Tick \/ Finished
  BY <1>1, Types DEF Tick, Finished, vars, Environment, processes, Inv, TypeOK, FreshInv, PhaseInv,
                     CancelInv, GroupIsKilled, SecretEndsWithCall, DirectoryOutlivesWorker,
                     IsOver, Answered, Apart
<1>2. ASSUME UNCHANGED <<side, retries, phase, attempt, directory, secret, outcome, timer, fired,
                         cancelled, result, clock>>,
             NEW a \in Attempts, leader[a] # "none" \/ child[a] # "none",
             a = attempt => phase \notin {"ready", "spawning"},
             leader' \in [Attempts -> Leaders], child' \in [Attempts -> Children],
             \A b \in Attempts \ {a} : leader'[b] = leader[b] /\ child'[b] = child[b],
             \/ leader'[a] = leader[a]
             \/ leader[a] = "running" /\ leader'[a] \in {"answered", "exited"}
             \/ leader[a] \in {"told", "killed"} /\ leader'[a] = "exited",
             child'[a] = "alive" => child[a] = "alive" \/ (a = attempt /\ phase = "exchanging")
      PROVE  Inv'
  <2>1. TypeOK'
    BY <1>2 DEF Inv, TypeOK
  <2>2. FreshInv'
    <3>1. ~(a > attempt)
      BY <1>2 DEF Inv, FreshInv
    <3>2. QED
      BY <1>2, <3>1 DEF Inv, FreshInv
  <2>3. PhaseInv'
    <3>1. CASE a = attempt
      BY <1>2, <3>1 DEF Inv, PhaseInv, Apart
    <3>2. CASE a # attempt
      BY <1>2, <3>2, Types DEF Inv, PhaseInv, Apart
    <3>3. QED
      BY <3>1, <3>2
  <2>4. CancelInv' /\ SecretEndsWithCall'
    BY <1>2 DEF Inv, CancelInv, SecretEndsWithCall
  <2>5. GroupIsKilled'
    <3>1. ASSUME NEW b \in Attempts, IsOver(b), ~Answered(b)
          PROVE  /\ side = "vps" => leader'[b] \notin Live /\ (Apart \/ child'[b] # "alive")
                 /\ b = 0 => leader'[b] \notin Live
      <4>1. /\ side = "vps" => leader[b] \notin Live /\ (Apart \/ child[b] # "alive")
            /\ b = 0 => leader[b] \notin Live
        BY <3>1 DEF Inv, GroupIsKilled
      <4>2. CASE b = a
        <5>1. ~(a = attempt /\ phase = "exchanging")
          BY <3>1, <4>2, Types DEF IsOver
        <5>2. QED
          BY <1>2, <4>1, <4>2, <5>1 DEF Live
      <4>3. CASE b # a
        BY <1>2, <4>1, <4>3
      <4>4. QED
        BY <4>2, <4>3
    <3>2. \A b \in Attempts : (IsOver(b)' <=> IsOver(b)) /\ (Answered(b)' <=> Answered(b))
      BY <1>2 DEF IsOver, Answered
    <3>3. QED
      BY <1>2, <3>1, <3>2 DEF GroupIsKilled, Apart
  <2>6. DirectoryOutlivesWorker'
    <3>1. ASSUME NEW b \in Attempts, directory[b] = "removed"
          PROVE  leader'[b] \notin Live \cup {"killed"}
      BY <1>2, <3>1 DEF Inv, DirectoryOutlivesWorker, Live
    <3>2. \A b \in Attempts : (IsOver(b)' <=> IsOver(b)) /\ (Answered(b)' <=> Answered(b))
      BY <1>2 DEF IsOver, Answered
    <3>3. QED
      BY <1>2, <3>1, <3>2 DEF Inv, DirectoryOutlivesWorker
  <2>7. QED
    BY <2>1, <2>2, <2>3, <2>4, <2>5, <2>6 DEF Inv
<1>3. CASE StartsChild
  <2>1. /\ phase = "exchanging" /\ leader[attempt] = "running"
        /\ child' = [child EXCEPT ![attempt] = "alive"] /\ leader' = leader
        /\ UNCHANGED <<side, retries, phase, attempt, directory, secret, outcome, timer, fired,
                       cancelled, result, clock>>
    BY <1>3 DEF StartsChild, Environment
  <2>2. /\ child' \in [Attempts -> Children]
        /\ \A b \in Attempts \ {attempt} : child'[b] = child[b]
    BY <2>1, Types DEF Children
  <2>3. QED
    BY <1>2, <2>1, <2>2, Types
<1>4. ASSUME NEW a \in Attempts, ChildEnds(a) \/ WorkerExits(a) \/ WorkerStops(a) \/ KilledDies(a)
      PROVE  Inv'
  <2>1. /\ UNCHANGED <<side, retries, phase, attempt, directory, secret, outcome, timer, fired,
                       cancelled, result, clock>>
    BY <1>4 DEF ChildEnds, WorkerExits, WorkerStops, KilledDies, Environment
  <2>2. leader[a] # "none" \/ child[a] # "none"
    BY <1>4 DEF ChildEnds, WorkerExits, WorkerStops, KilledDies
  <2>3. /\ leader' \in [Attempts -> Leaders] /\ child' \in [Attempts -> Children]
        /\ \A b \in Attempts \ {a} : leader'[b] = leader[b] /\ child'[b] = child[b]
        /\ child'[a] = "alive" => child[a] = "alive"
        /\ \/ leader'[a] = leader[a]
           \/ leader[a] = "running" /\ leader'[a] \in {"answered", "exited"}
           \/ leader[a] \in {"told", "killed"} /\ leader'[a] = "exited"
    BY <1>4, Types DEF ChildEnds, WorkerExits, WorkerStops, KilledDies, Leaders, Children
  <2>4. a = attempt => phase \notin {"ready", "spawning"}
    BY <2>2 DEF Inv, FreshInv
  <2>5. QED
    BY <1>2, <2>1, <2>2, <2>3, <2>4
<1>5. ASSUME NEW a \in Attempts, Finalize(a)
      PROVE  Inv'
  <2>1. /\ directory[a] = "dropped" /\ directory' = [directory EXCEPT ![a] = "finalized"]
        /\ UNCHANGED <<side, retries, phase, attempt, leader, child, secret, outcome, timer,
                       fired, cancelled, result, clock>>
    BY <1>5 DEF Finalize, processes
  <2>2. /\ directory' \in [Attempts -> Places] /\ directory'[a] = "finalized"
        /\ \A b \in Attempts \ {a} : directory'[b] = directory[b]
    BY <2>1, Types DEF Places
  <2>3. IsOver(a)
    BY <2>1 DEF Inv, DirectoryOutlivesWorker
  <2>4. ~(a > attempt) /\ (a = attempt => phase = "over")
    BY <2>3, Types DEF IsOver
  <2>5. TypeOK' /\ CancelInv' /\ SecretEndsWithCall'
    BY <2>1, <2>2 DEF Inv, TypeOK, CancelInv, SecretEndsWithCall
  <2>6. FreshInv' /\ PhaseInv'
    BY <2>1, <2>2, <2>4, Types DEF Inv, FreshInv, PhaseInv, Awaiting, Apart
  <2>7. GroupIsKilled' /\ DirectoryOutlivesWorker'
    BY <2>1, <2>2 DEF Inv, GroupIsKilled, DirectoryOutlivesWorker, IsOver, Answered, Apart
  <2>8. QED
    BY <2>5, <2>6, <2>7 DEF Inv
<1>6. QED
  BY <1>1, <1>3, <1>4, <1>5

-----------------------------------------------------------------------------
(* The theorems.                                                           *)

\* Nothing runs at first.
LEMMA InitInv == Init => Inv
<1> SUFFICES ASSUME Init PROVE Inv
  OBVIOUS
<1>0. /\ Attempts = 0..(2 + Fallbacks) /\ Fallbacks \in Nat /\ attempt \in {0, 1}
      /\ RequestTime \in Nat
      /\ side = "vps" => attempt = 1
  BY SupervisionLimits DEF SupervisionLimits, Attempts, Init
<1>1. timer \in Timers
  BY <1>0 DEF Init, Timers
<1>2. TypeOK
  <2>1. attempt \in Attempts
    BY <1>0
  <2>2. /\ leader \in [Attempts -> Leaders] /\ child \in [Attempts -> Children]
        /\ directory \in [Attempts -> Places]
    BY DEF Init, Leaders, Children, Places
  <2>3. QED
    BY <1>1, <2>1, <2>2 DEF Init, TypeOK, Phases
<1>3. FreshInv /\ PhaseInv /\ CancelInv
  BY <1>0 DEF Init, FreshInv, PhaseInv, CancelInv, Awaiting
<1>4. GroupIsKilled /\ SecretEndsWithCall /\ DirectoryOutlivesWorker
  BY DEF Init, GroupIsKilled, SecretEndsWithCall, DirectoryOutlivesWorker, Live
<1>5. QED
  BY <1>2, <1>3, <1>4 DEF Inv

\* The invariant is inductive.
LEMMA StepInv == Inv /\ [Next]_vars => Inv'
<1> SUFFICES ASSUME Inv, [Next]_vars PROVE Inv'
  OBVIOUS
<1>1. CASE UNCHANGED vars
  BY <1>1 DEF vars, processes, Inv, TypeOK, FreshInv, PhaseInv, CancelInv, GroupIsKilled,
              SecretEndsWithCall, DirectoryOutlivesWorker, IsOver, Answered, Apart
<1>2. CASE Next
  BY <1>2, BeforeWorker, WithWorker, Elsewise DEF Next, Coroutine
<1>3. QED
  BY <1>1, <1>2

\* Every variable keeps its type, and processes, directories and the secret are where
\* the coroutine's phase says, in every reachable state.
THEOREM Invariance == Spec => []Inv
  BY InitInv, StepInv, PTL DEF Spec

\* No attempt on the VPS without a valid answer leaves a process running in the group
\* of its worker, and no fetch of a secret its helper.
THEOREM GroupsAreKilled == Spec => []GroupIsKilled
<1>1. Inv => GroupIsKilled
  BY DEF Inv
<1>2. QED
  BY <1>1, Invariance, PTL

\* A secret is closed when its call is over, whatever cut the cleanup short.
THEOREM SecretIsClosed == Spec => []SecretEndsWithCall
<1>1. Inv => SecretEndsWithCall
  BY DEF Inv
<1>2. QED
  BY <1>1, Invariance, PTL

\* A cancelled call starts nothing more and ends as cancelled.
THEOREM CancellationStands == Spec => []CancellationIsKept
<1>1. Inv => CancellationIsKept
  BY DEF Inv, CancelInv, CancellationIsKept
<1>2. QED
  BY <1>1, Invariance, PTL

\* The cleanup removes a private directory only once its worker has been reaped, and
\* only an interrupted cleanup leaves one to the finalizer.
THEOREM DirectoryIsLeft == Spec => []DirectoryOutlivesWorker
<1>1. Inv => DirectoryOutlivesWorker
  BY DEF Inv
<1>2. QED
  BY <1>1, Invariance, PTL

=============================================================================
