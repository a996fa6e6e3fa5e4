----------------------------- MODULE FileGrants -----------------------------
(***************************************************************************)
(* A file of the Connector's owner, approved for one use by one device.    *)
(*                                                                         *)
(* The owner proposes a path, sees its digest on the terminal, confirms,   *)
(* and the path is granted (ConnectorService.approve_local_file and        *)
(* ProcessLocalFileGrants). An authorized request spends the grant, is     *)
(* given an immutable copy of the file, and a one-use execution hands the  *)
(* copy to its executor (prepare_model_execution, PreparedModelExecution). *)
(*                                                                         *)
(* Files are read in two parts, outside every mutex: the file may be       *)
(* written, the registry cleared and the authority changed meanwhile.      *)
(***************************************************************************)
EXTENDS Integers, Sequences, FiniteSets

CONSTANTS
    Users,        \* executions that were handed a file grant
    Grants,       \* file_grant_ids the id factory may draw
    NoGrant,      \* no file_grant_id
    Contents,     \* what one part of a file may hold
    Ttl,          \* expires_at - issued_at of a proposal
    MaxClock,     \* bound on the clock
    MaxWrites,    \* bound on the writes to the file
    MaxRevision,  \* bound on the revisions of the grant
    MaxSession    \* bound on locks and unlocks

ASSUME FileGrantLimits ==
    /\ NoGrant \notin Grants
    /\ {Ttl, MaxClock, MaxWrites, MaxRevision, MaxSession} \subseteq Nat

VARIABLES
    file,        \* what is at the path: its stat and its two parts
    pending,     \* _pending: proposals
    granted,     \* _granted: mappings that may be consumed
    generation,  \* _generation
    closed,      \* _closed
    authority,   \* the revision of the live grant; 0: none is live, or the
                 \* policy is no longer the one of this process
    session,     \* odd while the Connector is unlocked: one signer
    owner,       \* the thread that approves files
    user,        \* the executions
    approved,    \* history: the proposals the owner has confirmed
    clock

registry == <<pending, granted, generation, closed>>
vars == <<file, registry, authority, session, owner, user, approved, clock>>

Unlocked == session % 2 = 1

\* What has been read of a file: its stat before, and its parts so far.
NoRead == [before |-> 0, parts |-> <<>>]
Opened == [before |-> file.stat, parts |-> <<>>]
Hashed(r) == Len(r.parts) = 2

Nobody == [phase |-> "idle", id |-> NoGrant, context |-> 0, session |-> 0,
           generation |-> 0, expires |-> 0, read |-> NoRead]

Execution(phase) == [phase |-> phase, id |-> NoGrant, context |-> 0, snapshot |-> NoRead,
                     read |-> NoRead, open |-> FALSE, got |-> <<>>]

Init ==
    /\ file \in [stat : {1}, parts : {<<c, c>> : c \in Contents}, writes : {0}]
    /\ pending = {} /\ granted = {}
    /\ generation = 0 /\ closed = FALSE
    /\ authority = 1
    /\ session = 1
    /\ owner = Nobody
    /\ user = [u \in Users |-> Execution("idle")]
    /\ approved = {}
    /\ clock = 0

-----------------------------------------------------------------------------
(* Hashing, _open_hashed_file.                                             *)

NextPart(r) == [r EXCEPT !.parts = Append(@, file.parts[Len(@) + 1])]

\* A file whose stat changes while it is read is refused.
StableStat(r) == r.before = file.stat

\* Mutant: the stat tells whether the content has changed.
SameSnapshot_Stat(expected, actual) == expected.before = actual.before

\* _same_snapshot: identity, size, times and digest.
SameSnapshot(expected, actual) == expected = actual

OwnerReads ==
    /\ owner.phase \in {"proposing", "approving"} /\ ~Hashed(owner.read)
    /\ owner' = [owner EXCEPT !.read = NextPart(@)]
    /\ UNCHANGED <<file, registry, authority, session, user, approved, clock>>

UserReads(u) ==
    /\ user[u].phase = "consuming" /\ ~Hashed(user[u].read)
    /\ user' = [user EXCEPT ![u].read = NextPart(@)]
    /\ UNCHANGED <<file, registry, authority, session, owner, approved, clock>>

-----------------------------------------------------------------------------
(* The owner: approve_local_file.                                          *)

\* The context of the live grant, then propose up to the hash.
OwnerBegins ==
    /\ owner.phase = "idle"
    /\ Unlocked /\ authority # 0 /\ ~closed
    /\ owner' = [owner EXCEPT !.phase = "proposing", !.context = authority,
                              !.session = session, !.generation = generation,
                              !.expires = clock + Ttl, !.read = Opened]
    /\ UNCHANGED <<file, registry, authority, session, user, approved, clock>>

OwnerFails ==
    /\ owner' = Nobody
    /\ UNCHANGED <<file, registry, authority, session, user, approved, clock>>

Superseded == closed \/ owner.generation # generation

Proposal(i) == [id |-> i, context |-> owner.context, expires |-> owner.expires,
                snapshot |-> owner.read]

\* The end of propose: under the mutex, unless the registry was cleared.
OwnerProposes ==
    /\ owner.phase = "proposing" /\ Hashed(owner.read)
    /\ IF StableStat(owner.read) /\ ~Superseded
       THEN \E i \in Grants :
                /\ \A e \in pending \cup granted \cup approved : e.id # i
                /\ pending' = pending \cup {Proposal(i)}
                /\ owner' = [owner EXCEPT !.phase = "prompting", !.id = i]
                /\ UNCHANGED <<file, granted, generation, closed, authority, session, user,
                               approved, clock>>
       ELSE OwnerFails

\* The owner refuses, or what he was shown holds no more: discard.
OwnerDeclines ==
    /\ owner.phase = "prompting"
    /\ pending' = {e \in pending : e.id # owner.id}
    /\ owner' = Nobody
    /\ UNCHANGED <<file, granted, generation, closed, authority, session, user, approved,
                   clock>>

\* The owner confirms; context and signer are read again.
OwnerConfirms ==
    /\ owner.phase = "prompting"
    /\ authority = owner.context /\ session = owner.session
    /\ approved' = approved \cup {Proposal(owner.id)}
    /\ owner' = [owner EXCEPT !.phase = "confirmed"]
    /\ UNCHANGED <<file, registry, authority, session, user, clock>>

\* approve: the proposal is spent before the file is read again.
OwnerApproves ==
    /\ owner.phase = "confirmed"
    /\ pending' = {e \in pending : e.id # owner.id}
    /\ IF ~closed /\ Proposal(owner.id) \in pending /\ clock < owner.expires
       THEN owner' = [owner EXCEPT !.phase = "approving", !.generation = generation,
                                   !.read = Opened]
       ELSE owner' = Nobody
    /\ UNCHANGED <<file, granted, generation, closed, authority, session, user, approved,
                   clock>>

\* What the owner has confirmed.
Confirmed == CHOOSE e \in approved : e.id = owner.id

\* Mutant: the registry has not been cleared meanwhile.
OwnerGrants_Late ==
    /\ owner.phase = "approving" /\ Hashed(owner.read)
    /\ IF StableStat(owner.read) /\ SameSnapshot(Confirmed.snapshot, owner.read)
       THEN granted' = granted \cup {Proposal(owner.id)}
       ELSE UNCHANGED granted
    /\ owner' = Nobody
    /\ UNCHANGED <<file, pending, generation, closed, authority, session, user, approved,
                   clock>>

\* The end of approve: the record is signed, and checked against the clock that was
\* read before the hash; the registry must not have been cleared.
OwnerGrants ==
    /\ owner.phase = "approving" /\ Hashed(owner.read)
    /\ IF /\ StableStat(owner.read) /\ SameSnapshot(Confirmed.snapshot, owner.read)
          /\ ~Superseded
       THEN granted' = granted \cup {Proposal(owner.id)}
       ELSE UNCHANGED granted
    /\ owner' = Nobody
    /\ UNCHANGED <<file, pending, generation, closed, authority, session, user, approved,
                   clock>>

-----------------------------------------------------------------------------
(* An execution: prepare_model_execution and PreparedModelExecution.       *)

Others == <<file, pending, generation, closed, authority, session, owner, approved, clock>>

\* The authority has accepted the request, in the context that is live now.
UserClaims(u) ==
    /\ user[u].phase = "idle" /\ Unlocked /\ authority # 0
    /\ user' = [user EXCEPT ![u].phase = "claimed", ![u].context = authority]
    /\ UNCHANGED <<Others, granted>>

Done(u) == [user EXCEPT ![u] = Execution("done")]

\* The policy denies the workload, or no model of its row has a binding: the file grant
\* is not touched.
UserIsRefused(u) ==
    /\ user[u].phase = "claimed"
    /\ user' = Done(u)
    /\ UNCHANGED <<Others, granted>>

\* verify_file_grant.
GrantCovers(e, context) == e.context = context /\ clock < e.expires

\* Mutant: the grant is spent when its file has been handed over.
UserConsumes_Keeps(u) ==
    /\ user[u].phase = "claimed"
    /\ \E i \in Grants :
           /\ IF \E e \in granted : e.id = i /\ GrantCovers(e, user[u].context)
              THEN \E e \in granted :
                       /\ e.id = i
                       /\ user' = [user EXCEPT ![u].phase = "consuming", ![u].id = i,
                                               ![u].snapshot = e.snapshot,
                                               ![u].read = Opened]
              ELSE user' = Done(u)
           /\ UNCHANGED granted
    /\ UNCHANGED Others

\* consume, up to the hash: the mapping is removed under the mutex whatever follows.
UserConsumes(u) ==
    /\ user[u].phase = "claimed"
    /\ \E i \in Grants :
           /\ IF \E e \in granted : e.id = i /\ GrantCovers(e, user[u].context)
              THEN \E e \in granted :
                       /\ e.id = i
                       /\ user' = [user EXCEPT ![u].phase = "consuming", ![u].id = i,
                                               ![u].snapshot = e.snapshot,
                                               ![u].read = Opened]
              ELSE user' = Done(u)
           /\ granted' = IF closed THEN granted ELSE {e \in granted : e.id # i}
    /\ UNCHANGED Others

\* The end of consume: what was hashed has been copied, part by part, to a file that
\* has no name.
UserHolds(u) ==
    /\ user[u].phase = "consuming" /\ Hashed(user[u].read)
    /\ user' = IF StableStat(user[u].read) /\ SameSnapshot(user[u].snapshot, user[u].read)
               THEN [user EXCEPT ![u].phase = "prepared", ![u].open = TRUE]
               ELSE Done(u)
    /\ UNCHANGED <<Others, granted>>

\* execute: its mutex makes it the only one.
UserExecutes(u) ==
    /\ user[u].phase = "prepared"
    /\ user' = [user EXCEPT ![u].phase = "executing"]
    /\ UNCHANGED <<Others, granted>>

Stream(u) == user[u].read.parts

ExecutorReads(u) ==
    /\ user[u].phase = "executing"
    /\ user' = [user EXCEPT ![u].got = Stream(u)]
    /\ UNCHANGED <<Others, granted>>

\* The file is closed, and with it the copy is gone.
Release(u) == [user EXCEPT ![u] = [Execution("done") EXCEPT !.id = user[u].id]]

\* It returns, raises or is cancelled.
ExecutorEnds(u) ==
    /\ user[u].phase = "executing"
    /\ user' = Release(u)
    /\ UNCHANGED <<Others, granted>>

\* Mutant: close releases the file, whoever uses it.
Abandon_Closes(u) ==
    /\ user[u].phase \in {"prepared", "executing"}
    /\ user' = IF user[u].phase = "prepared" THEN Done(u) ELSE [user EXCEPT ![u].open = FALSE]
    /\ UNCHANGED <<Others, granted>>

\* PreparedModelExecution.close, by whoever prepared it: nothing is done for one that
\* has begun.
Abandon(u) ==
    /\ user[u].phase \in {"prepared", "executing"}
    /\ user' = IF user[u].phase = "prepared" THEN Release(u) ELSE user
    /\ UNCHANGED <<Others, granted>>

-----------------------------------------------------------------------------
(* The process and its world.                                              *)

World == <<registry, owner, user, approved>>

\* ConnectorService.lock and unlock: the grants are kept.
LockOrUnlock ==
    /\ session < MaxSession
    /\ Unlocked \/ ~closed
    /\ session' = session + 1
    /\ UNCHANGED <<World, file, authority, clock>>

\* ConnectorService.close: clear, after the lock.
Clear ==
    /\ ~Unlocked /\ ~closed
    /\ closed' = TRUE
    /\ generation' = generation + 1
    /\ pending' = {} /\ granted' = {}
    /\ UNCHANGED <<file, authority, session, owner, user, approved, clock>>

\* The grant is replaced; or it is revoked, or the policy changes.
AuthorityChanges ==
    /\ authority # 0
    /\ \E r \in {0, authority + 1} : r <= MaxRevision /\ authority' = r
    /\ UNCHANGED <<World, file, session, clock>>

\* Another program writes a part of the file. One that is renamed into its place is
\* taken as a write to both parts, also for a copy that holds the old file open, to
\* which it changes nothing: the properties hold against more than can happen. Two writes may fall into
\* one tick of the file system's clock: the stat is the same.
Write ==
    /\ file.writes < MaxWrites
    /\ \E i \in 1..2, c \in Contents, s \in {file.stat, file.stat + 1} :
           file' = [stat |-> s, parts |-> [file.parts EXCEPT ![i] = c],
                    writes |-> file.writes + 1]
    /\ UNCHANGED <<World, authority, session, clock>>

Tick ==
    /\ clock < MaxClock
    /\ clock' = clock + 1
    /\ UNCHANGED <<World, file, authority, session>>

Finished ==
    /\ closed /\ owner.phase = "idle"
    /\ \A u \in Users : user[u].phase \in {"idle", "done"}
    /\ UNCHANGED vars

Owner ==
    \/ OwnerBegins \/ OwnerReads \/ OwnerProposes \/ OwnerDeclines
    \/ OwnerConfirms \/ OwnerApproves \/ OwnerGrants

User(u) ==
    \/ UserClaims(u) \/ UserIsRefused(u) \/ UserConsumes(u) \/ UserReads(u) \/ UserHolds(u)
    \/ UserExecutes(u) \/ ExecutorReads(u) \/ ExecutorEnds(u) \/ Abandon(u)

Next ==
    \/ Owner \/ \E u \in Users : User(u)
    \/ LockOrUnlock \/ Clear \/ AuthorityChanges \/ Write \/ Tick \/ Finished

Spec == Init /\ [][Next]_vars

-----------------------------------------------------------------------------
(* Properties.                                                             *)

Reads == [before : Nat, parts : {s \in Seq(Contents) : Len(s) <= 2}]

Records == [id : Grants, context : Nat, expires : Nat, snapshot : Reads]

Owners ==
    [phase : {"idle", "proposing", "prompting", "confirmed", "approving"},
     id : Grants \cup {NoGrant}, context : Nat, session : Nat, generation : Nat,
     expires : Nat, read : Reads]

Executions ==
    [phase : {"idle", "claimed", "consuming", "prepared", "executing", "done"},
     id : Grants \cup {NoGrant}, context : Nat, snapshot : Reads, read : Reads,
     open : BOOLEAN, got : Seq(Contents)]

\* Every variable has its type, and no read is longer than its file.
TypeOK ==
    /\ file \in [stat : Nat, parts : [1..2 -> Contents], writes : Nat]
    /\ pending \subseteq Records /\ granted \subseteq Records /\ approved \subseteq Records
    /\ generation \in Nat /\ closed \in BOOLEAN
    /\ authority \in Nat /\ session \in Nat
    /\ owner \in Owners
    /\ user \in [Users -> Executions]
    /\ clock \in Nat

WasHanded(u) ==
    \/ user[u].phase \in {"prepared", "executing"}
    \/ user[u].phase = "done" /\ user[u].id # NoGrant

\* What an executor reads is what the owner saw and confirmed, for a request of the
\* same context, however the file was written between the prompt, the approval, the
\* hand-over and the reading (media_policy.py:653).
ReadsWhatWasApproved ==
    \A u \in Users : user[u].got # <<>> =>
        \E e \in approved : /\ e.id = user[u].id
                            /\ e.context = user[u].context
                            /\ e.snapshot.parts = user[u].got

\* Of two executions that spend one grant, at the same time or one after the other, at
\* most one is ever given the file (media_policy.py:669).
HandedOverOnce ==
    \A u, w \in Users : u # w /\ WasHanded(u) /\ WasHanded(w) => user[u].id # user[w].id

\* A registry that was cleared holds no path, whatever was being proposed or approved
\* when it was (media_policy.py:566, 644).
NothingAfterClear == closed => pending = {} /\ granted = {}

\* The copy is open while its executor may read it, and released once the execution is
\* over, by whichever of execute and close came first (media_policy.py:747).
OpenWhileExecuted ==
    \A u \in Users : /\ user[u].phase = "executing" => user[u].open
                     /\ user[u].phase = "done" => ~user[u].open
=============================================================================
