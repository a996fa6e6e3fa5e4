------------------------------ MODULE Pairing ------------------------------
(***************************************************************************)
(* Pairing VPS keys with the Connector: the orchestrator that signs one    *)
(* request, displays the challenge and polls for the owner's decision      *)
(* (VpsPairingOrchestrator and VpsProfileStore in connector/client.py,     *)
(* PairingWssClient in connector/transport.py), the Connector's handler    *)
(* and the owner's prompt (connector/service.py), and the pairings table   *)
(* behind them (connector/store.py).                                       *)
(*                                                                         *)
(* A request is issued and signed once, so its pairing identifier stands   *)
(* for its bytes; of a challenge the time and the TLS leaf it names are    *)
(* kept.  Signatures, scopes and the grant's own expiry, which is set far  *)
(* beyond the pairing's, are left out.                                     *)
(*                                                                         *)
(* approve and deny prompt on the event loop itself: while the owner reads *)
(* the prompt, the Connector answers nobody and only time passes.          *)
(***************************************************************************)
EXTENDS Integers, FiniteSets

CONSTANTS
    Keys,             \* VPS identities, by their key_id
    Offsets,          \* what a VPS clock may read above the Connector's
    PairingTtl,       \* limits.PAIRING_TTL_SECONDS
    MaxClockSkew,     \* limits.MAX_CLOCK_SKEW_SECONDS
    AuditRetention,   \* limits.AUDIT_RETENTION_SECONDS
    MaxPending,       \* 3, in AuthorityStore.begin_pairing
    MaxAttempts,      \* [Keys -> Nat], a bound on the requests of each key
    MaxLeaf, MaxClock \* bounds on the counters

\* 300 + 30 seconds against 30 days.
ASSUME PairingAssumption ==
    /\ {PairingTtl, MaxClockSkew, AuditRetention, MaxPending, MaxLeaf, MaxClock} \subseteq Nat
    /\ MaxAttempts \in [Keys -> Nat]
    /\ Offsets \subseteq Int
    /\ PairingTtl + MaxClockSkew <= AuditRetention

VARIABLES
    \* the Connector
    pairings,         \* the pairings row of each identifier
    device,           \* the device and first grant created for each key
    leaf,             \* the TLS leaf of the lease in force, 0 when locked
    minted,           \* the last leaf ever minted
    prompt,           \* the pairing shown at the owner's confirmation prompt
    \* each VPS
    profile,          \* its profile file
    vps,              \* what its pair command is doing
    \* environment and history
    now,              \* the Connector's wall clock
    offset,           \* what each VPS clock reads above it
    begun             \* every pairing ever made pending

connector == <<pairings, device, leaf, minted, prompt>>
vars      == <<connector, profile, vps, now, offset, begun>>

-----------------------------------------------------------------------------
PairingIds == UNION {{k} \X (1..MaxAttempts[k]) : k \in Keys}
NoPairing == <<>>

NoChallenge == [issued_at |-> 0, leaf |-> 0]
NoRow     == [decision |-> "none", deadline |-> 0, challenge |-> NoChallenge, decided_at |-> 0]
NoDevice  == [transcript |-> <<>>, approved_at |-> 0]
NoProfile == [state |-> "none", id |-> 0, deadline |-> 0, challenge |-> NoChallenge, seen |-> 0]
NoAnswer  == [kind |-> "none", challenge |-> NoChallenge, seen |-> 0, completed_at |-> 0]
Idle      == [at |-> "idle", answer |-> NoAnswer]

Init ==
    /\ pairings = [p \in PairingIds |-> NoRow]
    /\ device = [k \in Keys |-> NoDevice]
    /\ leaf = 0
    /\ minted = 0
    /\ prompt = NoPairing
    /\ profile = [k \in Keys |-> NoProfile]
    /\ vps = [k \in Keys |-> Idle]
    /\ now = 0
    /\ offset \in [Keys -> Offsets]
    /\ begun = {}

VpsClock(k) == now + offset[k]

-----------------------------------------------------------------------------
(* The signed records.                                                     *)

\* _require_active, at time t of whoever looks.
Active(issued, expires, t, skew) == issued <= t + skew /\ t < expires

\* verify_pairing_init: a request lives for PairingTtl from its issuing.
InitVerified(deadline, t) == Active(deadline - PairingTtl, deadline, t, MaxClockSkew)

\* What PairingChallenge.__post_init__ allows the Connector to build.
ChallengeAllowed(challenge, deadline) ==
    /\ challenge.issued_at < deadline
    /\ deadline - challenge.issued_at <= PairingTtl

\* verify_pairing_challenge: in time, and for the leaf that was seen.
ChallengeVerified(challenge, deadline, seen, t) ==
    /\ challenge.leaf = seen
    /\ Active(challenge.issued_at, deadline, t, MaxClockSkew)

\* pairing_transcript_hash, and the short authentication string made from it.
Transcript(p, challenge, seen) == <<p, challenge, seen>>

\* verify_signed_grant: the first grant holds from its approval, and here no
\* difference of the clocks is allowed for.
GrantVerified(not_before, t) == not_before <= t

\* verify_pairing_complete, for the transcript displayed.
CompleteVerified(answer, p, displayed, deadline, t) ==
    /\ Transcript(p, answer.challenge, answer.challenge.leaf) = displayed
    /\ answer.completed_at <= deadline
    /\ t < deadline
    /\ answer.completed_at <= t + MaxClockSkew

\* verify_pairing_resolution, of the pairing a VPS has on disk.
ResolutionVerified(answer, p, pending, seen, t) ==
    /\ InitVerified(pending.deadline, t)
    /\ ChallengeVerified(pending.challenge, pending.deadline, seen, t)
    /\ GrantVerified(answer.completed_at, t)
    /\ CompleteVerified(answer, p, Transcript(p, pending.challenge, seen), pending.deadline, t)

-----------------------------------------------------------------------------
(* The Connector's store.                                                  *)

\* Every read of the table marks the overdue pairings as expired first.
Expired ==
    [p \in PairingIds |->
       IF pairings[p].decision = "pending" /\ pairings[p].deadline <= now
       THEN [pairings[p] EXCEPT !.decision = "expired", !.decided_at = now]
       ELSE pairings[p]]

PendingIn(rows) == {p \in PairingIds : rows[p].decision = "pending"}

\* At most MaxPending pairings wait for the owner, one for each key.
MayBegin(rows, k) ==
    /\ Cardinality(PendingIn(rows)) < MaxPending
    /\ \A p \in PendingIn(rows) : p[1] # k

\* Mutant: cleanup drops a decision as soon as it is made.
Cleanup_DropsFresh ==
    /\ prompt = NoPairing
    /\ pairings' = [p \in PairingIds |->
                      IF Expired[p].decision \notin {"none", "pending"}
                      THEN NoRow ELSE Expired[p]]
    /\ UNCHANGED <<device, leaf, minted, prompt, profile, vps, now, offset, begun>>

\* AuthorityStore.cleanup, as far as it concerns pairings.
Cleanup ==
    /\ prompt = NoPairing
    /\ pairings' = [p \in PairingIds |->
                      IF /\ Expired[p].decision \notin {"none", "pending"}
                         /\ Expired[p].decided_at < now - AuditRetention
                      THEN NoRow ELSE Expired[p]]
    /\ UNCHANGED <<device, leaf, minted, prompt, profile, vps, now, offset, begun>>

-----------------------------------------------------------------------------
(* The VPS: VpsPairingOrchestrator.pair and VpsProfileStore.               *)

InTime(k) == VpsClock(k) < profile[k].deadline

\* _pending_exchange: the challenge was received and saved before.
HasExchange(k) == profile[k].challenge # NoChallenge

\* _validate_pending_profile: a challenge is kept with the leaf it was seen over.
Valid(new) == new.challenge.leaf = new.seen

\* save_pending creates a profile, adds a challenge to the request on disk, or puts
\* a new request in the place of an overdue one.
SavesPending(k, new) ==
    /\ Valid(new)
    /\ \/ profile[k].state = "none"
       \/ /\ profile[k].state = "pending"
          /\ \/ new = profile[k]
             \/ ~HasExchange(k) /\ new = [profile[k] EXCEPT !.challenge = new.challenge, !.seen = new.seen]
             \/ /\ profile[k].deadline <= new.deadline - PairingTtl
                /\ new.challenge = NoChallenge
    /\ profile' = [profile EXCEPT ![k] = new]

\* create_pairing_init.
NewRequest(k) ==
    [NoProfile EXCEPT !.state = "pending", !.id = profile[k].id + 1,
                      !.deadline = VpsClock(k) + PairingTtl]

Asking == [Idle EXCEPT !.at = "asking"]

\* pair signs a new request when there is none or the one on disk is overdue,
\* resumes the one on disk otherwise, and refuses when the VPS is paired.
StartsAfresh(k) ==
    /\ profile[k].state # "paired"
    /\ profile[k].state = "pending" => ~InTime(k)
    /\ profile[k].id < MaxAttempts[k]
    /\ now + PairingTtl <= MaxClock
    /\ SavesPending(k, NewRequest(k))

Resumes(k) ==
    /\ profile[k].state = "pending"
    /\ InTime(k)
    /\ UNCHANGED profile

Pair(k) ==
    /\ vps[k].at = "idle"
    /\ StartsAfresh(k) \/ Resumes(k)
    /\ vps' = [vps EXCEPT ![k] = Asking]
    /\ UNCHANGED <<connector, now, offset, begun>>

\* create_pairing_challenge, over a connection of the lease in force.
NewChallenge == [issued_at |-> now, leaf |-> leaf]

\* AuthorityStore.begin_pairing: the row as it is before it is shown to anybody.
NewRow(k) == [decision |-> "pending", deadline |-> profile[k].deadline,
              challenge |-> NewChallenge, decided_at |-> 0]

\* pairing_state, and what must hold for the first answer to a request.
Begins(k) ==
    /\ Expired[<<k, profile[k].id>>].decision = "none"
    /\ ChallengeAllowed(NewChallenge, profile[k].deadline)
    /\ MayBegin(Expired, k)

\* Mutant: a request that is repeated gets a challenge of its own.
Reply_Rebuilt(kind, row) ==
    [kind |-> kind, challenge |-> IF kind = "challenge" THEN NewChallenge ELSE row.challenge,
     seen |-> leaf, completed_at |-> row.decided_at]

\* _pairing_complete: of an approved row, when it was approved.
Reply(kind, row) == [kind |-> kind, challenge |-> row.challenge, seen |-> leaf,
                     completed_at |-> row.decided_at]

\* ConnectorService._handle_pairing: a request finds its row, or makes it pending
\* with a challenge that names the leaf in force.
Answer(k) ==
    LET p == <<k, profile[k].id>>
        row == Expired[p]
        verified == InitVerified(profile[k].deadline, now)
        says(answer) == vps' = [vps EXCEPT ![k] = [at |-> "answered", answer |-> answer]]
    IN /\ vps[k].at = "asking"
       /\ leaf # 0
       /\ prompt = NoPairing
       /\ \/ /\ ~verified
             /\ says(Reply("refused", NoRow))
             /\ UNCHANGED <<pairings, begun>>
          \/ /\ verified
             /\ Begins(k)
             /\ pairings' = [Expired EXCEPT ![p] = NewRow(k)]
             /\ begun' = begun \cup {p}
             /\ says(Reply("challenge", NewRow(k)))
          \/ /\ verified
             /\ ~Begins(k)
             /\ pairings' = Expired
             /\ UNCHANGED begun
             /\ says(CASE row.decision = "pending"  -> Reply("challenge", row)
                       [] row.decision = "approved" -> Reply("resolution", row)
                       [] OTHER                     -> Reply("refused", NoRow))
       /\ UNCHANGED <<device, leaf, minted, prompt, profile, now, offset>>

\* Mutant: a request that is not answered is awaited for ever.
Fails_OnceAnswered(k) ==
    /\ vps[k].at \in {"answered", "waiting"}
    /\ vps' = [vps EXCEPT ![k] = Idle]
    /\ UNCHANGED <<connector, profile, now, offset, begun>>

\* The connection breaks, the Connector is unreachable or the answer is late, or
\* the process dies: the profile file is all that is left.
Fails(k) ==
    /\ vps[k].at # "idle"
    /\ vps' = [vps EXCEPT ![k] = Idle]
    /\ UNCHANGED <<connector, profile, now, offset, begun>>

\* PairingWssClient.exchange: the challenge must name the leaf of this very
\* connection; it is saved before it is displayed.
Challenged(k) ==
    LET a == vps[k].answer
        accepted == /\ a.kind = "challenge"
                    /\ ChallengeVerified(a.challenge, profile[k].deadline, a.seen, VpsClock(k))
    IN /\ vps[k].at = "answered"
       /\ ~HasExchange(k)
       /\ \/ /\ accepted
             /\ SavesPending(k, [profile[k] EXCEPT !.challenge = a.challenge, !.seen = a.seen])
             /\ vps' = [vps EXCEPT ![k] = Asking]
          \/ /\ ~accepted
             /\ vps' = [vps EXCEPT ![k] = Idle]
             /\ UNCHANGED profile
       /\ UNCHANGED <<connector, now, offset, begun>>

\* commit_paired verifies once more, on the profile as it is on disk.
CommitPaired(k, answer) ==
    /\ profile[k].state = "pending" /\ HasExchange(k)
    /\ ResolutionVerified(answer, <<k, profile[k].id>>, profile[k],
                          profile[k].seen, VpsClock(k))
    /\ profile' = [profile EXCEPT ![k].state = "paired"]

\* PairingWssClient.poll: the leaf, and the challenge or the resolution, must be
\* those of the challenge displayed.
Polled(k) ==
    LET a == vps[k].answer
        same == a.seen = profile[k].seen
        pending == same /\ a.kind = "challenge" /\ a.challenge = profile[k].challenge
        approved == same /\ a.kind = "resolution"
    IN /\ vps[k].at = "answered"
       /\ HasExchange(k)
       /\ \/ /\ pending
             /\ vps' = [vps EXCEPT ![k] = [Idle EXCEPT !.at = "waiting"]]
             /\ UNCHANGED profile
          \/ /\ approved
             /\ CommitPaired(k, a)
             /\ vps' = [vps EXCEPT ![k] = Idle]
          \/ /\ ~pending
             /\ ~(approved /\ ResolutionVerified(a, <<k, profile[k].id>>, profile[k],
                                                 a.seen, VpsClock(k)))
             /\ vps' = [vps EXCEPT ![k] = Idle]
             /\ UNCHANGED profile
       /\ UNCHANGED <<connector, now, offset, begun>>

\* The poll interval is over: ask again, or give up at the deadline.
PollsAgain(k) ==
    /\ vps[k].at = "waiting"
    /\ vps' = [vps EXCEPT ![k] = IF InTime(k) THEN Asking ELSE Idle]
    /\ UNCHANGED <<connector, profile, now, offset, begun>>

-----------------------------------------------------------------------------
(* The owner.                                                              *)

Unlock ==
    /\ leaf = 0
    /\ minted < MaxLeaf
    /\ minted' = minted + 1
    /\ leaf' = minted + 1
    /\ UNCHANGED <<pairings, device, prompt, profile, vps, now, offset, begun>>

\* lock, exit, or the death of the Connector process, which may come while a
\* prompt is open.  Its connections go with it (Fails).
Lock ==
    /\ leaf # 0
    /\ leaf' = 0
    /\ prompt' = NoPairing
    /\ UNCHANGED <<pairings, device, minted, profile, vps, now, offset, begun>>

\* approve and deny show a pending pairing and wait for the owner's word.
Review(p) ==
    /\ leaf # 0
    /\ prompt = NoPairing
    /\ Expired[p].decision = "pending"
    /\ pairings' = Expired
    /\ prompt' = p
    /\ UNCHANGED <<device, leaf, minted, profile, vps, now, offset, begun>>

Decided(p, decision) ==
    [pairings EXCEPT ![p].decision = decision, ![p].decided_at = now]

\* _pairing_display: the transcript the owner is shown at the prompt.
Shown(p) == Transcript(p, pairings[p].challenge, pairings[p].challenge.leaf)

\* _initial_grant.
FirstGrant(p) == [transcript |-> Shown(p), approved_at |-> now]

\* Mutant: the UNIQUE key_id of device_keys is missing.
Approve_KnownKey(p) ==
    /\ prompt = p
    /\ prompt' = NoPairing
    /\ IF now < pairings[p].deadline
       THEN /\ pairings' = Decided(p, "approved")
            /\ device' = [device EXCEPT ![p[1]] =
                            FirstGrant(p)]
       ELSE /\ pairings' = Decided(p, "expired")
            /\ UNCHANGED device
    /\ UNCHANGED <<leaf, minted, profile, vps, now, offset, begun>>

\* Mutant: the failed insertion of a known key's device is not rolled back.
Approve_NotRolledBack(p) ==
    /\ prompt = p
    /\ prompt' = NoPairing
    /\ now < pairings[p].deadline
    /\ pairings' = Decided(p, "approved")
    /\ device' = IF device[p[1]] = NoDevice
                 THEN [device EXCEPT ![p[1]] =
                         FirstGrant(p)]
                 ELSE device
    /\ UNCHANGED <<leaf, minted, profile, vps, now, offset, begun>>

\* The owner confirms.  The row is read again: a deadline that passed at the
\* prompt expires it, and a key that already has a device changes nothing.
Approve(p) ==
    /\ prompt = p
    /\ prompt' = NoPairing
    /\ \/ /\ now < pairings[p].deadline
          /\ device[p[1]] = NoDevice
          /\ pairings' = Decided(p, "approved")
          /\ device' = [device EXCEPT ![p[1]] =
                          FirstGrant(p)]
       \/ /\ now < pairings[p].deadline
          /\ device[p[1]] # NoDevice
          /\ UNCHANGED <<pairings, device>>
       \/ /\ now >= pairings[p].deadline
          /\ pairings' = Decided(p, "expired")
          /\ UNCHANGED device
    /\ UNCHANGED <<leaf, minted, profile, vps, now, offset, begun>>

Deny(p) ==
    /\ prompt = p
    /\ prompt' = NoPairing
    /\ pairings' = IF now < pairings[p].deadline THEN Decided(p, "denied") ELSE pairings
    /\ UNCHANGED <<device, leaf, minted, profile, vps, now, offset, begun>>

\* The owner types anything else.
Decline ==
    /\ prompt # NoPairing
    /\ prompt' = NoPairing
    /\ UNCHANGED <<pairings, device, leaf, minted, profile, vps, now, offset, begun>>

Tick ==
    /\ now < MaxClock
    /\ now' = now + 1
    /\ UNCHANGED <<connector, profile, vps, offset, begun>>

-----------------------------------------------------------------------------
VpsStep(k) == Pair(k) \/ Fails(k) \/ Challenged(k) \/ Polled(k) \/ PollsAgain(k)

OwnerStep ==
    \/ Unlock \/ Lock \/ Decline
    \/ \E p \in PairingIds : Review(p) \/ Approve(p) \/ Deny(p)

Next ==
    \/ \E k \in Keys : VpsStep(k) \/ Answer(k)
    \/ OwnerStep
    \/ Cleanup
    \/ Tick

Spec == Init /\ [][Next]_vars

\* Time passes, and the VPS's event loop runs its pair command, whose every wait
\* for the network ends at the pairing deadline.  The owner and the Connector are
\* free.
Fairness ==
    /\ WF_vars(Tick)
    /\ \A k \in Keys :
         /\ WF_vars(Challenged(k) \/ Polled(k) \/ PollsAgain(k))
         /\ WF_vars(vps[k].at = "asking" /\ ~InTime(k) /\ Fails(k))

FairSpec == Spec /\ Fairness

-----------------------------------------------------------------------------
(* Properties.                                                             *)

Challenges == [issued_at : Int, leaf : Nat]

Rows ==
    [decision : {"none", "pending", "approved", "denied", "expired"}, deadline : Int,
     challenge : Challenges, decided_at : Int]

Profiles ==
    [state : {"none", "pending", "paired"}, id : Nat, deadline : Int,
     challenge : Challenges, seen : Nat]

Transcripts == {<<>>} \cup (PairingIds \X Challenges \X Nat)
Devices == [transcript : Transcripts, approved_at : Int]

Answers ==
    [kind : {"none", "challenge", "resolution", "refused"}, challenge : Challenges,
     seen : Nat, completed_at : Int]

\* Every variable has its type, and no VPS signs more requests than it may.
TypeOK ==
    /\ pairings \in [PairingIds -> Rows]
    /\ device \in [Keys -> Devices]
    /\ leaf \in Nat /\ minted \in Nat
    /\ prompt \in PairingIds \cup {NoPairing}
    /\ profile \in [Keys -> Profiles]
    /\ \A k \in Keys : /\ profile[k].id \in 0..MaxAttempts[k]
                       /\ profile[k].state # "none" => profile[k].id # 0
    /\ vps \in [Keys -> [at : {"idle", "asking", "answered", "waiting"}, answer : Answers]]
    /\ now \in Nat /\ offset \in [Keys -> Int]
    /\ begun \subseteq PairingIds

\* The transcript a VPS has on disk and displays.
Displayed(k) ==
    Transcript(<<k, profile[k].id>>, profile[k].challenge, profile[k].seen)

\* A VPS that took itself for paired holds the grant its owner approved, for the
\* transcript both terminals displayed, before the deadline they displayed.
PairedMeansApproved ==
    \A k \in Keys : profile[k].state = "paired" =>
        /\ device[k].transcript = Displayed(k)
        /\ device[k].approved_at < profile[k].deadline

\* The challenge a VPS has on disk, and displays, is the one the Connector has in
\* its table and shows its owner, through restarts and new leaves on either side,
\* and it names the leaf the VPS saw.
BothDisplayTheSame ==
    \A k \in Keys :
        LET p == <<k, profile[k].id>> IN
        HasExchange(k) /\ pairings[p].decision # "none"
            => Shown(p) = Displayed(k)

\* Each approval has made the one device of its key (approve_pairing is atomic
\* and device_keys.key_id is UNIQUE), in time.
ApprovalsMadeTheirDevice ==
    \A p \in PairingIds : pairings[p].decision = "approved" =>
        /\ device[p[1]] = [FirstGrant(p) EXCEPT !.approved_at = pairings[p].decided_at]
        /\ pairings[p].decided_at < pairings[p].deadline

\* A pairing waits for the owner once: a decision is never taken back, and none
\* is asked for again once cleanup has dropped the row.
DecidedOnce ==
    [][\A p \in PairingIds :
         p \in begun /\ pairings[p].decision # "pending"
           => pairings'[p].decision \in {pairings[p].decision, "none"}]_vars

\* The pair command comes back to its user, paired or not.
PairReturns == \A k \in Keys : vps[k].at # "idle" ~> vps[k].at = "idle"

=============================================================================
