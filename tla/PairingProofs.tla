--------------------------- MODULE PairingProofs ---------------------------
(***************************************************************************)
(* Theorems about Pairing, for any number of keys and attempts, clocks     *)
(* that differ by any amount, and any times that satisfy PairingAssumption.*)
(***************************************************************************)
EXTENDS Pairing, TLAPS

-----------------------------------------------------------------------------
(* The invariant.                                                          *)

Current(k) == <<k, profile[k].id>>

\* Only a pending profile has a command at work on it.
CommandInv == \A k \in Keys : vps[k].at # "idle" => profile[k].state = "pending"

\* The owner is asked about what is pending.
PromptInv == prompt # NoPairing => pairings[prompt].decision = "pending"

\* A row is of a pairing that was begun, carries the deadline of the request on disk,
\* and is decided after its challenge, which lives no longer than the retention.
RowInv ==
    \A p \in PairingIds : pairings[p].decision # "none" =>
        /\ p \in begun
        /\ p = Current(p[1]) => pairings[p].deadline = profile[p[1]].deadline
        /\ pairings[p].deadline <= pairings[p].challenge.issued_at + PairingTtl
        /\ pairings[p].challenge.issued_at <= now
        /\ pairings[p].decision # "pending" =>
             pairings[p].challenge.issued_at <= pairings[p].decided_at

\* A pairing that was begun and has no row any more is overdue.
BegunInv ==
    \A p \in begun :
        /\ p[2] <= profile[p[1]].id
        /\ pairings[p].decision = "none" /\ p = Current(p[1]) => profile[p[1]].deadline <= now

\* c is the challenge of the current pairing of k, for as long as it has a row.
Made(k, c) ==
    /\ Current(k) \in begun
    /\ pairings[Current(k)].decision # "none" => pairings[Current(k)].challenge = c

\* The challenge on disk was made by the Connector, over the leaf it was seen over.
ExchangeInv ==
    \A k \in Keys : HasExchange(k) =>
        Made(k, profile[k].challenge) /\ profile[k].challenge.leaf = profile[k].seen

\* An answer on its way says what the Connector has on record.
AnswerInv ==
    \A k \in Keys : vps[k].at = "answered" =>
        /\ vps[k].answer.kind = "challenge" => Made(k, vps[k].answer.challenge)
        /\ vps[k].answer.kind = "resolution" =>
             /\ device[k] = [transcript |-> Transcript(Current(k), vps[k].answer.challenge,
                                                       vps[k].answer.challenge.leaf),
                             approved_at |-> vps[k].answer.completed_at]
             /\ vps[k].answer.completed_at < profile[k].deadline

Inv ==
    /\ TypeOK /\ CommandInv /\ PromptInv /\ RowInv /\ BegunInv /\ ExchangeInv /\ AnswerInv
    /\ ApprovalsMadeTheirDevice /\ PairedMeansApproved

-----------------------------------------------------------------------------
(* Identifiers and rows.                                                   *)

\* A pairing identifier is a key and the number of one of its attempts.
LEMMA IdType ==
    /\ \A k \in Keys : \A n \in 1..MaxAttempts[k] : <<k, n>> \in PairingIds
    /\ \A p \in PairingIds : /\ p[1] \in Keys /\ p[2] \in 1..MaxAttempts[p[1]]
                             /\ p = <<p[1], p[2]>>
<1>1. ASSUME NEW k \in Keys, NEW n \in 1..MaxAttempts[k] PROVE <<k, n>> \in PairingIds
  <2>1. <<k, n>> \in {k} \X (1..MaxAttempts[k])
    OBVIOUS
  <2>2. QED
    BY <2>1 DEF PairingIds
<1>2. ASSUME NEW p \in PairingIds
      PROVE  /\ p[1] \in Keys /\ p[2] \in 1..MaxAttempts[p[1]] /\ p = <<p[1], p[2]>>
  <2>1. PICK k \in Keys : p \in {k} \X (1..MaxAttempts[k])
    BY DEF PairingIds
  <2>2. p[1] = k /\ p[2] \in 1..MaxAttempts[k] /\ p = <<p[1], p[2]>>
    BY <2>1
  <2>3. QED
    BY <2>2
<1>3. QED
  BY <1>1, <1>2

\* The pairing of a profile in use is one.
LEMMA CurrentType ==
    ASSUME TypeOK, NEW k \in Keys, profile[k].state # "none"
    PROVE  Current(k) \in PairingIds /\ Current(k)[1] = k /\ Current(k)[2] = profile[k].id
<1>1. profile[k].id \in 0..MaxAttempts[k] /\ profile[k].id # 0
  BY DEF TypeOK
<1>2. MaxAttempts[k] \in Nat
  BY PairingAssumption DEF PairingAssumption
<1>3. profile[k].id \in 1..MaxAttempts[k]
  BY <1>1, <1>2
<1>4. QED
  BY <1>3, IdType DEF Current

\* The clock of a VPS reads an integer.
LEMMA ClockType == ASSUME TypeOK, NEW k \in Keys PROVE VpsClock(k) \in Int
  BY DEF TypeOK, VpsClock

\* What is not there is typed.
LEMMA NothingTyped ==
    /\ NoChallenge \in Challenges /\ NoRow \in Rows /\ NoProfile \in Profiles
    /\ NoAnswer \in Answers
    /\ Idle \in [at : {"idle", "asking", "answered", "waiting"}, answer : Answers]
    /\ Idle.at = "idle" /\ Asking.at = "asking" /\ Asking.answer = NoAnswer
    /\ Asking \in [at : {"idle", "asking", "answered", "waiting"}, answer : Answers]
<1>1. NoChallenge \in Challenges
  BY DEF NoChallenge, Challenges
<1>2. NoRow \in Rows /\ NoProfile \in Profiles /\ NoAnswer \in Answers
  BY <1>1 DEF NoRow, Rows, NoProfile, Profiles, NoAnswer, Answers
<1>3. QED
  BY <1>1, <1>2 DEF Idle, Asking

\* Marking the overdue touches only them, and nothing but their decision.
LEMMA ExpiredRow ==
    ASSUME TypeOK, NEW p \in PairingIds
    PROVE  /\ Expired[p] \in Rows
           /\ \/ Expired[p] = pairings[p]
              \/ /\ pairings[p].decision = "pending" /\ Expired[p].decision = "expired"
                 /\ pairings[p].deadline <= now
                 /\ Expired[p].deadline = pairings[p].deadline
                 /\ Expired[p].challenge = pairings[p].challenge
                 /\ Expired[p].decided_at = now
<1>1. pairings[p] \in Rows /\ now \in Int
  BY DEF TypeOK
<1>2. CASE pairings[p].decision = "pending" /\ pairings[p].deadline <= now
  <2>1. Expired[p] = [pairings[p] EXCEPT !.decision = "expired", !.decided_at = now]
    BY <1>2 DEF Expired
  <2>2. QED
    BY <1>1, <1>2, <2>1 DEF Rows
<1>3. CASE ~(pairings[p].decision = "pending" /\ pairings[p].deadline <= now)
  BY <1>1, <1>3 DEF Expired
<1>4. QED
  BY <1>2, <1>3

\* A challenge that the Connector makes names a leaf that is in force.
LEMMA NewRowType ==
    ASSUME TypeOK, NEW k \in Keys, leaf # 0
    PROVE  /\ NewChallenge \in Challenges /\ NewChallenge # NoChallenge
           /\ NewChallenge.issued_at = now
           /\ NewRow(k) \in Rows /\ NewRow(k).decision = "pending"
           /\ NewRow(k).deadline = profile[k].deadline /\ NewRow(k).challenge = NewChallenge
<1>1. /\ NewChallenge \in Challenges /\ NewChallenge # NoChallenge
      /\ NewChallenge.issued_at = now
  BY DEF TypeOK, NewChallenge, NoChallenge, Challenges
<1>2. profile[k].deadline \in Int
  BY DEF TypeOK, Profiles
<1>3. QED
  BY <1>1, <1>2 DEF NewRow, Rows

-----------------------------------------------------------------------------
(* What a step changes.                                                    *)

\* A pending row is decided, now; the device of its key is made with an approval.
RowDecided(p) ==
    /\ pairings[p].decision = "pending"
    /\ pairings'[p].decision \in {"approved", "denied", "expired"}
    /\ pairings'[p].deadline = pairings[p].deadline
    /\ pairings'[p].challenge = pairings[p].challenge
    /\ pairings'[p].decided_at = now
    /\ pairings'[p].decision = "approved" =>
         /\ now < pairings[p].deadline /\ device[p[1]] = NoDevice
         /\ device' = [device EXCEPT ![p[1]] = FirstGrant(p)]

\* A decided row is dropped when its retention is over.
RowDropped(p) ==
    /\ pairings[p].decision \notin {"none", "pending"}
    /\ pairings[p].decided_at < now - AuditRetention
    /\ pairings'[p] = NoRow

\* A row is made for the request on disk, while that is in time.
RowMade(p) ==
    \E k \in Keys :
        /\ p = Current(k) /\ leaf # 0
        /\ pairings[p].decision = "none"
        /\ now < profile[k].deadline
        /\ ChallengeAllowed(NewChallenge, profile[k].deadline)
        /\ pairings'[p] = NewRow(k)
        /\ begun' = begun \cup {p}
        /\ UNCHANGED profile

\* A row stays, or one of these three happens to it.
LEMMA RowChange ==
    ASSUME Inv, [Next]_vars, NEW p \in PairingIds
    PROVE  pairings'[p] = pairings[p] \/ RowDecided(p) \/ RowDropped(p) \/ RowMade(p)
<1>0. TypeOK /\ pairings[p] \in Rows /\ now \in Int /\ AuditRetention \in Nat
  BY PairingAssumption DEF Inv, TypeOK, PairingAssumption
<1>1. ASSUME pairings'[p] = Expired[p] PROVE pairings'[p] = pairings[p] \/ RowDecided(p)
  BY <1>0, <1>1, ExpiredRow DEF RowDecided
<1>2. CASE Cleanup
  <2>1. /\ pairings'[p] \in {NoRow, Expired[p]}
        /\ pairings'[p] # Expired[p] =>
             /\ Expired[p].decision \notin {"none", "pending"}
             /\ Expired[p].decided_at < now - AuditRetention
    BY <1>2 DEF Cleanup
  <2>2. CASE pairings'[p] = Expired[p]
    BY <1>1, <2>2
  <2>3. CASE pairings'[p] # Expired[p]
    <3>1. pairings'[p] = NoRow /\ Expired[p].decided_at < now - AuditRetention
          /\ Expired[p].decision \notin {"none", "pending"}
      BY <2>1, <2>3
    <3>2. Expired[p].decided_at # now
      BY <1>0, <3>1
    <3>3. Expired[p] = pairings[p]
      BY <1>0, <3>2, ExpiredRow
    <3>4. QED
      BY <3>1, <3>3 DEF RowDropped
  <2>4. QED
    BY <2>2, <2>3
<1>3. ASSUME NEW k \in Keys, Answer(k)
      PROVE  pairings'[p] = pairings[p] \/ RowDecided(p) \/ RowMade(p)
  <2>1. CASE pairings' = pairings \/ pairings' = Expired
    BY <1>1, <2>1
  <2>2. CASE /\ InitVerified(profile[k].deadline, now) /\ Begins(k)
             /\ pairings' = [Expired EXCEPT ![Current(k)] = NewRow(k)]
             /\ begun' = begun \cup {Current(k)}
    <3>1. CASE p = Current(k)
      <4>1. Expired[p].decision = "none" /\ ChallengeAllowed(NewChallenge, profile[k].deadline)
        BY <2>2, <3>1 DEF Begins, Current
      <4>2. pairings[p].decision = "none"
        BY <1>0, <4>1, ExpiredRow
      <4>3. now < profile[k].deadline
        BY <2>2 DEF InitVerified, Active
      <4>4. pairings'[p] = NewRow(k)
        BY <2>2, <3>1 DEF Expired
      <4>5. leaf # 0 /\ UNCHANGED profile
        BY <1>3 DEF Answer
      <4>6. QED
        BY <2>2, <3>1, <4>1, <4>2, <4>3, <4>4, <4>5 DEF RowMade
    <3>2. CASE p # Current(k)
      BY <1>1, <2>2, <3>2 DEF Expired
    <3>3. QED
      BY <3>1, <3>2
  <2>3. QED
    BY <1>3, <2>1, <2>2 DEF Answer, Current
<1>4. ASSUME NEW q \in PairingIds, Review(q) PROVE pairings'[p] = pairings[p] \/ RowDecided(p)
  BY <1>1, <1>4 DEF Review
<1>5. ASSUME NEW q \in PairingIds, Approve(q) \/ Deny(q)
      PROVE  pairings'[p] = pairings[p] \/ RowDecided(p)
  <2>0. pairings[q].decision = "pending" /\ pairings \in [PairingIds -> Rows]
    <3>1. prompt = q /\ q # NoPairing
      BY <1>5, IdType DEF Approve, Deny, NoPairing
    <3>2. QED
      BY <3>1 DEF Inv, PromptInv, TypeOK
  <2>1. CASE p # q
    BY <1>5, <2>0, <2>1 DEF Approve, Deny, Decided
  <2>2. ASSUME p = q, NEW d \in {"approved", "denied", "expired"}, pairings' = Decided(q, d)
        PROVE  /\ pairings'[p].decision = d
               /\ pairings'[p].deadline = pairings[p].deadline
               /\ pairings'[p].challenge = pairings[p].challenge
               /\ pairings'[p].decided_at = now
    <3>1. pairings'[p] = [pairings[p] EXCEPT !.decision = d, !.decided_at = now]
      BY <2>0, <2>2 DEF Decided
    <3>2. QED
      BY <1>0, <3>1 DEF Rows
  <2>3. CASE p = q /\ Approve(q)
    <3>1. CASE pairings' = Decided(q, "approved")
      BY <2>0, <2>2, <2>3, <3>1 DEF Approve, RowDecided
    <3>2. CASE pairings' = Decided(q, "expired")
      BY <2>0, <2>2, <2>3, <3>2 DEF RowDecided
    <3>3. QED
      BY <2>3, <3>1, <3>2 DEF Approve
  <2>4. CASE p = q /\ Deny(q)
    <3>1. CASE pairings' = Decided(q, "denied")
      BY <2>0, <2>2, <2>4, <3>1 DEF RowDecided
    <3>2. QED
      BY <2>4, <3>1 DEF Deny
  <2>5. QED
    BY <1>5, <2>1, <2>3, <2>4
<1>6. CASE \/ \E k \in Keys : VpsStep(k)
           \/ Unlock \/ Lock \/ Decline \/ Tick \/ UNCHANGED vars
  BY <1>6 DEF VpsStep, Pair, Fails, Challenged, Polled, PollsAgain, Unlock, Lock, Decline, Tick,
              vars, connector
<1>7. QED
  BY <1>2, <1>3, <1>4, <1>5, <1>6 DEF Next, OwnerStep

\* A profile gets a new request, an exchange, or its resolution, or stays.
ProfileRenewed(k) ==
    /\ vps[k].at = "idle" /\ profile[k].state # "paired"
    /\ profile'[k].state = "pending" /\ profile'[k].id = profile[k].id + 1
    /\ profile'[k].id <= MaxAttempts[k]
    /\ profile'[k].challenge = NoChallenge

ProfileExchanged(k) ==
    /\ vps[k].at = "answered" /\ vps[k].answer.kind = "challenge"
    /\ profile[k].state = "pending" /\ profile'[k].state = "pending"
    /\ profile'[k].id = profile[k].id /\ profile'[k].deadline = profile[k].deadline
    /\ profile'[k].challenge = vps[k].answer.challenge
    /\ profile'[k].challenge.leaf = profile'[k].seen

ProfileResolved(k) ==
    /\ vps[k].at = "answered" /\ vps[k].answer.kind = "resolution"
    /\ CompleteVerified(vps[k].answer, Current(k),
                        Transcript(Current(k), profile[k].challenge, profile[k].seen),
                        profile[k].deadline, VpsClock(k))
    /\ profile[k].state = "pending" /\ profile'[k].state = "paired"
    /\ profile'[k].id = profile[k].id /\ profile'[k].deadline = profile[k].deadline
    /\ profile'[k].challenge = profile[k].challenge /\ profile'[k].seen = profile[k].seen

\* The steps of a VPS touch nothing but its own profile and command, and what they may
\* do to the two.
LEMMA VpsChange ==
    ASSUME Inv, NEW k \in Keys, VpsStep(k)
    PROVE  /\ UNCHANGED <<connector, now, offset, begun>>
           /\ \A j \in Keys \ {k} : profile'[j] = profile[j] /\ vps'[j] = vps[j]
           /\ profile' \in [Keys -> Profiles]
           /\ vps' \in [Keys -> [at : {"idle", "asking", "answered", "waiting"},
                                 answer : Answers]]
           /\ vps'[k].at # "answered"
           /\ vps'[k].at # "idle" => profile'[k].state = "pending"
           /\ \/ profile'[k] = profile[k]
              \/ ProfileRenewed(k)
              \/ ProfileExchanged(k) /\ ~HasExchange(k)
              \/ ProfileResolved(k)
<1>0. /\ TypeOK /\ profile[k] \in Profiles /\ profile \in [Keys -> Profiles]
      /\ vps \in [Keys -> [at : {"idle", "asking", "answered", "waiting"}, answer : Answers]]
      /\ vps[k].at # "idle" => profile[k].state = "pending"
  BY DEF Inv, TypeOK, CommandInv
<1>1. CASE Pair(k)
  <2>1. CASE StartsAfresh(k)
    <3>1. NewRequest(k) \in Profiles /\ NewRequest(k).state = "pending"
          /\ NewRequest(k).id = profile[k].id + 1 /\ NewRequest(k).challenge = NoChallenge
      <4>1. VpsClock(k) + PairingTtl \in Int /\ profile[k].id + 1 \in Nat
        BY <1>0, ClockType, PairingAssumption DEF PairingAssumption, Profiles
      <4>2. QED
        BY <4>1, NothingTyped DEF NewRequest, Profiles, NoProfile
    <3>2. profile' = [profile EXCEPT ![k] = NewRequest(k)] /\ profile[k].state # "paired"
          /\ profile[k].id < MaxAttempts[k]
      BY <2>1 DEF StartsAfresh, SavesPending
    <3>3. profile[k].id \in Nat /\ MaxAttempts[k] \in Nat
      BY <1>0, PairingAssumption DEF PairingAssumption, Profiles
    <3>4. profile'[k] = NewRequest(k) /\ profile[k].id + 1 <= MaxAttempts[k]
      BY <1>0, <3>2, <3>3
    <3>5. vps' = [vps EXCEPT ![k] = Asking] /\ vps[k].at = "idle"
      BY <1>1 DEF Pair
    <3>6. QED
      BY <1>0, <1>1, <3>1, <3>2, <3>4, <3>5, NothingTyped DEF Pair, ProfileRenewed
  <2>2. CASE Resumes(k)
    BY <1>0, <1>1, <2>2, NothingTyped DEF Pair, Resumes
  <2>3. QED
    BY <1>1, <2>1, <2>2 DEF Pair
<1>2. CASE Fails(k)
  BY <1>0, <1>2, NothingTyped DEF Fails
<1>3. CASE PollsAgain(k)
  <2>1. vps' \in {[vps EXCEPT ![k] = Asking], [vps EXCEPT ![k] = Idle]}
        /\ UNCHANGED <<connector, profile, now, offset, begun>> /\ vps[k].at = "waiting"
    BY <1>3 DEF PollsAgain
  <2>2. QED
    BY <1>0, <2>1, NothingTyped
<1>4. CASE Challenged(k)
  <2> DEFINE a == vps[k].answer
             n == [profile[k] EXCEPT !.challenge = a.challenge, !.seen = a.seen]
  <2>1. /\ vps' \in {[vps EXCEPT ![k] = Asking], [vps EXCEPT ![k] = Idle]}
        /\ UNCHANGED <<connector, now, offset, begun>>
        /\ vps[k].at = "answered" /\ ~HasExchange(k)
        /\ \/ profile' = profile
           \/ a.kind = "challenge" /\ SavesPending(k, n)
    BY <1>4 DEF Challenged
  <2>2. CASE profile' = profile
    BY <1>0, <2>1, <2>2, NothingTyped
  <2>3. CASE a.kind = "challenge" /\ SavesPending(k, n)
    <3>1. a.challenge \in Challenges /\ a.seen \in Nat
      BY <1>0 DEF Answers
    <3>2. /\ n \in Profiles /\ n.state = profile[k].state /\ n.id = profile[k].id
          /\ n.deadline = profile[k].deadline /\ n.challenge = a.challenge /\ n.seen = a.seen
      BY <1>0, <3>1 DEF Profiles
    <3>3. profile' = [profile EXCEPT ![k] = n] /\ n.challenge.leaf = n.seen
      BY <2>3 DEF SavesPending, Valid
    <3>4. profile'[k] = n /\ \A j \in Keys \ {k} : profile'[j] = profile[j]
      BY <1>0, <3>3
    <3> HIDE DEF n
    <3>5. QED
      BY <1>0, <2>1, <2>3, <3>2, <3>3, <3>4, NothingTyped DEF ProfileExchanged
  <2>4. QED
    BY <2>1, <2>2, <2>3
<1>5. CASE Polled(k)
  <2> DEFINE a == vps[k].answer
  <2>1. UNCHANGED <<connector, now, offset, begun>> /\ vps[k].at = "answered"
    BY <1>5 DEF Polled
  <2>2. CASE vps' = [vps EXCEPT ![k] = [Idle EXCEPT !.at = "waiting"]] /\ profile' = profile
    <3>1. [Idle EXCEPT !.at = "waiting"]
              \in [at : {"idle", "asking", "answered", "waiting"}, answer : Answers]
          /\ [Idle EXCEPT !.at = "waiting"].at = "waiting"
      BY NothingTyped DEF Idle
    <3>2. QED
      BY <1>0, <2>1, <2>2, <3>1
  <2>3. CASE a.kind = "resolution" /\ CommitPaired(k, a) /\ vps' = [vps EXCEPT ![k] = Idle]
    <3>1. /\ profile[k].state = "pending" /\ profile' = [profile EXCEPT ![k].state = "paired"]
          /\ CompleteVerified(a, Current(k),
                              Transcript(Current(k), profile[k].challenge, profile[k].seen),
                              profile[k].deadline, VpsClock(k))
      BY <2>3 DEF CommitPaired, ResolutionVerified, Current
    <3>2. profile'[k] = [profile[k] EXCEPT !.state = "paired"]
          /\ \A j \in Keys \ {k} : profile'[j] = profile[j]
      BY <1>0, <3>1
    <3>3. /\ profile'[k] \in Profiles /\ profile'[k].state = "paired"
          /\ profile'[k].id = profile[k].id /\ profile'[k].deadline = profile[k].deadline
          /\ profile'[k].challenge = profile[k].challenge /\ profile'[k].seen = profile[k].seen
      BY <1>0, <3>2 DEF Profiles
    <3>4. profile' \in [Keys -> Profiles]
      BY <1>0, <3>1, <3>3
    <3>5. QED
      BY <1>0, <2>1, <2>3, <3>1, <3>2, <3>3, <3>4, NothingTyped DEF ProfileResolved
  <2>4. CASE vps' = [vps EXCEPT ![k] = Idle] /\ profile' = profile
    BY <1>0, <2>1, <2>4, NothingTyped
  <2>5. QED
    BY <1>5, <2>2, <2>3, <2>4 DEF Polled
<1>6. QED
  BY <1>1, <1>2, <1>3, <1>4, <1>5 DEF VpsStep

\* The grant of an approval is one, and its transcript is not nothing.
LEMMA GrantType ==
    ASSUME TypeOK, NEW p \in PairingIds
    PROVE  /\ FirstGrant(p) \in Devices /\ FirstGrant(p) # NoDevice
           /\ FirstGrant(p).transcript = Shown(p) /\ FirstGrant(p).approved_at = now
<1>1. pairings[p].challenge \in Challenges /\ pairings[p].challenge.leaf \in Nat /\ now \in Int
  BY DEF TypeOK, Rows, Challenges
<1>2. Shown(p) \in Transcripts /\ Shown(p) # <<>>
  BY <1>1 DEF Shown, Transcript, Transcripts
<1>3. QED
  BY <1>1, <1>2 DEF FirstGrant, Devices, NoDevice

\* A pairing is begun only by the answer that makes its row, and never forgotten.
LEMMA BegunChange ==
    ASSUME Inv, [Next]_vars
    PROVE  \/ begun' = begun
           \/ \E k \in Keys : /\ profile[k].state # "none" /\ leaf # 0 /\ UNCHANGED profile
                              /\ pairings'[Current(k)] = NewRow(k)
                              /\ begun' = begun \cup {Current(k)}
<1>0. TypeOK /\ pairings \in [PairingIds -> Rows]
  BY DEF Inv, TypeOK
<1>1. ASSUME NEW k \in Keys, Answer(k), begun' # begun
      PROVE  /\ profile[k].state # "none" /\ leaf # 0 /\ UNCHANGED profile
             /\ pairings'[Current(k)] = NewRow(k)
             /\ begun' = begun \cup {Current(k)}
  <2>1. /\ pairings' = [Expired EXCEPT ![Current(k)] = NewRow(k)]
        /\ begun' = begun \cup {Current(k)}
        /\ leaf # 0 /\ UNCHANGED profile /\ vps[k].at = "asking"
    BY <1>1 DEF Answer, Current
  <2>2. profile[k].state # "none"
    BY <2>1 DEF Inv, CommandInv
  <2>3. pairings'[Current(k)] = NewRow(k)
    BY <1>0, <2>1, <2>2, CurrentType DEF Expired
  <2>4. QED
    BY <2>1, <2>2, <2>3
<1>2. CASE \/ \E k \in Keys : VpsStep(k)
           \/ OwnerStep \/ Cleanup \/ Tick \/ UNCHANGED vars
  BY <1>2 DEF VpsStep, Pair, Fails, Challenged, Polled, PollsAgain, OwnerStep, Unlock, Lock,
              Decline, Review, Approve, Deny, Cleanup, Tick, vars
<1>3. QED
  BY <1>1, <1>2 DEF Next

\* A device that is there stays as it is, and time does not go back.
LEMMA DeviceChange ==
    ASSUME Inv, [Next]_vars
    PROVE  /\ \A k \in Keys : device[k] # NoDevice => device'[k] = device[k]
           /\ now \in Int /\ now' \in Int /\ now <= now'
<1>0. TypeOK /\ now \in Int /\ device \in [Keys -> Devices]
  BY DEF Inv, TypeOK
<1>1. ASSUME NEW p \in PairingIds, Approve(p)
      PROVE  /\ \A k \in Keys : device[k] # NoDevice => device'[k] = device[k]
             /\ UNCHANGED now
  BY <1>0, <1>1, IdType DEF Approve
<1>2. CASE Tick
  BY <1>0, <1>2 DEF Tick, connector
<1>3. CASE \/ \E k \in Keys : VpsStep(k) \/ Answer(k)
           \/ \E p \in PairingIds : Review(p) \/ Deny(p)
           \/ Unlock \/ Lock \/ Decline \/ Cleanup \/ UNCHANGED vars
  <2>1. UNCHANGED <<device, now>>
    BY <1>3, VpsChange DEF Unlock, Lock, Answer, Decline, Review, Deny, Cleanup, vars, connector
  <2>2. QED
    BY <1>0, <2>1
<1>4. QED
  BY <1>0, <1>1, <1>2, <1>3 DEF Next, OwnerStep

\* A command and its profile change together, by a step of their own, or the command
\* is answered.
LEMMA CommandChange ==
    ASSUME Inv, [Next]_vars, NEW k \in Keys
    PROVE  \/ profile'[k] = profile[k] /\ vps'[k] = vps[k]
           \/ VpsStep(k)
           \/ Answer(k) /\ profile' = profile
<1>1. ASSUME NEW j \in Keys, VpsStep(j), j # k
      PROVE  profile'[k] = profile[k] /\ vps'[k] = vps[k]
  BY <1>1, VpsChange
<1>2. ASSUME NEW j \in Keys, Answer(j), j # k
      PROVE  profile'[k] = profile[k] /\ vps'[k] = vps[k]
  <2>1. \E a : vps' = [vps EXCEPT ![j] = a]
    BY <1>2 DEF Answer
  <2>2. vps'[k] = vps[k]
    BY <1>2, <2>1 DEF Inv, TypeOK
  <2>3. QED
    BY <1>2, <2>2 DEF Answer
<1>3. CASE OwnerStep \/ Cleanup \/ Tick \/ UNCHANGED vars
  BY <1>3 DEF OwnerStep, Unlock, Lock, Decline, Review, Approve, Deny, Cleanup, Tick, vars
<1>4. CASE Answer(k)
  BY <1>4 DEF Answer
<1>5. QED
  BY <1>1, <1>2, <1>3, <1>4 DEF Next

\* A pairing that was begun is current after a step only if it was before, with the
\* deadline it had.
LEMMA CurrentStays ==
    ASSUME Inv, [Next]_vars, NEW k \in Keys, Current(k)' \in begun
    PROVE  /\ Current(k)' = Current(k)
           /\ profile'[k].id = profile[k].id
           /\ profile'[k].deadline = profile[k].deadline
<1>0. TypeOK /\ BegunInv /\ profile[k].id \in Nat
  BY DEF Inv, TypeOK, Profiles
<1>1. ~ProfileRenewed(k)
  <2>1. profile'[k].id <= profile[k].id
    BY <1>0 DEF BegunInv, Current
  <2>2. QED
    BY <1>0, <2>1 DEF ProfileRenewed
<1>2. /\ profile'[k].id = profile[k].id
      /\ profile'[k].deadline = profile[k].deadline
  BY <1>1, CommandChange, VpsChange DEF ProfileExchanged, ProfileResolved
<1>3. QED
  BY <1>2 DEF Current

\* A step never makes a row again for a pairing that was begun.
LEMMA NotMadeTwice ==
    ASSUME Inv, NEW p \in begun PROVE ~RowMade(p)
<1>1. SUFFICES ASSUME NEW k \in Keys, p = Current(k), pairings[p].decision = "none",
                      now < profile[k].deadline
               PROVE  FALSE
  BY DEF RowMade
<1>2. p[1] = k
  BY <1>1 DEF Current
<1>3. profile[k].deadline <= now
  BY <1>1, <1>2 DEF Inv, BegunInv
<1>4. profile[k].deadline \in Int /\ now \in Int
  BY DEF Inv, TypeOK, Profiles
<1>5. QED
  BY <1>1, <1>3, <1>4

\* The challenge of a pairing never changes.
LEMMA MadeStays ==
    ASSUME Inv, [Next]_vars, NEW k \in Keys, NEW c, Made(k, c), Current(k)' = Current(k)
    PROVE  Made(k, c)'
<1>1. Current(k) \in begun /\ Current(k) \in PairingIds /\ Current(k) \in begun'
  BY BegunChange DEF Made, Inv, TypeOK
<1>2. ~RowMade(Current(k))
  BY <1>1, NotMadeTwice
<1>3. pairings'[Current(k)].decision # "none" =>
        /\ pairings[Current(k)].decision # "none"
        /\ pairings'[Current(k)].challenge = pairings[Current(k)].challenge
  BY <1>1, <1>2, RowChange DEF RowDecided, RowDropped, NoRow
<1>4. QED
  BY <1>1, <1>3 DEF Made

-----------------------------------------------------------------------------
(* Every step keeps each part of the invariant.                            *)

\* An answer is typed, and so are the rows it leaves.
LEMMA AnswerType ==
    ASSUME Inv, NEW k \in Keys, Answer(k)
    PROVE  /\ pairings' \in [PairingIds -> Rows] /\ begun' \subseteq PairingIds
           /\ vps' \in [Keys -> [at : {"idle", "asking", "answered", "waiting"},
                                 answer : Answers]]
           /\ UNCHANGED <<device, leaf, minted, prompt, profile, now, offset>>
<1>0. /\ TypeOK /\ leaf \in Nat /\ leaf # 0 /\ profile[k].state # "none"
      /\ pairings \in [PairingIds -> Rows] /\ begun \subseteq PairingIds
      /\ vps \in [Keys -> [at : {"idle", "asking", "answered", "waiting"}, answer : Answers]]
  BY DEF Inv, TypeOK, CommandInv, Answer
<1>1. Current(k) \in PairingIds
  BY <1>0, CurrentType
<1>2. \A p \in PairingIds : Expired[p] \in Rows
  BY <1>0, ExpiredRow
<1>3. Expired \in [PairingIds -> Rows]
  BY <1>2 DEF Expired
<1>4. NewRow(k) \in Rows
  BY <1>0, NewRowType
<1>5. ASSUME NEW kind \in {"challenge", "resolution", "refused"}, NEW row \in Rows
      PROVE  Reply(kind, row) \in Answers
  BY <1>0 DEF Reply, Answers, Rows
<1>6. NoRow \in Rows /\ Expired[Current(k)] \in Rows
  BY <1>1, <1>2, NothingTyped
<1>7. \E a \in Answers : vps' = [vps EXCEPT ![k] = [at |-> "answered", answer |-> a]]
  <2> DEFINE R(a) == vps' = [vps EXCEPT ![k] = [at |-> "answered", answer |-> a]]
  <2>1. \/ R(Reply("refused", NoRow))
        \/ R(Reply("challenge", NewRow(k)))
        \/ R(Reply("challenge", Expired[Current(k)]))
        \/ R(Reply("resolution", Expired[Current(k)]))
    BY Zenon DEF Answer, Current
  <2>2. QED
    BY <1>4, <1>5, <1>6, <2>1
<1>8. pairings' = pairings \/ pairings' = Expired \/ pairings' = [Expired EXCEPT ![Current(k)] = NewRow(k)]
  BY DEF Answer, Current
<1>9. begun' = begun \/ begun' = begun \cup {Current(k)}
  BY DEF Answer, Current
<1>10. UNCHANGED <<device, leaf, minted, prompt, profile, now, offset>>
  BY DEF Answer
<1>11. QED
  BY <1>0, <1>1, <1>3, <1>4, <1>7, <1>8, <1>9, <1>10

\* Every step keeps the types.
LEMMA TypeStep == ASSUME Inv, [Next]_vars PROVE TypeOK'
<1>0. /\ TypeOK
      /\ pairings \in [PairingIds -> Rows] /\ device \in [Keys -> Devices]
      /\ leaf \in Nat /\ minted \in Nat /\ prompt \in PairingIds \cup {NoPairing}
      /\ profile \in [Keys -> Profiles]
      /\ \A k \in Keys : /\ profile[k].id \in 0..MaxAttempts[k]
                         /\ profile[k].state # "none" => profile[k].id # 0
      /\ vps \in [Keys -> [at : {"idle", "asking", "answered", "waiting"}, answer : Answers]]
      /\ now \in Nat /\ offset \in [Keys -> Int] /\ begun \subseteq PairingIds
  BY DEF Inv, TypeOK
<1>1. \A p \in PairingIds : Expired[p] \in Rows
  BY <1>0, ExpiredRow
<1>2. Expired \in [PairingIds -> Rows] /\ NoRow \in Rows
  BY <1>1, NothingTyped DEF Expired
<1>3. ASSUME NEW k \in Keys, VpsStep(k) PROVE TypeOK'
  <2>1. /\ UNCHANGED <<pairings, device, leaf, minted, prompt, now, offset, begun>>
        /\ profile' \in [Keys -> Profiles]
        /\ vps' \in [Keys -> [at : {"idle", "asking", "answered", "waiting"}, answer : Answers]]
    BY <1>3, VpsChange DEF connector
  <2>2. \A j \in Keys : /\ profile'[j].id \in 0..MaxAttempts[j]
                        /\ profile'[j].state # "none" => profile'[j].id # 0
    <3>1. MaxAttempts[k] \in Nat /\ profile[k].id \in Nat /\ profile[k].id <= MaxAttempts[k]
      BY <1>0, PairingAssumption DEF PairingAssumption
    <3>2. /\ profile'[k].id \in 0..MaxAttempts[k]
          /\ profile'[k].state # "none" => profile'[k].id # 0
      BY <1>0, <1>3, <3>1, VpsChange DEF ProfileRenewed, ProfileExchanged, ProfileResolved
    <3>3. \A j \in Keys \ {k} : profile'[j] = profile[j]
      BY <1>3, VpsChange
    <3>4. QED
      BY <1>0, <3>2, <3>3
  <2>3. QED
    BY <1>0, <2>1, <2>2 DEF TypeOK, PairingIds, Rows, Devices, Transcripts, Challenges
<1>4. ASSUME NEW k \in Keys, Answer(k) PROVE TypeOK'
  BY <1>0, <1>4, AnswerType DEF TypeOK
<1>5. ASSUME NEW p \in PairingIds, Review(p) \/ Approve(p) \/ Deny(p) PROVE TypeOK'
  <2>1. ASSUME NEW d \in {"approved", "denied", "expired"}
        PROVE  Decided(p, d) \in [PairingIds -> Rows]
    <3>0. pairings[p] \in Rows /\ now \in Int
      BY <1>0
    <3>1. [pairings[p] EXCEPT !.decision = d, !.decided_at = now] \in Rows
      BY <3>0 DEF Rows
    <3>2. Decided(p, d) = [pairings EXCEPT ![p] = [pairings[p] EXCEPT !.decision = d, !.decided_at = now]]
      BY <1>0 DEF Decided
    <3>3. QED
      BY <1>0, <3>1, <3>2
  <2>2. [device EXCEPT ![p[1]] = FirstGrant(p)] \in [Keys -> Devices]
    BY <1>0, GrantType
  <2>3. /\ pairings' \in [PairingIds -> Rows]
        /\ device' \in [Keys -> Devices]
        /\ prompt' \in PairingIds \cup {NoPairing}
        /\ UNCHANGED <<leaf, minted, profile, vps, now, offset, begun>>
    BY <1>0, <1>2, <1>5, <2>1, <2>2 DEF Review, Approve, Deny
  <2>4. QED
    BY <1>0, <2>3 DEF TypeOK
<1>6. CASE Cleanup
  <2>1. pairings' \in [PairingIds -> Rows]
    BY <1>1, <1>2, <1>6 DEF Cleanup
  <2>2. UNCHANGED <<device, leaf, minted, prompt, profile, vps, now, offset, begun>>
    BY <1>6 DEF Cleanup
  <2>3. QED
    BY <1>0, <2>1, <2>2 DEF TypeOK
<1>7. CASE Unlock \/ Lock \/ Decline \/ Tick \/ UNCHANGED vars
  BY <1>0, <1>7 DEF Unlock, Lock, Decline, Tick, vars, connector, TypeOK
<1>8. QED
  BY <1>3, <1>4, <1>5, <1>6, <1>7 DEF Next, OwnerStep

\* A command at work has a pending profile.
LEMMA CommandStep == ASSUME Inv, [Next]_vars PROVE CommandInv'
<1>1. ASSUME NEW k \in Keys, vps'[k].at # "idle" PROVE profile'[k].state = "pending"
  <2>1. CASE profile'[k] = profile[k] /\ vps'[k] = vps[k]
    BY <1>1, <2>1 DEF Inv, CommandInv
  <2>2. CASE VpsStep(k)
    BY <1>1, <2>2, VpsChange
  <2>3. CASE Answer(k) /\ profile' = profile
    <3>1. vps[k].at = "asking"
      BY <2>3 DEF Answer
    <3>2. QED
      BY <2>3, <3>1 DEF Inv, CommandInv
  <2>4. QED
    BY <2>1, <2>2, <2>3, CommandChange
<1>2. QED
  BY <1>1 DEF CommandInv

\* What the owner is asked about stays pending.
LEMMA PromptStep == ASSUME Inv, [Next]_vars PROVE PromptInv'
<1>1. SUFFICES ASSUME prompt' # NoPairing PROVE pairings'[prompt'].decision = "pending"
  BY DEF PromptInv
<1>2. ASSUME NEW p \in PairingIds, Review(p) PROVE pairings'[prompt'].decision = "pending"
  BY <1>2 DEF Review
<1>3. CASE UNCHANGED <<prompt, pairings>>
  BY <1>1, <1>3 DEF Inv, PromptInv
<1>4. ASSUME NEW k \in Keys, VpsStep(k) PROVE UNCHANGED <<prompt, pairings>>
  BY <1>4, VpsChange DEF connector
<1>5. ~Lock /\ ~Decline /\ (\A p \in PairingIds : ~Approve(p) /\ ~Deny(p))
  BY <1>1 DEF Lock, Decline, Approve, Deny
<1>6. ~Cleanup /\ (\A k \in Keys : ~Answer(k))
  BY <1>1 DEF Cleanup, Answer
<1>7. CASE Unlock \/ Tick \/ UNCHANGED vars
  BY <1>3, <1>7 DEF Unlock, Tick, vars, connector
<1>8. QED
  BY <1>2, <1>3, <1>4, <1>5, <1>6, <1>7 DEF Next, OwnerStep

\* A row agrees with the request it answers.
LEMMA RowStep == ASSUME Inv, [Next]_vars PROVE RowInv'
<1>0. TypeOK /\ RowInv /\ now \in Int /\ now' \in Int /\ now <= now' /\ begun \subseteq begun'
  BY BegunChange, DeviceChange DEF Inv
<1>1. ASSUME NEW p \in PairingIds, pairings'[p].decision # "none"
      PROVE  /\ p \in begun'
             /\ p = Current(p[1])' => pairings'[p].deadline = profile'[p[1]].deadline
             /\ pairings'[p].deadline <= pairings'[p].challenge.issued_at + PairingTtl
             /\ pairings'[p].challenge.issued_at <= now'
             /\ pairings'[p].decision # "pending" =>
                  pairings'[p].challenge.issued_at <= pairings'[p].decided_at
  <2>0. p[1] \in Keys /\ pairings[p] \in Rows /\ pairings[p].challenge.issued_at \in Int
    BY <1>0, IdType DEF TypeOK, Rows, Challenges
  <2>1. CASE pairings[p].decision # "none" /\ (pairings'[p] = pairings[p] \/ RowDecided(p))
    <3>1. /\ p \in begun
          /\ p = Current(p[1]) => pairings[p].deadline = profile[p[1]].deadline
          /\ pairings[p].deadline <= pairings[p].challenge.issued_at + PairingTtl
          /\ pairings[p].challenge.issued_at <= now
          /\ pairings[p].decision # "pending" =>
               pairings[p].challenge.issued_at <= pairings[p].decided_at
      BY <1>0, <2>1 DEF RowInv
    <3>2. /\ pairings'[p].deadline = pairings[p].deadline
          /\ pairings'[p].challenge = pairings[p].challenge
          /\ pairings'[p] = pairings[p] \/ pairings'[p].decided_at = now
      BY <2>1 DEF RowDecided
    <3>3. p = Current(p[1])' => pairings'[p].deadline = profile'[p[1]].deadline
      BY <2>0, <3>1, <3>2, CurrentStays
    <3>4. pairings'[p].challenge.issued_at <= now'
      BY <1>0, <2>0, <3>1, <3>2
    <3>5. QED
      BY <1>0, <3>1, <3>2, <3>3, <3>4
  <2>2. CASE RowMade(p)
    <3>1. PICK k \in Keys :
             /\ p = Current(k) /\ leaf # 0
             /\ ChallengeAllowed(NewChallenge, profile[k].deadline)
             /\ pairings'[p] = NewRow(k)
             /\ begun' = begun \cup {p}
             /\ UNCHANGED profile
      BY <2>2 DEF RowMade
    <3>2. p[1] = k
      BY <3>1 DEF Current
    <3>3. /\ pairings'[p].deadline = profile[k].deadline
          /\ pairings'[p].challenge = NewChallenge /\ NewChallenge.issued_at = now
          /\ pairings'[p].decision = "pending"
      BY <1>0, <3>1, NewRowType
    <3>4. profile[k].deadline - now <= PairingTtl
      BY <3>1, <3>3 DEF ChallengeAllowed
    <3>5. profile[k].deadline \in Int /\ PairingTtl \in Nat
      BY <1>0, PairingAssumption DEF PairingAssumption, TypeOK, Profiles
    <3>6. profile[k].deadline <= now + PairingTtl
      BY <1>0, <3>4, <3>5
    <3>7. QED
      BY <1>0, <3>1, <3>2, <3>3, <3>6
  <2>3. ~RowDropped(p)
    BY <1>1 DEF RowDropped, NoRow
  <2>4. ~(pairings[p].decision = "none" /\ (pairings'[p] = pairings[p] \/ RowDecided(p)))
    BY <1>1 DEF RowDecided
  <2>5. QED
    BY <2>1, <2>2, <2>3, <2>4, RowChange
<1>2. QED
  BY <1>1 DEF RowInv

\* Where a row is missing, the request is overdue: the retention is the longer.
LEMMA BegunStep == ASSUME Inv, [Next]_vars PROVE BegunInv'
<1>0. /\ TypeOK /\ RowInv /\ BegunInv /\ now \in Int /\ now' \in Int /\ now <= now'
      /\ begun \subseteq PairingIds
  BY DeviceChange DEF Inv, TypeOK
<1>1. ASSUME NEW p \in begun
      PROVE  /\ p[2] <= profile'[p[1]].id
             /\ pairings'[p].decision = "none" /\ p = Current(p[1])' =>
                  profile'[p[1]].deadline <= now'
  <2>0. p \in PairingIds /\ p[1] \in Keys /\ p[2] \in Int
    BY <1>0, IdType, PairingAssumption DEF PairingAssumption
  <2>1. p[2] <= profile'[p[1]].id
    <3>1. p[2] <= profile[p[1]].id /\ profile[p[1]].id \in Nat
      BY <1>0, <2>0 DEF BegunInv, TypeOK, Profiles
    <3>2. profile'[p[1]].id \in {profile[p[1]].id, profile[p[1]].id + 1}
      BY <2>0, CommandChange, VpsChange DEF ProfileRenewed, ProfileExchanged, ProfileResolved
    <3>3. QED
      BY <2>0, <3>1, <3>2
  <2>2. ASSUME pairings'[p].decision = "none", p = Current(p[1])'
        PROVE  profile'[p[1]].deadline <= now'
    <3>1. p = Current(p[1]) /\ profile'[p[1]].deadline = profile[p[1]].deadline
      BY <2>0, <2>2, CurrentStays
    <3>2. profile[p[1]].deadline \in Int
      BY <1>0, <2>0 DEF TypeOK, Profiles
    <3>3. CASE pairings[p].decision = "none"
      BY <1>0, <3>1, <3>2, <3>3 DEF BegunInv
    <3>4. CASE pairings[p].decision # "none"
      <4>1. RowDropped(p)
        BY <2>0, <2>2, <3>4, NotMadeTwice, RowChange DEF RowDecided
      <4>2. /\ profile[p[1]].deadline <= pairings[p].challenge.issued_at + PairingTtl
            /\ pairings[p].challenge.issued_at <= pairings[p].decided_at
            /\ pairings[p].decided_at < now - AuditRetention
        BY <1>0, <2>0, <3>1, <3>4, <4>1 DEF RowInv, RowDropped
      <4>3. pairings[p].challenge.issued_at \in Int /\ pairings[p].decided_at \in Int
        BY <1>0, <2>0 DEF TypeOK, Rows, Challenges
      <4>4. PairingTtl \in Nat /\ MaxClockSkew \in Nat /\ AuditRetention \in Nat
            /\ PairingTtl + MaxClockSkew <= AuditRetention
        BY PairingAssumption DEF PairingAssumption
      <4>5. QED
        BY <1>0, <3>1, <3>2, <4>2, <4>3, <4>4
    <3>5. QED
      BY <3>3, <3>4
  <2>3. QED
    BY <2>1, <2>2
<1>2. CASE begun' = begun
  BY <1>1, <1>2 DEF BegunInv
<1>3. ASSUME NEW k \in Keys, profile[k].state # "none", leaf # 0, UNCHANGED profile,
             pairings'[Current(k)] = NewRow(k), begun' = begun \cup {Current(k)}
      PROVE  BegunInv'
  <2>1. Current(k)[1] = k /\ Current(k)[2] = profile'[k].id
    BY <1>0, <1>3, CurrentType
  <2>2. pairings'[Current(k)].decision = "pending"
    BY <1>0, <1>3, NewRowType
  <2>3. profile'[k].id \in Nat
    BY <1>0, <1>3 DEF TypeOK, Profiles
  <2>4. QED
    BY <1>1, <1>3, <2>1, <2>2, <2>3 DEF BegunInv
<1>4. QED
  BY <1>2, <1>3, BegunChange

\* The challenge on disk stays the one of the row.
LEMMA ExchangeStep == ASSUME Inv, [Next]_vars PROVE ExchangeInv'
<1>1. ASSUME NEW k \in Keys, HasExchange(k)'
      PROVE  /\ Made(k, profile[k].challenge)'
             /\ profile'[k].challenge.leaf = profile'[k].seen
  <2>1. ~ProfileRenewed(k)
    BY <1>1 DEF ProfileRenewed, HasExchange
  <2>2. CASE /\ HasExchange(k)
             /\ profile'[k].challenge = profile[k].challenge /\ profile'[k].seen = profile[k].seen
             /\ profile'[k].id = profile[k].id
    <3>1. Made(k, profile[k].challenge) /\ profile[k].challenge.leaf = profile[k].seen
      BY <2>2 DEF Inv, ExchangeInv
    <3>2. Current(k)' = Current(k)
      BY <2>2 DEF Current
    <3> DEFINE c == profile[k].challenge
    <3>3. PICK d : d = c
      OBVIOUS
    <3>4. Made(k, d)'
      BY <3>1, <3>2, <3>3, MadeStays
    <3>5. d = profile'[k].challenge
      BY <2>2, <3>3
    <3>6. QED
      BY <2>2, <3>1, <3>4, <3>5 DEF Made, Current
  <2>3. CASE ProfileExchanged(k)
    <3>1. PICK d : d = vps[k].answer.challenge
      OBVIOUS
    <3>2. Made(k, d) /\ Current(k)' = Current(k) /\ d = profile'[k].challenge
      BY <2>3, <3>1 DEF Inv, AnswerInv, ProfileExchanged, Current
    <3>3. Made(k, d)'
      BY <3>2, MadeStays
    <3>4. QED
      BY <2>3, <3>2, <3>3 DEF Made, Current, ProfileExchanged
  <2>4. CASE profile'[k] = profile[k]
    BY <1>1, <2>2, <2>4 DEF HasExchange
  <2>5. CASE ProfileResolved(k)
    BY <1>1, <2>2, <2>5 DEF HasExchange, ProfileResolved
  <2>6. QED
    BY <2>1, <2>3, <2>4, <2>5, CommandChange, VpsChange
<1>2. QED
  BY <1>1 DEF ExchangeInv

\* The answer to a request says what is on record when it is given.
LEMMA AnswerMade ==
    ASSUME Inv, [Next]_vars, NEW k \in Keys, Answer(k)
    PROVE  /\ vps'[k].answer.kind = "challenge" => Made(k, vps[k].answer.challenge)'
           /\ vps'[k].answer.kind = "resolution" =>
                /\ device[k] = [transcript |-> Transcript(Current(k), vps'[k].answer.challenge,
                                                          vps'[k].answer.challenge.leaf),
                                approved_at |-> vps'[k].answer.completed_at]
                /\ vps'[k].answer.completed_at < profile[k].deadline
<1>0. /\ TypeOK /\ RowInv /\ ApprovalsMadeTheirDevice /\ begun \subseteq begun'
      /\ leaf # 0 /\ profile[k].state # "none" /\ UNCHANGED profile
      /\ vps \in [Keys -> [at : {"idle", "asking", "answered", "waiting"}, answer : Answers]]
  BY BegunChange DEF Inv, TypeOK, CommandInv, Answer
<1>1. /\ Current(k) \in PairingIds /\ Current(k)[1] = k /\ Current(k)' = Current(k)
      /\ pairings[Current(k)] \in Rows
  BY <1>0, CurrentType DEF Current, TypeOK
<1> DEFINE p == Current(k)
           row == Expired[p]
           says(a) == vps' = [vps EXCEPT ![k] = [at |-> "answered", answer |-> a]]
<1>2. \A a : says(a) => vps'[k].answer = a
  BY <1>0
<1>3. \/ says(Reply("refused", NoRow))
      \/ /\ pairings' = [Expired EXCEPT ![p] = NewRow(k)]
         /\ begun' = begun \cup {p}
         /\ says(Reply("challenge", NewRow(k)))
      \/ /\ pairings' = Expired
         /\ \/ row.decision = "pending" /\ says(Reply("challenge", row))
            \/ row.decision = "approved" /\ says(Reply("resolution", row))
            \/ says(Reply("refused", NoRow))
  BY Zenon DEF Answer, Current
<1>4. CASE says(Reply("refused", NoRow))
  <2>1. vps'[k].answer.kind = "refused"
    BY <1>2, <1>4 DEF Reply
  <2>2. QED
    BY <2>1
<1>5. CASE /\ pairings' = [Expired EXCEPT ![p] = NewRow(k)]
           /\ begun' = begun \cup {p}
           /\ says(Reply("challenge", NewRow(k)))
  <2>1. vps'[k].answer = Reply("challenge", NewRow(k))
    BY <1>2, <1>5
  <2>2. vps'[k].answer.kind = "challenge" /\ vps'[k].answer.challenge = NewRow(k).challenge
    BY <2>1 DEF Reply
  <2>3. pairings'[p] = NewRow(k) /\ p \in begun'
    BY <1>1, <1>5 DEF Expired
  <2>4. Made(k, vps[k].answer.challenge)'
    BY <1>1, <2>2, <2>3 DEF Made
  <2>5. QED
    BY <2>2, <2>4
<1>6. CASE pairings' = Expired /\ row.decision = "pending" /\ says(Reply("challenge", row))
  <2>1. vps'[k].answer.kind = "challenge" /\ vps'[k].answer.challenge = row.challenge
    <3>1. vps'[k].answer = Reply("challenge", row)
      BY <1>2, <1>6
    <3>2. QED
      BY <3>1 DEF Reply
  <2>2. pairings[p] = row
    BY <1>0, <1>1, <1>6, ExpiredRow
  <2>3. p \in begun'
    BY <1>0, <1>1, <1>6, <2>2 DEF RowInv
  <2>4. Made(k, vps[k].answer.challenge)'
    BY <1>1, <1>6, <2>1, <2>3 DEF Made
  <2>5. QED
    BY <2>1, <2>4
<1>7. CASE pairings' = Expired /\ row.decision = "approved" /\ says(Reply("resolution", row))
  <2>1. /\ vps'[k].answer.kind = "resolution" /\ vps'[k].answer.challenge = row.challenge
        /\ vps'[k].answer.completed_at = row.decided_at
    <3>1. vps'[k].answer = Reply("resolution", row)
      BY <1>2, <1>7
    <3>2. QED
      BY <3>1 DEF Reply
  <2>2. pairings[p] = row
    BY <1>0, <1>1, <1>7, ExpiredRow
  <2>3. /\ device[k] = [FirstGrant(p) EXCEPT !.approved_at = row.decided_at]
        /\ row.decided_at < row.deadline
    BY <1>0, <1>1, <1>7, <2>2 DEF ApprovalsMadeTheirDevice
  <2>4. row.deadline = profile[k].deadline
    BY <1>0, <1>1, <1>7, <2>2 DEF RowInv
  <2>5. device[k] = [transcript |-> Transcript(p, row.challenge, row.challenge.leaf),
                     approved_at |-> row.decided_at]
    BY <2>2, <2>3 DEF FirstGrant, Shown
  <2>6. QED
    BY <2>1, <2>3, <2>4, <2>5
<1>8. QED
  BY <1>3, <1>4, <1>5, <1>6, <1>7

\* A grant that is on its way is there.
LEMMA TranscriptIsThere ==
    ASSUME NEW p, NEW c, NEW s, NEW t
    PROVE  [transcript |-> Transcript(p, c, s), approved_at |-> t] # NoDevice
  BY DEF Transcript, NoDevice

\* An answer stays true while it is on its way.
LEMMA AnswerStep == ASSUME Inv, [Next]_vars PROVE AnswerInv'
<1>1. ASSUME NEW k \in Keys, vps'[k].at = "answered"
      PROVE  /\ vps'[k].answer.kind = "challenge" => Made(k, vps[k].answer.challenge)'
             /\ vps'[k].answer.kind = "resolution" =>
                  /\ device'[k] = [transcript |-> Transcript(Current(k)', vps'[k].answer.challenge,
                                                             vps'[k].answer.challenge.leaf),
                                   approved_at |-> vps'[k].answer.completed_at]
                  /\ vps'[k].answer.completed_at < profile'[k].deadline
  <2>1. ~VpsStep(k)
    BY <1>1, VpsChange
  <2>2. CASE profile'[k] = profile[k] /\ vps'[k] = vps[k]
    <3>1. Current(k)' = Current(k)
      BY <2>2 DEF Current
    <3>2. PICK a : a = vps[k].answer
      OBVIOUS
    <3>3. /\ a.kind = "challenge" => Made(k, a.challenge)
          /\ a.kind = "resolution" =>
               /\ device[k] = [transcript |-> Transcript(Current(k), a.challenge,
                                                         a.challenge.leaf),
                               approved_at |-> a.completed_at]
               /\ a.completed_at < profile[k].deadline
      BY <1>1, <2>2, <3>2 DEF Inv, AnswerInv
    <3>4. a.kind = "challenge" => Made(k, a.challenge)'
      <4>1. PICK d : d = a.challenge
        OBVIOUS
      <4>2. a.kind = "challenge" => Made(k, d)'
        BY <3>1, <3>3, <4>1, MadeStays
      <4>3. QED
        BY <4>1, <4>2 DEF Made
    <3>5. a.kind = "resolution" => device'[k] = device[k]
      BY <3>3, TranscriptIsThere, DeviceChange
    <3>6. vps'[k].answer = a
      BY <2>2, <3>2
    <3>7. a.kind = "challenge" => Made(k, vps[k].answer.challenge)'
      BY <3>4, <3>6 DEF Made
    <3>8. QED
      BY <2>2, <3>1, <3>3, <3>5, <3>6, <3>7
  <2>3. CASE Answer(k) /\ profile' = profile
    <3>1. device' = device /\ Current(k)' = Current(k)
      BY <2>3 DEF Answer, Current
    <3>2. QED
      BY <2>3, <3>1, AnswerMade
  <2>4. QED
    BY <2>1, <2>2, <2>3, CommandChange
<1>2. QED
  BY <1>1 DEF AnswerInv

\* An approval makes the device of its key, and none is made over it.
LEMMA ApprovalStep == ASSUME Inv, [Next]_vars PROVE ApprovalsMadeTheirDevice'
<1>0. TypeOK /\ ApprovalsMadeTheirDevice /\ device \in [Keys -> Devices]
  BY DEF Inv, TypeOK
<1>1. ASSUME NEW p \in PairingIds, pairings'[p].decision = "approved"
      PROVE  /\ device'[p[1]] = [transcript |-> Shown(p)', approved_at |-> pairings'[p].decided_at]
             /\ pairings'[p].decided_at < pairings'[p].deadline
  <2>0. p[1] \in Keys
    BY IdType
  <2>1. CASE pairings'[p] = pairings[p]
    <3>1. /\ device[p[1]] = [transcript |-> Shown(p), approved_at |-> pairings[p].decided_at]
          /\ pairings[p].decided_at < pairings[p].deadline
      BY <1>0, <1>1, <2>1 DEF ApprovalsMadeTheirDevice, FirstGrant
    <3>2. device'[p[1]] = device[p[1]]
      BY <2>0, <3>1, TranscriptIsThere, DeviceChange DEF Shown
    <3>3. Shown(p)' = Shown(p)
      BY <2>1 DEF Shown
    <3>4. QED
      BY <2>1, <3>1, <3>2, <3>3
  <2>2. CASE RowDecided(p)
    <3>1. /\ device' = [device EXCEPT ![p[1]] = FirstGrant(p)]
          /\ pairings'[p].challenge = pairings[p].challenge
          /\ pairings'[p].deadline = pairings[p].deadline
          /\ pairings'[p].decided_at = now /\ now < pairings[p].deadline
      BY <1>1, <2>2 DEF RowDecided
    <3>2. device'[p[1]] = FirstGrant(p)
      BY <1>0, <2>0, <3>1
    <3>3. Shown(p)' = Shown(p)
      BY <3>1 DEF Shown
    <3>4. QED
      BY <3>1, <3>2, <3>3 DEF FirstGrant
  <2>3. ~RowDropped(p)
    BY <1>1 DEF RowDropped, NoRow
  <2>4. ~RowMade(p)
    BY <1>0, <1>1, NewRowType DEF RowMade
  <2>5. QED
    BY <2>1, <2>2, <2>3, <2>4, RowChange
<1>2. QED
  BY <1>1 DEF ApprovalsMadeTheirDevice, FirstGrant

\* A VPS is paired by an answer that holds what it displays.
LEMMA PairedStep == ASSUME Inv, [Next]_vars PROVE PairedMeansApproved'
<1>1. ASSUME NEW k \in Keys, profile'[k].state = "paired"
      PROVE  /\ device'[k].transcript = Displayed(k)'
             /\ device'[k].approved_at < profile'[k].deadline
  <2>1. CASE profile'[k] = profile[k]
    <3>1. device[k].transcript = Displayed(k) /\ device[k].approved_at < profile[k].deadline
      BY <1>1, <2>1 DEF Inv, PairedMeansApproved
    <3>2. device[k] # NoDevice
      BY <3>1 DEF NoDevice, Displayed, Transcript
    <3>3. QED
      BY <2>1, <3>1, <3>2, DeviceChange DEF Displayed
  <2>2. CASE ProfileResolved(k)
    <3> DEFINE a == vps[k].answer
    <3>1. /\ device[k] = [transcript |-> Transcript(Current(k), a.challenge, a.challenge.leaf),
                          approved_at |-> a.completed_at]
          /\ a.completed_at < profile[k].deadline
      BY <2>2 DEF ProfileResolved, Inv, AnswerInv
    <3>2. Transcript(Current(k), a.challenge, a.challenge.leaf) = Displayed(k)
      BY <2>2 DEF ProfileResolved, CompleteVerified, Displayed, Current
    <3>3. device'[k] = device[k]
      BY <3>1, TranscriptIsThere, DeviceChange
    <3>4. Displayed(k)' = Displayed(k) /\ profile'[k].deadline = profile[k].deadline
      BY <2>2 DEF ProfileResolved, Displayed
    <3>5. QED
      BY <3>1, <3>2, <3>3, <3>4
  <2>3. ~ProfileRenewed(k) /\ ~ProfileExchanged(k)
    BY <1>1 DEF ProfileRenewed, ProfileExchanged
  <2>4. QED
    BY <2>1, <2>2, <2>3, CommandChange, VpsChange
<1>2. QED
  BY <1>1 DEF PairedMeansApproved

-----------------------------------------------------------------------------
(* The theorems.                                                           *)

\* Nothing has happened at first.
LEMMA InitInv == Init => Inv
<1> SUFFICES ASSUME Init PROVE Inv
  OBVIOUS
<1>1. TypeOK
  <2>1. NoDevice \in Devices /\ NoProfile \in Profiles /\ NoProfile.id = 0
        /\ NoProfile.state = "none"
    BY NothingTyped DEF NoDevice, Devices, Transcripts, NoProfile
  <2>2. \A k \in Keys : MaxAttempts[k] \in Nat
    BY PairingAssumption DEF PairingAssumption
  <2>3. offset \in [Keys -> Int]
    BY PairingAssumption DEF PairingAssumption, Init
  <2>4. QED
    BY <2>1, <2>2, <2>3, NothingTyped DEF Init, TypeOK
<1>2. CommandInv /\ AnswerInv
  BY NothingTyped DEF Init, CommandInv, AnswerInv
<1>3. PromptInv /\ RowInv /\ BegunInv /\ ApprovalsMadeTheirDevice
  BY DEF Init, PromptInv, RowInv, BegunInv, ApprovalsMadeTheirDevice, NoRow
<1>4. ExchangeInv /\ PairedMeansApproved
  BY DEF Init, ExchangeInv, HasExchange, PairedMeansApproved, NoProfile
<1>5. QED
  BY <1>1, <1>2, <1>3, <1>4 DEF Inv

\* The invariant is inductive.
LEMMA StepInv == Inv /\ [Next]_vars => Inv'
  BY TypeStep, CommandStep, PromptStep, RowStep, BegunStep, ExchangeStep, AnswerStep, ApprovalStep,
     PairedStep DEF Inv

\* Every variable keeps its type, and rows, challenges, answers, devices and profiles
\* agree in every reachable state.
THEOREM Invariance == Spec => []Inv
  BY InitInv, StepInv, PTL DEF Spec

\* A VPS takes itself for paired only with the grant its owner approved for the
\* transcript it displayed.
THEOREM PairedIsApproved == Spec => []PairedMeansApproved
<1>1. Inv => PairedMeansApproved
  BY DEF Inv
<1>2. QED
  BY <1>1, Invariance, PTL

\* An approval and the device of its key come about in one step, in time.
THEOREM ApprovalIsAtomic == Spec => []ApprovalsMadeTheirDevice
<1>1. Inv => ApprovalsMadeTheirDevice
  BY DEF Inv
<1>2. QED
  BY <1>1, Invariance, PTL

\* The two terminals display the same challenge, over the leaf the VPS saw.
THEOREM SameDisplay == Spec => []BothDisplayTheSame
<1>1. Inv => BothDisplayTheSame
  BY DEF Inv, ExchangeInv, Made, Current, BothDisplayTheSame, Shown, Displayed, Transcript
<1>2. QED
  BY <1>1, Invariance, PTL

\* No pairing is decided twice, or asked for again.
THEOREM DecisionStands == Spec => DecidedOnce
<1> DEFINE Kept ==
      \A p \in PairingIds :
        p \in begun /\ pairings[p].decision # "pending"
          => pairings'[p].decision \in {pairings[p].decision, "none"}
<1>1. Inv /\ [Next]_vars => Kept
  <2>1. ASSUME Inv, [Next]_vars, NEW p \in PairingIds, p \in begun,
               pairings[p].decision # "pending"
        PROVE  pairings'[p].decision \in {pairings[p].decision, "none"}
    <3>1. ~RowMade(p) /\ ~RowDecided(p)
      BY <2>1, NotMadeTwice DEF RowDecided
    <3>2. QED
      BY <2>1, <3>1, RowChange DEF RowDropped, NoRow
  <2>2. QED
    BY <2>1
<1>2. QED
  BY <1>1, Invariance, PTL DEF Spec, DecidedOnce

=============================================================================
