---------------------- MODULE ConnectorExchangeProofs ----------------------
(***************************************************************************)
(* Theorems about ConnectorExchange, for any number of callers, any bounds *)
(* on clocks, uses and records, and any earlier evidence.                  *)
(***************************************************************************)
EXTENDS ConnectorExchange, TLAPS

-----------------------------------------------------------------------------
(* Types.                                                                  *)

\* A caller that has not begun is in a state of its type.
LEMMA IdleType == Idle \in Calls
  BY DEF Idle, Calls, Receipts, NoAnswer

\* The end of a call, whatever its outcome, leaves every call typed.
LEMMA EndedType ==
    ASSUME NEW c \in Callers, NEW o \in {"none", "ok", "error"}, call \in [Callers -> Calls]
    PROVE  Ended(c, o) \in [Callers -> Calls]
<1>1. call[c].signing \in {0, 1}
  BY DEF Calls
<1>2. [Idle EXCEPT !.at = "ended", !.signing = call[c].signing, !.outcome = o] \in Calls
  BY <1>1, IdleType DEF Calls
<1>3. QED
  BY <1>2 DEF Ended

\* So does an answer.
LEMMA ReplyType ==
    ASSUME NEW m \in [request : Requests, attempt : {0, 1}, deadline : Int],
           NEW a \in Receipts, call \in [Callers -> Calls], Reply(m, a)
    PROVE  call' \in [Callers -> Calls]
<1>1. m.request[1] \in Callers
  BY DEF Requests
<1>2. [call[m.request[1]] EXCEPT !.answer = a] \in Calls
  BY <1>1 DEF Calls
<1>3. QED
  BY <1>1, <1>2 DEF Reply

\* A reply changes nothing but the answer of a caller that waits for it.
LEMMA ReplyKeeps ==
    ASSUME NEW m, NEW a, call \in [Callers -> Calls], Reply(m, a), NEW c \in Callers
    PROVE  /\ call'[c].at = call[c].at /\ call'[c].signing = call[c].signing
           /\ call'[c].outcome = call[c].outcome
           /\ call'[c] = call[c] \/ (Listening(m) /\ c = m.request[1] /\ call'[c].answer = a)
<1>1. CASE call' = call
  BY <1>1
<1>2. CASE Listening(m) /\ call' = [call EXCEPT ![m.request[1]].answer = a]
  <2>1. CASE c = m.request[1]
    <3>1. call[c] \in Calls /\ call'[c] = [call[c] EXCEPT !.answer = a]
      BY <1>2, <2>1
    <3>2. QED
      BY <1>2, <2>1, <3>1 DEF Calls
  <2>2. CASE c # m.request[1]
    BY <1>2, <2>2
  <2>3. QED
    BY <2>1, <2>2
<1>3. QED
  BY <1>1, <1>2 DEF Reply

\* The VPS clock reads an integer.
LEMMA ClockType == ASSUME TypeOK PROVE VpsClock \in Int
  BY ExchangeAssumption DEF ExchangeAssumption, TypeOK, VpsClock

\* What a signed call writes to the ledger is a record.
LEMMA RecordType ==
    ASSUME NEW c \in Callers, call \in [Callers -> Calls], call[c].signing = 1
    PROVE  RecordOf(c) \in Records
  BY DEF RecordOf, Records, Request, Requests, Calls

\* A call that has begun has signed its one request, and has no outcome until it ends;
\* an answer that a caller goes on with is a receipt.
CallInv ==
    \A c \in Callers :
        /\ call[c].at # "idle" => call[c].signing = 1
        /\ call[c].at # "ended" => call[c].outcome = "none"
        /\ call[c].at \in {"verified", "recorded"} => call[c].answer.decision # "none"

\* An error leaves calls and snapshot typed, saved or not.
LEMMA SaveRaiseType ==
    ASSUME NEW c \in Callers, NEW state \in {"unavailable", "disconnected"}, TypeOK,
           Raise(c, state)
    PROVE  /\ call' \in [Callers -> Calls]
           /\ snapshot'.state \in {"none", "authenticated", "disconnected", "unavailable"}
  BY EndedType DEF Raise, Projection, TypeOK

\* A call that has just been signed is in a state of its type.
LEMMA InvocationType == ASSUME TypeOK PROVE Invocation \in Calls
<1>1. VpsClock \in Int /\ Deadline \in Int
  BY ClockType, ExchangeAssumption DEF ExchangeAssumption, Deadline
<1>2. now + (Deadline - VpsClock) \in Int
  BY <1>1, ExchangeAssumption DEF ExchangeAssumption, TypeOK
<1>3. QED
  BY <1>1, <1>2, IdleType DEF Invocation, Calls

\* Serving a request keeps the types of the Connector, and only takes from the wire.
LEMMA ServeType ==
    ASSUME NEW m \in wire, TypeOK, Serve(m)
    PROVE  /\ settled' \in [Requests -> {"fresh", "spent", "refused"}]
           /\ budget' \in [{"grant"} -> Nat]
           /\ live' = live /\ revoked' = revoked
           /\ wire' \subseteq wire
           /\ call' \in [Callers -> Calls]
<1>1. m \in [request : Requests, attempt : {0, 1}, deadline : Int] /\ m.request \in Requests
  BY DEF TypeOK
<1>2. wire' \subseteq wire
  BY DEF Serve
<1>3. CASE /\ Authority!Spend(m.request)
           /\ \E o \in BackendOutcomes : Reply(m, [decision |-> "allow", outcome |-> o])
  <2>1. PICK o \in BackendOutcomes : Reply(m, [decision |-> "allow", outcome |-> o])
    BY <1>3
  <2>2. [decision |-> "allow", outcome |-> o] \in Receipts
    BY DEF Receipts
  <2>3. call' \in [Callers -> Calls]
    BY <1>1, <2>1, <2>2, ReplyType DEF TypeOK
  <2>4. /\ settled' \in [Requests -> {"fresh", "spent", "refused"}]
        /\ budget' \in [{"grant"} -> Nat]
        /\ live' = live /\ revoked' = revoked
    BY <1>1, <1>3 DEF TypeOK, Authority!Spend
  <2>5. QED
    BY <1>2, <2>3, <2>4
<1>4. CASE /\ Authority!Refuse(m.request)
           /\ Reply(m, [decision |-> "deny", outcome |-> "denied"])
  <2>1. [decision |-> "deny", outcome |-> "denied"] \in Receipts
    BY DEF Receipts
  <2>2. call' \in [Callers -> Calls]
    BY <1>1, <1>4, <2>1, ReplyType DEF TypeOK
  <2>3. QED
    BY <1>1, <1>2, <1>4, <2>2 DEF TypeOK, Authority!Refuse
<1>5. CASE /\ UNCHANGED connector
           /\ \/ Reply(m, [decision |-> "deny", outcome |-> "replayed"])
              \/ Reply(m, ErrorFrame)
  <2>1. [decision |-> "deny", outcome |-> "replayed"] \in Receipts /\ ErrorFrame \in Receipts
    BY DEF Receipts
  <2>2. call' \in [Callers -> Calls]
    BY <1>1, <1>5, <2>1, ReplyType DEF TypeOK
  <2>3. QED
    BY <1>1, <1>2, <1>5, <2>2 DEF TypeOK, connector
<1>6. QED
  BY <1>3, <1>4, <1>5 DEF Serve

\* What the two ways to write a record leave.
LEMMA AppendType ==
    ASSUME NEW c \in Callers, TypeOK, call[c].signing = 1, Appendable(c),
           ledger' = Append(ledger, RecordOf(c))
    PROVE  /\ ledger' \in Seq(EarlierRecords \cup Records)
           /\ Len(ledger') = Len(ledger) + 1 /\ Len(ledger') <= MaxRecords
           /\ ledger'[Len(ledger) + 1] = RecordOf(c)
           /\ \A i \in 1..Len(ledger) : ledger'[i] = ledger[i]
<1>1. RecordOf(c) \in EarlierRecords \cup Records
  BY RecordType DEF TypeOK
<1> DEFINE R == EarlierRecords \cup Records
           e == RecordOf(c)
<1>2. ledger \in Seq(R) /\ e \in R /\ ledger' = Append(ledger, e)
  BY <1>1 DEF TypeOK
<1>3. Len(ledger) < MaxRecords /\ MaxRecords \in Nat
  BY ExchangeAssumption DEF Appendable, ExchangeAssumption
<1> HIDE DEF R, e
<1>4. /\ ledger' \in Seq(R)
      /\ Len(ledger') = Len(ledger) + 1 /\ Len(ledger') <= MaxRecords
      /\ ledger'[Len(ledger) + 1] = e
      /\ \A i \in 1..Len(ledger) : ledger'[i] = ledger[i]
  BY <1>2, <1>3
<1>5. QED
  BY <1>4 DEF R, e

\* The steps of a caller that record nothing.
LEMMA QuietType ==
    ASSUME NEW c \in Callers, TypeOK, CallInv,
           Start(c) \/ Send(c) \/ Breaks(c) \/ Mismatch(c) \/ RefuseFrame(c)
               \/ RefuseReceipt(c) \/ Verify(c) \/ CannotRecord(c) \/ Save(c) \/ Abandoned(c)
    PROVE  TypeOK' /\ CallInv'
<1>0. call[c] \in Calls
  BY DEF TypeOK
<1> DEFINE Typed == /\ call' \in [Callers -> Calls]
                    /\ snapshot'.state \in {"none", "authenticated", "disconnected", "unavailable"}
                    /\ wire' \subseteq [request : Requests, attempt : {0, 1}, deadline : Int]
                    /\ UNCHANGED <<connector, evidence, time>>
<1>1. ASSUME Typed PROVE TypeOK'
  BY <1>1 DEF TypeOK, connector, evidence, time
<1>2. CASE Start(c)
  <2>1. Typed
    BY <1>2, InvocationType DEF TypeOK, Start
  <2>2. CallInv'
    BY <1>2 DEF TypeOK, CallInv, Start, Invocation, Idle
  <2>3. QED
    BY <1>1, <2>1, <2>2
<1>3. CASE Send(c)
  <2>1. call[c].signing = 1 /\ call[c].attempt \in {0, 1} /\ call[c].deadline \in Int
    BY <1>3 DEF CallInv, Send, TypeOK, Calls
  <2>2. [request |-> Request(c), attempt |-> call[c].attempt, deadline |-> call[c].deadline]
            \in [request : Requests, attempt : {0, 1}, deadline : Int]
    BY <2>1 DEF Request, Requests
  <2>3. [call[c] EXCEPT !.at = "waiting"] \in Calls
    BY <1>0 DEF Calls
  <2>4. Typed
    BY <1>3, <2>2, <2>3 DEF TypeOK, Send
  <2>5. CallInv'
    BY <1>3 DEF TypeOK, CallInv, Send, Calls
  <2>6. QED
    BY <1>1, <2>4, <2>5
<1>4. ASSUME NEW state \in {"unavailable", "disconnected"}, Raise(c, state),
             UNCHANGED <<connector, wire, evidence, time>>, call[c].at # "idle"
      PROVE  TypeOK' /\ CallInv'
  <2>1. Typed
    BY <1>4, SaveRaiseType DEF TypeOK
  <2>2. CallInv'
    BY <1>4 DEF TypeOK, CallInv, Raise, Ended, Idle
  <2>3. QED
    BY <1>1, <2>1, <2>2
<1>5. CASE Breaks(c)
  <2>1. CASE call' = [call EXCEPT ![c].at = "dialing", ![c].attempt = 1, ![c].answer = NoAnswer]
             /\ UNCHANGED <<connector, wire, evidence, snapshot, time>>
    <3>1. [call[c] EXCEPT !.at = "dialing", !.attempt = 1, !.answer = NoAnswer] \in Calls
      BY <1>0 DEF Calls, Receipts
    <3>2. Typed
      BY <2>1, <3>1 DEF TypeOK
    <3>3. CallInv'
      BY <1>5, <2>1 DEF TypeOK, CallInv, Breaks, Calls
    <3>4. QED
      BY <1>1, <3>2, <3>3
  <2>2. CASE Raise(c, "disconnected")
    BY <1>4, <1>5, <2>2 DEF Breaks, Raise
  <2>3. QED
    BY <1>5, <2>1, <2>2 DEF Breaks
<1>6. CASE Mismatch(c) \/ RefuseFrame(c) \/ CannotRecord(c)
  BY <1>4, <1>6 DEF Mismatch, RefuseFrame, CannotRecord, Raise
<1>7. CASE RefuseReceipt(c) \/ Abandoned(c)
  <2>1. /\ call' = Ended(c, "error") /\ UNCHANGED <<connector, wire, evidence, snapshot, time>>
        /\ call[c].at # "idle"
    BY <1>7 DEF RefuseReceipt, Abandoned, Signed
  <2>2. Typed
    BY <2>1, EndedType DEF TypeOK
  <2>3. CallInv'
    BY <2>1 DEF TypeOK, CallInv, Ended, Idle
  <2>4. QED
    BY <1>1, <2>2, <2>3
<1>8. CASE Verify(c)
  <2>1. [call[c] EXCEPT !.at = "verified", !.observed_at = VpsClock] \in Calls
    BY <1>0, ClockType DEF Calls
  <2>2. Typed
    BY <1>8, <2>1 DEF TypeOK, Verify
  <2>3. CallInv'
    BY <1>8 DEF TypeOK, CallInv, Verify, Signed, Calls
  <2>4. QED
    BY <1>1, <2>2, <2>3
<1>9. CASE Save(c)
  <2>1. PICK o \in {"ok", "error"} :
            call' = Ended(c, o) /\ UNCHANGED <<connector, wire, evidence, time>>
            /\ call[c].at # "idle"
    BY <1>9 DEF Save
  <2>2. \/ snapshot' = snapshot
        \/ snapshot' = Projection(c, StateOf(call[c].answer), call[c].observed_at)
    BY <1>9 DEF Save
  <2>3. StateOf(call[c].answer) \in {"authenticated", "disconnected", "unavailable"}
    BY DEF StateOf
  <2>4. Typed
    BY <2>1, <2>2, <2>3, EndedType DEF TypeOK, Projection
  <2>5. CallInv'
    BY <2>1 DEF TypeOK, CallInv, Ended, Idle
  <2>6. QED
    BY <1>1, <2>4, <2>5
<1>10. QED
  BY <1>2, <1>3, <1>5, <1>6, <1>7, <1>8, <1>9

\* The steps that may write to the ledger.
LEMMA WriteType ==
    ASSUME NEW c \in Callers, TypeOK, CallInv, Record(c) \/ WriteFails(c)
    PROVE  TypeOK' /\ CallInv'
<1>0. call[c] \in Calls
  BY DEF TypeOK
<1>1. call[c].signing = 1 /\ Appendable(c)
  BY DEF CallInv, Record, WriteFails
<1>2. /\ ledger' \in Seq(EarlierRecords \cup Records) /\ Len(ledger') <= MaxRecords
      /\ tail' \in {"clean", "unterminated", "cut"}
      /\ UNCHANGED <<connector, wire, time>>
  BY <1>1, AppendType DEF TypeOK, Record, WriteFails, evidence
<1>3. CASE Record(c)
  <2>1. [call[c] EXCEPT !.at = "recorded"] \in Calls
    BY <1>0 DEF Calls
  <2>2. call' \in [Callers -> Calls] /\ snapshot' = snapshot
    BY <1>3, <2>1 DEF TypeOK, Record
  <2>3. CallInv'
    BY <1>3 DEF TypeOK, CallInv, Record, Calls
  <2>4. QED
    BY <1>2, <2>2, <2>3 DEF TypeOK, connector, time
<1>4. CASE WriteFails(c)
  <2>1. call' = Ended(c, "error")
        /\ snapshot' \in {snapshot, Projection(c, "unavailable", VpsClock)}
    BY <1>4 DEF WriteFails
  <2>2. CallInv'
    BY <1>1, <2>1 DEF TypeOK, CallInv, Ended, Idle
  <2>3. QED
    BY <1>2, <2>1, <2>2, EndedType DEF TypeOK, connector, time, Projection
<1>5. QED
  BY <1>3, <1>4

\* Every variable keeps its type and a call is signed at most once.
THEOREM TypeCorrect == Spec => [](TypeOK /\ CallInv)
<1>1. Init => TypeOK /\ CallInv
  <2> SUFFICES ASSUME Init PROVE TypeOK /\ CallInv
    OBVIOUS
  <2>1. call \in [Callers -> Calls]
    BY IdleType DEF Init
  <2>2. /\ ledger \in Seq(EarlierRecords) /\ Len(ledger) <= MaxRecords
    BY EvidenceAssumption DEF EvidenceAssumption, Init
  <2>3. ledger \in Seq(EarlierRecords \cup Records)
    BY <2>2
  <2>4. CallInv
    BY DEF Init, CallInv, Idle
  <2>5. settled \in [Requests -> {"fresh", "spent", "refused"}] /\ budget \in [{"grant"} -> Nat]
    BY ExchangeAssumption DEF ExchangeAssumption, Init
  <2>6. now \in 0..MaxClock /\ offset \in Offsets
    BY ExchangeAssumption DEF ExchangeAssumption, Init
  <2>7. QED
    BY <2>1, <2>2, <2>3, <2>4, <2>5, <2>6 DEF TypeOK, Init, NoSnapshot
<1>2. TypeOK /\ CallInv /\ [Next]_vars => (TypeOK /\ CallInv)'
  <2> SUFFICES ASSUME TypeOK, CallInv, [Next]_vars PROVE TypeOK' /\ CallInv'
    OBVIOUS
  <2>1. ASSUME NEW m \in wire, Serve(m) PROVE TypeOK' /\ CallInv'
    <3>1. TypeOK'
      BY <2>1, ServeType DEF TypeOK, Serve, evidence, time
    <3>2. PICK a : Reply(m, a)
      BY <2>1 DEF Serve
    <3>3. \A c \in Callers : call'[c] = call[c] \/ call[c].at = "waiting"
      BY <3>2, ReplyKeeps DEF TypeOK, Listening
    <3>4. \A c \in Callers : /\ call'[c].at = call[c].at /\ call'[c].signing = call[c].signing
                             /\ call'[c].outcome = call[c].outcome
      BY <3>2, ReplyKeeps DEF TypeOK
    <3>5. CallInv'
      BY <3>3, <3>4 DEF CallInv
    <3>6. QED
      BY <3>1, <3>5
  <2>2. CASE Tick
    BY <2>2, ExchangeAssumption DEF ExchangeAssumption, TypeOK, CallInv, Tick, connector, evidence
  <2>3. CASE Adjust
    BY <2>3 DEF TypeOK, CallInv, Adjust, connector, evidence
  <2>4. CASE UNCHANGED vars
    BY <2>4 DEF TypeOK, CallInv, vars, connector, evidence, time
  <2>5. QED
    BY <2>1, <2>2, <2>3, <2>4, QuietType, WriteType DEF Next, Proceed
<1>3. QED
  BY <1>1, <1>2, PTL DEF Spec

-----------------------------------------------------------------------------
(* What each step leaves alone.                                            *)

Quiet(c) ==
    \/ Start(c) \/ Send(c) \/ Breaks(c) \/ Mismatch(c) \/ RefuseFrame(c)
    \/ RefuseReceipt(c) \/ Verify(c) \/ CannotRecord(c) \/ Save(c) \/ Abandoned(c)

\* A step that records nothing leaves the Connector and the ledger alone; its call
\* keeps its receipt or drops it, and only Save makes a result or a sign of life of one.
LEMMA QuietFrame ==
    ASSUME NEW c \in Callers, TypeOK, CallInv, Quiet(c)
    PROVE  /\ settled' = settled /\ ledger' = ledger
           /\ \A d \in Callers \ {c} : call'[d] = call[d]
           /\ call[c].at # "ended" /\ call'[c].at # "recorded"
           /\ call[c].at = "recorded" => call'[c].at = "ended"
           /\ \/ call'[c].answer.decision = "none"
              \/ /\ call'[c].answer = call[c].answer /\ call'[c].signing = call[c].signing
                 /\ call'[c].at \in {"dialing", "waiting", "verified"}
           /\ call'[c].outcome = "ok" =>
                 /\ call[c].at = "recorded" /\ call[c].answer.outcome = "ok"
                 /\ call'[c].signing = call[c].signing
           /\ \/ snapshot' = snapshot
              \/ snapshot'.state # "authenticated"
              \/ /\ call[c].at = "recorded"
                 /\ snapshot' = Projection(c, StateOf(call[c].answer), call[c].observed_at)
<1>0. call[c] \in Calls
  BY DEF TypeOK
<1>1. CASE Start(c)
  BY <1>1 DEF Start, Invocation, Idle, NoAnswer, TypeOK, connector, evidence
<1>2. CASE Send(c) \/ Verify(c)
  <2>1. /\ settled' = settled /\ ledger' = ledger /\ snapshot' = snapshot
        /\ \A d \in Callers \ {c} : call'[d] = call[d]
    BY <1>2 DEF Send, Verify, TypeOK, connector, evidence
  <2>2. /\ call[c].at \in {"dialing", "waiting"}
        /\ \/ call'[c] = [call[c] EXCEPT !.at = "waiting"]
           \/ call'[c] = [call[c] EXCEPT !.at = "verified", !.observed_at = VpsClock]
    BY <1>2 DEF Send, Verify, Signed, TypeOK
  <2>3. /\ call'[c].at \in {"waiting", "verified"}
        /\ call'[c].answer = call[c].answer /\ call'[c].signing = call[c].signing
        /\ call'[c].outcome = call[c].outcome
    BY <1>0, <2>2 DEF Calls
  <2>4. call[c].outcome = "none"
    BY <2>2 DEF CallInv
  <2>5. QED
    BY <2>1, <2>2, <2>3, <2>4
<1>3. ASSUME NEW o \in {"ok", "error"}, call' = Ended(c, o)
      PROVE  /\ \A d \in Callers \ {c} : call'[d] = call[d]
             /\ call'[c].at = "ended" /\ call'[c].answer.decision = "none"
             /\ call'[c].outcome = o /\ call'[c].signing = call[c].signing
  BY <1>3 DEF Ended, Idle, NoAnswer, TypeOK
<1>4. ASSUME NEW state \in {"unavailable", "disconnected"}, Raise(c, state)
      PROVE  /\ settled' = settled /\ ledger' = ledger
             /\ snapshot' = snapshot \/ snapshot'.state # "authenticated"
             /\ call' = Ended(c, "error")
  BY <1>4 DEF Raise, Projection, connector, evidence
<1>5. CASE Breaks(c)
  <2>1. CASE call' = [call EXCEPT ![c].at = "dialing", ![c].attempt = 1, ![c].answer = NoAnswer]
             /\ UNCHANGED <<connector, wire, evidence, snapshot, time>>
    <3>1. call'[c] = [call[c] EXCEPT !.at = "dialing", !.attempt = 1, !.answer = NoAnswer]
          /\ \A d \in Callers \ {c} : call'[d] = call[d]
      BY <2>1 DEF TypeOK
    <3>2. /\ call'[c].at = "dialing" /\ call'[c].answer.decision = "none"
          /\ call'[c].outcome = call[c].outcome
      BY <1>0, <3>1 DEF Calls, NoAnswer
    <3>3. QED
      BY <1>5, <2>1, <3>1, <3>2 DEF Breaks, CallInv, connector, evidence
  <2>2. CASE Raise(c, "disconnected")
    BY <1>3, <1>4, <1>5, <2>2 DEF Breaks
  <2>3. QED
    BY <1>5, <2>1, <2>2 DEF Breaks
<1>6. CASE Mismatch(c) \/ RefuseFrame(c) \/ CannotRecord(c)
  <2>1. Raise(c, "unavailable") /\ call[c].at \notin {"ended", "recorded"}
    BY <1>6 DEF Mismatch, RefuseFrame, CannotRecord
  <2>2. QED
    BY <1>3, <1>4, <2>1
<1>7. CASE RefuseReceipt(c) \/ Abandoned(c)
  <2>1. /\ call' = Ended(c, "error") /\ call[c].at # "ended"
        /\ UNCHANGED <<connector, wire, evidence, snapshot, time>>
    BY <1>7 DEF RefuseReceipt, Abandoned, Signed
  <2>2. QED
    BY <1>3, <2>1 DEF connector, evidence
<1>8. CASE Save(c)
  <2>1. /\ call[c].at = "recorded" /\ settled' = settled /\ ledger' = ledger
        /\ \/ snapshot' = snapshot
           \/ snapshot' = Projection(c, StateOf(call[c].answer), call[c].observed_at)
    BY <1>8 DEF Save, connector, evidence
  <2>2. PICK o \in {"ok", "error"} :
            call' = Ended(c, o) /\ (o = "ok" => call[c].answer.outcome = "ok")
    BY <1>8 DEF Save
  <2>3. QED
    BY <1>3, <2>1, <2>2
<1>9. QED
  BY <1>1, <1>2, <1>5, <1>6, <1>7, <1>8 DEF Quiet

\* A step that may write ends its call, or appends the record of the call's receipt
\* and goes on with it.
LEMMA WriteFrame ==
    ASSUME NEW c \in Callers, TypeOK, CallInv, Record(c) \/ WriteFails(c)
    PROVE  /\ settled' = settled
           /\ \A d \in Callers \ {c} : call'[d] = call[d]
           /\ call[c].at = "verified" /\ call[c].signing = 1 /\ Appendable(c)
           /\ call[c].answer.decision # "none"
           /\ ledger' = ledger \/ ledger' = Append(ledger, RecordOf(c))
           /\ \/ /\ call'[c].at = "ended" /\ call'[c].answer.decision = "none"
                 /\ call'[c].outcome = "error"
              \/ /\ call'[c].at = "recorded" /\ call'[c].outcome = "none"
                 /\ call'[c].answer = call[c].answer /\ call'[c].signing = call[c].signing
                 /\ RecordOf(c)' = RecordOf(c)
                 /\ ledger' = Append(ledger, RecordOf(c))
           /\ snapshot' = snapshot \/ snapshot'.state # "authenticated"
<1>0. call[c] \in Calls
  BY DEF TypeOK
<1>1. /\ call[c].at = "verified" /\ call[c].signing = 1 /\ Appendable(c)
      /\ call[c].answer.decision # "none" /\ call[c].outcome = "none"
  BY DEF Record, WriteFails, CallInv
<1>2. CASE Record(c)
  <2>1. call'[c] = [call[c] EXCEPT !.at = "recorded"] /\ \A d \in Callers \ {c} : call'[d] = call[d]
    BY <1>2 DEF Record, TypeOK
  <2>2. /\ call'[c].at = "recorded" /\ call'[c].answer = call[c].answer
        /\ call'[c].signing = call[c].signing /\ call'[c].attempt = call[c].attempt
        /\ call'[c].observed_at = call[c].observed_at /\ call'[c].outcome = call[c].outcome
    BY <1>0, <2>1 DEF Calls
  <2>3. RecordOf(c)' = RecordOf(c)
    BY <2>2 DEF RecordOf, Request
  <2>4. ledger' = Append(ledger, RecordOf(c)) /\ settled' = settled /\ snapshot' = snapshot
    BY <1>2 DEF Record, connector
  <2>5. QED
    BY <1>1, <2>1, <2>2, <2>3, <2>4
<1>3. CASE WriteFails(c)
  <2>1. /\ \A d \in Callers \ {c} : call'[d] = call[d]
        /\ call'[c].at = "ended" /\ call'[c].answer.decision = "none"
        /\ call'[c].outcome = "error"
    BY <1>3 DEF WriteFails, Ended, Idle, NoAnswer, TypeOK
  <2>2. /\ settled' = settled
        /\ ledger' = ledger \/ ledger' = Append(ledger, RecordOf(c))
        /\ snapshot' = snapshot \/ snapshot'.state # "authenticated"
    BY <1>3 DEF WriteFails, connector, evidence, Projection
  <2>3. QED
    BY <1>1, <2>1, <2>2
<1>4. QED
  BY <1>2, <1>3

\* A request arrives: what is settled stays so, nothing is recorded, and an answer
\* that is signed is true when it is given.
LEMMA ServeFrame ==
    ASSUME NEW m \in wire, TypeOK, Serve(m)
    PROVE  /\ ledger' = ledger /\ snapshot' = snapshot
           /\ \A r \in Requests : settled'[r] = settled[r] \/ (r = m.request /\ settled[r] = "fresh")
           /\ \E a : Reply(m, a) /\ (a.decision # "none" => Truthful(a, m.request)')
<1>1. m.request \in Requests
  BY DEF TypeOK
<1>2. ledger' = ledger /\ snapshot' = snapshot
  BY DEF Serve, evidence
<1>3. CASE /\ Authority!Spend(m.request)
           /\ \E o \in BackendOutcomes : Reply(m, [decision |-> "allow", outcome |-> o])
  <2>1. PICK o \in BackendOutcomes : Reply(m, [decision |-> "allow", outcome |-> o])
    BY <1>3
  <2>2. settled[m.request] = "fresh" /\ settled' = [settled EXCEPT ![m.request] = "spent"]
    BY <1>3 DEF Authority!Spend
  <2>3. Truthful([decision |-> "allow", outcome |-> o], m.request)'
    BY <1>1, <2>2 DEF Truthful, TypeOK
  <2>4. QED
    BY <1>1, <1>2, <2>1, <2>2, <2>3 DEF TypeOK
<1>4. CASE /\ Authority!Refuse(m.request)
           /\ Reply(m, [decision |-> "deny", outcome |-> "denied"])
  <2>1. settled[m.request] = "fresh" /\ settled' = [settled EXCEPT ![m.request] = "refused"]
    BY <1>4 DEF Authority!Refuse
  <2>2. Truthful([decision |-> "deny", outcome |-> "denied"], m.request)'
    BY <1>1, <2>1 DEF Truthful, TypeOK
  <2>3. QED
    BY <1>1, <1>2, <1>4, <2>1, <2>2 DEF TypeOK
<1>5. CASE /\ settled[m.request] # "fresh" /\ UNCHANGED connector
           /\ Reply(m, [decision |-> "deny", outcome |-> "replayed"])
  <2>1. Truthful([decision |-> "deny", outcome |-> "replayed"], m.request)'
    BY <1>5 DEF Truthful, connector
  <2>2. QED
    BY <1>2, <1>5, <2>1 DEF connector
<1>6. CASE Reply(m, ErrorFrame) /\ UNCHANGED connector
  BY <1>2, <1>6 DEF ErrorFrame, connector
<1>7. QED
  BY <1>3, <1>4, <1>5, <1>6 DEF Serve

-----------------------------------------------------------------------------
(* One use for each call.                                                  *)

\* A step is one of four kinds.
LEMMA StepKinds ==
    ASSUME [Next]_vars
    PROVE  \/ \E m \in wire : Serve(m)
           \/ \E c \in Callers : Quiet(c)
           \/ \E c \in Callers : Record(c) \/ WriteFails(c)
           \/ UNCHANGED <<connector, wire, call, evidence, snapshot>>
  BY DEF Next, Proceed, Quiet, Tick, Adjust, vars

\* Only first signings travel, and no second one is ever settled.
FirstSigningOnly ==
    /\ \A m \in wire : m.request[2] = 1
    /\ \A c \in Callers : settled[<<c, 2>>] = "fresh"

\* One tool call costs at most one use, however often it is sent.
THEOREM OneUse == Spec => []OneUsePerCall
<1>1. Init => FirstSigningOnly
  BY DEF Init, FirstSigningOnly, Requests
<1>2. TypeOK /\ CallInv /\ FirstSigningOnly /\ [Next]_vars => FirstSigningOnly'
  <2> SUFFICES ASSUME TypeOK, CallInv, FirstSigningOnly, [Next]_vars
               PROVE  FirstSigningOnly'
    OBVIOUS
  <2>1. ASSUME NEW m \in wire, Serve(m) PROVE FirstSigningOnly'
    <3>1. wire' \subseteq wire
      BY <2>1, ServeType
    <3>2. ASSUME NEW c \in Callers PROVE <<c, 2>> \in Requests /\ <<c, 2>> # m.request
      <4>1. <<c, 2>>[2] = 2 /\ m.request[2] = 1
        BY DEF FirstSigningOnly
      <4>2. <<c, 2>> # m.request
        BY <4>1
      <4>3. QED
        BY <4>2 DEF Requests
    <3>3. \A r \in Requests : r # m.request => settled'[r] = settled[r]
      BY <2>1, ServeFrame
    <3>4. QED
      BY <3>1, <3>2, <3>3 DEF FirstSigningOnly
  <2>2. ASSUME NEW c \in Callers, Quiet(c) PROVE FirstSigningOnly'
    <3>1. settled' = settled
      BY <2>2, QuietFrame
    <3>2. CASE Send(c)
      <4>1. call[c].signing = 1
        BY <3>2 DEF Send, CallInv
      <4>2. Request(c)[2] = 1
        BY <4>1 DEF Request
      <4>3. QED
        BY <3>1, <3>2, <4>2 DEF Send, FirstSigningOnly
    <3>3. CASE ~Send(c)
      <4>1. wire' = wire
        BY <2>2, <3>3 DEF Quiet, Start, Breaks, Mismatch, RefuseFrame, RefuseReceipt, Verify,
                          CannotRecord, Save, Abandoned, Raise
      <4>2. QED
        BY <3>1, <4>1 DEF FirstSigningOnly
    <3>4. QED
      BY <3>2, <3>3
  <2>3. ASSUME NEW c \in Callers, Record(c) \/ WriteFails(c) PROVE FirstSigningOnly'
    BY <2>3 DEF Record, WriteFails, connector, FirstSigningOnly
  <2>4. CASE UNCHANGED <<connector, wire, call, evidence, snapshot>>
    BY <2>4 DEF connector, FirstSigningOnly
  <2>5. QED
    BY <2>1, <2>2, <2>3, <2>4, StepKinds
<1>3. FirstSigningOnly => OneUsePerCall
  BY DEF FirstSigningOnly, OneUsePerCall
<1>4. QED
  BY <1>1, <1>2, <1>3, TypeCorrect, PTL DEF Spec

-----------------------------------------------------------------------------
(* The ledger.                                                             *)

\* The ledger only grows at its end, by a record of the call that writes.
LEMMA LedgerStep ==
    ASSUME TypeOK, CallInv, [Next]_vars
    PROVE  \/ ledger' = ledger
           \/ \E c \in Callers :
                 /\ Record(c) \/ WriteFails(c)
                 /\ Appendable(c) /\ call[c].signing = 1
                 /\ Len(ledger') = Len(ledger) + 1
                 /\ ledger'[Len(ledger) + 1] = RecordOf(c)
                 /\ \A i \in 1..Len(ledger) : ledger'[i] = ledger[i]
<1>1. ASSUME NEW c \in Callers, Record(c) \/ WriteFails(c), ledger' # ledger
      PROVE  /\ Appendable(c) /\ call[c].signing = 1
             /\ Len(ledger') = Len(ledger) + 1
             /\ ledger'[Len(ledger) + 1] = RecordOf(c)
             /\ \A i \in 1..Len(ledger) : ledger'[i] = ledger[i]
  BY <1>1, WriteFrame, AppendType
<1>2. QED
  BY <1>1, StepKinds, ServeFrame, QuietFrame DEF evidence

\* What is recorded is stamped with an integer.
LEMMA RecordedAtInt ==
    ASSUME TypeOK, NEW i \in 1..Len(ledger)
    PROVE  ledger[i].recorded_at \in Int
<1>1. ledger[i] \in EarlierRecords \cup Records
  BY DEF TypeOK
<1>2. QED
  BY <1>1, EvidenceAssumption DEF EvidenceAssumption, Records

\* The times of the ledger never go back, whichever process wrote and by which clock.
THEOREM Chronological == Spec => []TimesNeverGoBack
<1>1. Init => TimesNeverGoBack
  BY EvidenceAssumption DEF EvidenceAssumption, Init, TimesNeverGoBack
<1>2. TypeOK /\ CallInv /\ TimesNeverGoBack /\ [Next]_vars => TimesNeverGoBack'
  <2> SUFFICES ASSUME TypeOK, CallInv, TimesNeverGoBack, [Next]_vars
               PROVE  TimesNeverGoBack'
    OBVIOUS
  <2>1. CASE ledger' = ledger
    BY <2>1 DEF TimesNeverGoBack
  <2>2. ASSUME NEW c \in Callers, Appendable(c),
               Len(ledger') = Len(ledger) + 1,
               ledger'[Len(ledger) + 1] = RecordOf(c),
               \A i \in 1..Len(ledger) : ledger'[i] = ledger[i]
        PROVE  TimesNeverGoBack'
    <3> DEFINE n == Len(ledger)
    <3>1. n \in Nat
      BY DEF TypeOK
    <3>2. call[c].observed_at \in Int /\ RecordOf(c).recorded_at = call[c].observed_at
      BY DEF TypeOK, Calls, RecordOf
    <3>3. n > 0 => ledger[n].recorded_at <= call[c].observed_at
      BY <2>2, <3>1 DEF Appendable
    <3>4. \A i \in 1..n : ledger[i].recorded_at <= call[c].observed_at
      <4> SUFFICES ASSUME NEW i \in 1..n PROVE ledger[i].recorded_at <= call[c].observed_at
        OBVIOUS
      <4>1. ledger[i].recorded_at \in Int /\ ledger[n].recorded_at \in Int
        BY <3>1, RecordedAtInt
      <4>2. ledger[i].recorded_at <= ledger[n].recorded_at
        BY <3>1 DEF TimesNeverGoBack
      <4>3. QED
        BY <3>1, <3>2, <3>3, <4>1, <4>2
    <3>5. ASSUME NEW i \in 1..(n + 1), NEW j \in 1..(n + 1), i <= j
          PROVE  ledger'[i].recorded_at <= ledger'[j].recorded_at
      <4>1. CASE j \in 1..n
        BY <2>2, <3>1, <3>5, <4>1 DEF TimesNeverGoBack
      <4>2. CASE j = n + 1 /\ i \in 1..n
        BY <2>2, <3>2, <3>4, <4>2
      <4>3. CASE i = n + 1 /\ j = n + 1
        BY <2>2, <3>2, <4>3
      <4>4. QED
        BY <3>1, <3>5, <4>1, <4>2, <4>3
    <3>6. QED
      BY <2>2, <3>5 DEF TimesNeverGoBack
  <2>3. QED
    BY <2>1, <2>2, LedgerStep
<1>3. QED
  BY <1>1, <1>2, TypeCorrect, PTL DEF Spec

-----------------------------------------------------------------------------
(* What the ledger says is true.                                           *)

\* A receipt in hand belongs to a call under way, and is true of its request.
AnswersAreTrue ==
    \A c \in Callers : call[c].answer.decision # "none" =>
        call[c].at \notin {"idle", "ended"} /\ Truthful(call[c].answer, Request(c))

\* A record on file is true of its request, and its call writes no more.
RecordsAreTrue ==
    \A i \in 1..Len(ledger) : ledger[i].request \in Requests =>
        /\ Truthful(ledger[i].receipt, ledger[i].request)
        /\ call[ledger[i].request[1]].at \in {"recorded", "ended"}

EvidenceInv == AnswersAreTrue /\ RecordsAreTrue /\ EvidenceMatchesAuthority

\* What is settled stays as it is.
LEMMA SettledStays ==
    ASSUME TypeOK, CallInv, [Next]_vars, NEW r \in Requests, settled[r] # "fresh"
    PROVE  settled'[r] = settled[r]
  BY StepKinds, ServeFrame, QuietFrame, WriteFrame DEF connector

\* A call that has a record goes on to its end and takes up no other.
LEMMA RecordedEnds ==
    ASSUME TypeOK, CallInv, [Next]_vars, NEW c \in Callers, call[c].at \in {"recorded", "ended"}
    PROVE  call'[c].at \in {"recorded", "ended"}
<1>1. ASSUME NEW m \in wire, Serve(m) PROVE call'[c].at = call[c].at
  BY <1>1, ServeFrame, ReplyKeeps DEF TypeOK
<1>2. ASSUME NEW d \in Callers, Quiet(d) PROVE call'[c].at \in {"recorded", "ended"}
  BY <1>2, QuietFrame
<1>3. ASSUME NEW d \in Callers, Record(d) \/ WriteFails(d)
      PROVE  call'[c].at \in {"recorded", "ended"}
  BY <1>3, WriteFrame
<1>4. QED
  BY <1>1, <1>2, <1>3, StepKinds

\* A request that is signed is one of the requests.
LEMMA RequestType ==
    ASSUME NEW c \in Callers, TypeOK, CallInv, call[c].signing = 1
    PROVE  Request(c) \in Requests /\ Request(c)[1] = c
  BY DEF Request, Requests

\* An answer is taken only while a call waits for one, and by the call that sent
\* the request it answers.
LEMMA AnswersStayTrue ==
    ASSUME TypeOK, CallInv, [Next]_vars, AnswersAreTrue
    PROVE  AnswersAreTrue'
<1> DEFINE Good(d) == call[d].at \notin {"idle", "ended"} /\ Truthful(call[d].answer, Request(d))
<1> SUFFICES ASSUME NEW d \in Callers, call'[d].answer.decision # "none"
             PROVE  Good(d)'
  BY DEF AnswersAreTrue
<1>1. ASSUME call'[d].answer = call[d].answer, call'[d].signing = call[d].signing,
             call'[d].at \notin {"idle", "ended"}
      PROVE  Good(d)'
  <2>1. call[d].answer.decision # "none" /\ Request(d)' = Request(d)
    BY <1>1 DEF Request
  <2>2. Truthful(call[d].answer, Request(d)) /\ Request(d) \in Requests
    BY <2>1, RequestType DEF AnswersAreTrue, CallInv
  <2>3. settled'[Request(d)] = settled[Request(d)]
    BY <2>2, SettledStays DEF Truthful
  <2>4. QED
    BY <1>1, <2>1, <2>2, <2>3 DEF Truthful
<1>2. ASSUME call'[d] = call[d] PROVE Good(d)'
  BY <1>1, <1>2 DEF AnswersAreTrue
<1>3. ASSUME NEW m \in wire, Serve(m) PROVE Good(d)'
  <2>1. PICK a : Reply(m, a) /\ (a.decision # "none" => Truthful(a, m.request)')
    BY <1>3, ServeFrame
  <2>2. /\ call'[d].at = call[d].at /\ call'[d].signing = call[d].signing
        /\ call'[d] = call[d] \/ (Listening(m) /\ d = m.request[1] /\ call'[d].answer = a)
    BY <2>1, ReplyKeeps DEF TypeOK
  <2>3. CASE Listening(m) /\ d = m.request[1] /\ call'[d].answer = a
    <3>1. m.request = <<m.request[1], m.request[2]>>
      BY DEF TypeOK, Requests
    <3>2. m.request = Request(d)' /\ call'[d].at = "waiting"
      BY <2>2, <2>3, <3>1 DEF Listening, Request
    <3>3. QED
      BY <2>1, <2>3, <3>2 DEF Truthful
  <2>4. QED
    BY <1>2, <2>2, <2>3
<1>4. ASSUME NEW c \in Callers, Quiet(c) PROVE Good(d)'
  <2> HIDE DEF Good
  <2>1. QED
    BY <1>1, <1>2, <1>4, QuietFrame
<1>5. ASSUME NEW c \in Callers, Record(c) \/ WriteFails(c) PROVE Good(d)'
  <2> HIDE DEF Good
  <2>1. QED
    BY <1>1, <1>2, <1>5, WriteFrame
<1>6. QED
  <2> HIDE DEF Good
  <2>1. QED
    BY <1>2, <1>3, <1>4, <1>5, StepKinds

\* A record is true when it is written, and the only one of its request.
LEMMA RecordsStayTrue ==
    ASSUME TypeOK, CallInv, [Next]_vars, EvidenceInv
    PROVE  RecordsAreTrue' /\ EvidenceMatchesAuthority'
<1> DEFINE Good(i) == ledger[i].request \in Requests =>
                        /\ Truthful(ledger[i].receipt, ledger[i].request)
                        /\ call[ledger[i].request[1]].at \in {"recorded", "ended"}
           Alone(i) == ledger[i].request \in Requests =>
                         \A j \in 1..Len(ledger) : ledger[j].request = ledger[i].request => i = j
<1>0. \A r \in Requests : r[1] \in Callers
  BY DEF Requests
<1>1. ASSUME NEW i \in 1..Len(ledger), ledger'[i] = ledger[i] PROVE Good(i)'
  <2> SUFFICES ASSUME ledger[i].request \in Requests PROVE Good(i)'
    BY <1>1
  <2>1. /\ Truthful(ledger[i].receipt, ledger[i].request)
        /\ call[ledger[i].request[1]].at \in {"recorded", "ended"}
    BY DEF EvidenceInv, RecordsAreTrue
  <2>2. settled'[ledger[i].request] = settled[ledger[i].request]
    BY <2>1, SettledStays DEF Truthful
  <2>3. call'[ledger[i].request[1]].at \in {"recorded", "ended"}
    BY <1>0, <2>1, RecordedEnds
  <2>4. QED
    BY <1>1, <2>1, <2>2, <2>3 DEF Truthful
<1>2. CASE ledger' = ledger
  <2>1. RecordsAreTrue'
    BY <1>1, <1>2 DEF RecordsAreTrue
  <2>2. \A i \in 1..Len(ledger) : Alone(i)
    BY DEF EvidenceInv, EvidenceMatchesAuthority
  <2>3. QED
    BY <1>2, <2>1, <2>2 DEF RecordsAreTrue, EvidenceMatchesAuthority
<1>3. ASSUME NEW c \in Callers, Record(c) \/ WriteFails(c), call[c].signing = 1,
             Len(ledger') = Len(ledger) + 1, ledger'[Len(ledger) + 1] = RecordOf(c),
             \A i \in 1..Len(ledger) : ledger'[i] = ledger[i]
      PROVE  RecordsAreTrue' /\ EvidenceMatchesAuthority'
  <2> DEFINE n == Len(ledger)
  <2>1. n \in Nat
    BY DEF TypeOK
  <2>2. /\ call[c].at = "verified" /\ call[c].answer.decision # "none"
        /\ call'[c].at \in {"recorded", "ended"} /\ settled' = settled
    BY <1>3, WriteFrame
  <2>3. /\ Request(c) \in Requests /\ Request(c)[1] = c
        /\ Truthful(call[c].answer, Request(c))
    BY <1>3, <2>2, RequestType DEF EvidenceInv, AnswersAreTrue
  <2>4. /\ ledger'[n + 1].request = Request(c)
        /\ ledger'[n + 1].receipt = call[c].answer
    BY <1>3 DEF RecordOf
  <2>5. ASSUME NEW k \in Nat, k = n + 1 PROVE Good(k)'
    BY <2>2, <2>3, <2>4, <2>5 DEF Truthful
  <2>6. RecordsAreTrue'
    <3>1. ASSUME NEW i \in 1..(n + 1) PROVE Good(i)'
      <4>1. CASE i \in 1..n
        BY <1>1, <1>3, <4>1
      <4>2. CASE i = n + 1
        BY <2>1, <2>5, <4>2
      <4>3. QED
        BY <2>1, <4>1, <4>2
    <3>2. QED
      BY <1>3, <3>1 DEF RecordsAreTrue
  <2>7. \A i \in 1..n : ledger[i].request # Request(c)
    BY <2>2, <2>3 DEF EvidenceInv, RecordsAreTrue
  <2>8. ASSUME NEW i \in 1..(n + 1), NEW j \in 1..(n + 1),
               ledger'[i].request \in Requests, ledger'[j].request = ledger'[i].request
        PROVE  i = j
    <3>1. CASE i \in 1..n /\ j \in 1..n
      BY <1>3, <2>8, <3>1 DEF EvidenceInv, EvidenceMatchesAuthority
    <3>2. CASE i = n + 1 /\ j \in 1..n
      BY <1>3, <2>4, <2>7, <2>8, <3>2
    <3>3. CASE i \in 1..n /\ j = n + 1
      BY <1>3, <2>4, <2>7, <2>8, <3>3
    <3>4. QED
      BY <2>1, <3>1, <3>2, <3>3
  <2>9. QED
    BY <1>3, <2>6, <2>8 DEF RecordsAreTrue, EvidenceMatchesAuthority
<1>4. QED
  BY <1>2, <1>3, LedgerStep

\* The inductive invariant behind the theorems on evidence.
LEMMA EvidenceInvariant == Spec => [](TypeOK /\ CallInv /\ EvidenceInv)
<1>1. Init => EvidenceInv
  <2> SUFFICES ASSUME Init PROVE EvidenceInv
    OBVIOUS
  <2>1. AnswersAreTrue
    BY DEF Init, AnswersAreTrue, Idle, NoAnswer
  <2>2. \A i \in 1..Len(ledger) : ledger[i].request \notin Requests
    <3>1. ledger \in Seq(EarlierRecords)
      BY EvidenceAssumption DEF EvidenceAssumption, Init
    <3>2. QED
      BY <3>1, EvidenceAssumption DEF EvidenceAssumption
  <2>3. QED
    BY <2>1, <2>2 DEF EvidenceInv, RecordsAreTrue, EvidenceMatchesAuthority
<1>2. TypeOK /\ CallInv /\ EvidenceInv /\ [Next]_vars => EvidenceInv'
  BY AnswersStayTrue, RecordsStayTrue DEF EvidenceInv
<1>3. QED
  BY <1>1, <1>2, TypeCorrect, PTL DEF Spec

\* What the ledger says of a request is what the Connector settled, and no request
\* is there twice.
THEOREM EvidenceIsTrue == Spec => []EvidenceMatchesAuthority
<1>1. EvidenceInv => EvidenceMatchesAuthority
  BY DEF EvidenceInv
<1>2. QED
  BY <1>1, EvidenceInvariant, PTL

-----------------------------------------------------------------------------
(* Results and availability.                                               *)

\* A call that has recorded its receipt finds that very record on file.
RecordIsThere ==
    \A c \in Callers : call[c].at = "recorded" =>
        \E i \in 1..Len(ledger) : ledger[i] = RecordOf(c)

\* A snapshot that shows an operation as available has the record it was made of.
SnapshotIsBacked ==
    snapshot.state = "authenticated" =>
        \E i \in 1..Len(ledger) :
            /\ ledger[i].recorded_at = snapshot.observed_at
            /\ ledger[i].receipt.decision = "allow"
            /\ OperationOf[ledger[i].request[1]] = snapshot.operation

ResultInv == RecordIsThere /\ ResultIsRecorded /\ SnapshotIsBacked

\* The outcomes of an execution come only with its receipt.
LEMMA ExecutedReceipts ==
    ASSUME NEW a \in Receipts, a.outcome \in {"ok", "invalid_input"}
    PROVE  a = [decision |-> "allow", outcome |-> a.outcome]
  BY DEF Receipts, NoAnswer, ErrorFrame

\* What is on file stays where it is.
LEMMA LedgerKeeps ==
    ASSUME TypeOK, CallInv, [Next]_vars, NEW i \in 1..Len(ledger)
    PROVE  i \in 1..Len(ledger') /\ ledger'[i] = ledger[i]
<1>1. Len(ledger) \in Nat
  BY DEF TypeOK
<1>2. QED
  BY <1>1, LedgerStep

\* A call that is recorded has just appended its record, or had it before.
LEMMA RecordStaysThere ==
    ASSUME TypeOK, CallInv, [Next]_vars, RecordIsThere
    PROVE  RecordIsThere'
<1> SUFFICES ASSUME NEW d \in Callers, call'[d].at = "recorded"
             PROVE  \E i \in 1..Len(ledger') : ledger'[i] = RecordOf(d)'
  BY DEF RecordIsThere
<1>1. ASSUME call'[d] = call[d]
      PROVE  \E i \in 1..Len(ledger') : ledger'[i] = RecordOf(d)'
  <2>1. RecordOf(d)' = RecordOf(d)
    BY <1>1 DEF RecordOf, Request
  <2>2. PICK i \in 1..Len(ledger) : ledger[i] = RecordOf(d)
    BY <1>1 DEF RecordIsThere
  <2>3. QED
    BY <2>1, <2>2, LedgerKeeps
<1>2. ASSUME NEW m \in wire, Serve(m) PROVE call'[d] = call[d]
  <2>1. PICK a : Reply(m, a)
    BY <1>2, ServeFrame
  <2>2. QED
    BY <2>1, ReplyKeeps DEF TypeOK, Listening
<1>3. ASSUME NEW c \in Callers, Quiet(c) PROVE call'[d] = call[d]
  BY <1>3, QuietFrame
<1>4. ASSUME NEW c \in Callers, Record(c) \/ WriteFails(c)
      PROVE  \E i \in 1..Len(ledger') : ledger'[i] = RecordOf(d)'
  <2>1. CASE d # c
    BY <1>1, <1>4, <2>1, WriteFrame
  <2>2. CASE d = c
    <3>1. /\ RecordOf(d)' = RecordOf(d) /\ ledger' = Append(ledger, RecordOf(d))
          /\ Appendable(d) /\ call[d].signing = 1
      BY <1>4, <2>2, WriteFrame
    <3>2. /\ Len(ledger') = Len(ledger) + 1 /\ Len(ledger) \in Nat
          /\ ledger'[Len(ledger) + 1] = RecordOf(d)
      BY <3>1, AppendType DEF TypeOK
    <3>3. QED
      BY <3>1, <3>2
  <2>3. QED
    BY <2>1, <2>2
<1>5. QED
  BY <1>1, <1>2, <1>3, <1>4, StepKinds

\* A result is returned only for a call that has recorded its receipt.
LEMMA ResultsStayRecorded ==
    ASSUME TypeOK, CallInv, [Next]_vars, EvidenceInv, ResultInv
    PROVE  ResultIsRecorded'
<1> SUFFICES ASSUME NEW d \in Callers, call'[d].outcome = "ok"
             PROVE  /\ settled'[Request(d)'] = "spent"
                    /\ \E i \in 1..Len(ledger') :
                         /\ ledger'[i].request = Request(d)'
                         /\ ledger'[i].receipt = [decision |-> "allow", outcome |-> "ok"]
  BY DEF ResultIsRecorded
<1>1. ASSUME call[d].signing = 1, call'[d].signing = call[d].signing,
             settled[Request(d)] = "spent",
             NEW i \in 1..Len(ledger), ledger[i].request = Request(d),
             ledger[i].receipt = [decision |-> "allow", outcome |-> "ok"]
      PROVE  /\ settled'[Request(d)'] = "spent"
             /\ \E j \in 1..Len(ledger') :
                  /\ ledger'[j].request = Request(d)'
                  /\ ledger'[j].receipt = [decision |-> "allow", outcome |-> "ok"]
  <2>1. Request(d)' = Request(d) /\ Request(d) \in Requests
    BY <1>1, RequestType DEF Request
  <2>2. settled'[Request(d)] = "spent"
    BY <1>1, <2>1, SettledStays
  <2>3. QED
    BY <1>1, <2>1, <2>2, LedgerKeeps
<1>2. CASE call[d].outcome = "ok" /\ call'[d].signing = call[d].signing
  <2>2. PICK i \in 1..Len(ledger) : /\ ledger[i].request = Request(d)
                                    /\ ledger[i].receipt = [decision |-> "allow", outcome |-> "ok"]
    BY <1>2 DEF ResultInv, ResultIsRecorded
  <2>3. settled[Request(d)] = "spent"
    BY <1>2 DEF ResultInv, ResultIsRecorded
  <2>4. call[d].signing = 1
    BY <1>2 DEF CallInv, TypeOK, Calls
  <2>5. QED
    BY <1>1, <1>2, <2>2, <2>3, <2>4
<1>3. CASE /\ call[d].at = "recorded" /\ call[d].answer.outcome = "ok"
           /\ call'[d].signing = call[d].signing
  <2>1. call[d].answer \in Receipts
    BY DEF TypeOK, Calls
  <2>2. call[d].answer = [decision |-> "allow", outcome |-> "ok"]
    BY <1>3, <2>1, ExecutedReceipts
  <2>3. settled[Request(d)] = "spent"
    BY <2>2 DEF EvidenceInv, AnswersAreTrue, Truthful
  <2>4. PICK i \in 1..Len(ledger) : ledger[i] = RecordOf(d)
    BY <1>3 DEF ResultInv, RecordIsThere
  <2>5. ledger[i].request = Request(d) /\ ledger[i].receipt = call[d].answer
    BY <2>4 DEF RecordOf
  <2>6. call[d].signing = 1
    BY <1>3 DEF CallInv
  <2>7. QED
    BY <1>1, <1>3, <2>2, <2>3, <2>5, <2>6
<1>4. ASSUME NEW m \in wire, Serve(m)
      PROVE  call[d].outcome = "ok" /\ call'[d].signing = call[d].signing
  BY <1>4, ServeFrame, ReplyKeeps DEF TypeOK
<1>5. ASSUME NEW c \in Callers, Quiet(c), d # c
      PROVE  call[d].outcome = "ok" /\ call'[d].signing = call[d].signing
  BY <1>5, QuietFrame
<1>6. ASSUME Quiet(d)
      PROVE  /\ call[d].at = "recorded" /\ call[d].answer.outcome = "ok"
             /\ call'[d].signing = call[d].signing
  BY <1>6, QuietFrame
<1>7. ASSUME NEW c \in Callers, Record(c) \/ WriteFails(c)
      PROVE  call[d].outcome = "ok" /\ call'[d].signing = call[d].signing
  BY <1>7, WriteFrame
<1>8. QED
  BY <1>2, <1>3, <1>4, <1>5, <1>6, <1>7, StepKinds

\* Only a receipt on record makes an operation available.
LEMMA SnapshotStaysBacked ==
    ASSUME TypeOK, CallInv, [Next]_vars, ResultInv
    PROVE  SnapshotIsBacked'
<1>1. ASSUME snapshot' = snapshot PROVE SnapshotIsBacked'
  <2> SUFFICES ASSUME snapshot.state = "authenticated" PROVE SnapshotIsBacked'
    BY <1>1 DEF SnapshotIsBacked
  <2>1. PICK i \in 1..Len(ledger) :
            /\ ledger[i].recorded_at = snapshot.observed_at
            /\ ledger[i].receipt.decision = "allow"
            /\ OperationOf[ledger[i].request[1]] = snapshot.operation
    BY DEF ResultInv, SnapshotIsBacked
  <2>2. i \in 1..Len(ledger') /\ ledger'[i] = ledger[i]
    BY LedgerKeeps
  <2>3. QED
    BY <1>1, <2>1, <2>2 DEF SnapshotIsBacked
<1>2. ASSUME snapshot'.state # "authenticated" PROVE SnapshotIsBacked'
  BY <1>2 DEF SnapshotIsBacked
<1>3. ASSUME NEW c \in Callers, call[c].at = "recorded",
             snapshot' = Projection(c, StateOf(call[c].answer), call[c].observed_at)
      PROVE  SnapshotIsBacked'
  <2> SUFFICES ASSUME StateOf(call[c].answer) = "authenticated" PROVE SnapshotIsBacked'
    BY <1>2, <1>3 DEF Projection
  <2>1. call[c].answer \in Receipts
    BY DEF TypeOK, Calls
  <2>2. call[c].answer.outcome \in {"ok", "invalid_input"}
    BY DEF StateOf
  <2>3. call[c].answer.decision = "allow"
    BY <2>1, <2>2, ExecutedReceipts
  <2>4. PICK i \in 1..Len(ledger) : ledger[i] = RecordOf(c)
    BY <1>3 DEF ResultInv, RecordIsThere
  <2>5. /\ ledger[i].recorded_at = call[c].observed_at
        /\ ledger[i].receipt.decision = "allow"
        /\ ledger[i].request[1] = c
    BY <2>3, <2>4 DEF RecordOf, Request
  <2>6. i \in 1..Len(ledger') /\ ledger'[i] = ledger[i]
    BY LedgerKeeps
  <2>7. /\ snapshot'.observed_at = call[c].observed_at
        /\ snapshot'.operation = OperationOf[c]
    BY <1>3 DEF Projection
  <2>8. QED
    BY <2>5, <2>6, <2>7 DEF SnapshotIsBacked
<1>4. ASSUME NEW m \in wire, Serve(m) PROVE snapshot' = snapshot
  BY <1>4, ServeFrame
<1>5. ASSUME NEW c \in Callers, Quiet(c) PROVE SnapshotIsBacked'
  BY <1>1, <1>2, <1>3, <1>5, QuietFrame
<1>6. ASSUME NEW c \in Callers, Record(c) \/ WriteFails(c) PROVE SnapshotIsBacked'
  BY <1>1, <1>2, <1>6, WriteFrame
<1>7. QED
  BY <1>1, <1>4, <1>5, <1>6, StepKinds

\* The inductive invariant behind the theorems on results and availability.
LEMMA ResultInvariant == Spec => [](TypeOK /\ CallInv /\ EvidenceInv /\ ResultInv)
<1>1. Init => ResultInv
  BY DEF Init, ResultInv, RecordIsThere, ResultIsRecorded, SnapshotIsBacked, Idle, NoSnapshot
<1>2. TypeOK /\ CallInv /\ EvidenceInv /\ ResultInv /\ [Next]_vars => ResultInv'
  BY RecordStaysThere, ResultsStayRecorded, SnapshotStaysBacked DEF ResultInv
<1>3. QED
  BY <1>1, <1>2, EvidenceInvariant, PTL DEF Spec

\* A result that a caller gets was executed by the Connector, and the receipt that
\* says so is on file.
THEOREM ResultsAreRecorded == Spec => []ResultIsRecorded
<1>1. ResultInv => ResultIsRecorded
  BY DEF ResultInv
<1>2. QED
  BY <1>1, ResultInvariant, PTL

\* What a snapshot shows as available has a receipt on file, of a request for that
\* operation which the Connector executed.
THEOREM AvailabilityIsBacked == Spec => []AvailableIsBacked
<1>1. ResultInv => AvailableIsBacked
  BY DEF ResultInv, SnapshotIsBacked, AvailableIsBacked, Available
<1>2. QED
  BY <1>1, ResultInvariant, PTL

=============================================================================
