-------------------------- MODULE FileGrantsProofs --------------------------
(***************************************************************************)
(* Theorems about FileGrants, for any number of executions, grants and     *)
(* file contents, and any bounds.                                          *)
(***************************************************************************)
EXTENDS FileGrants, TLAPS

-----------------------------------------------------------------------------
(* The invariant.                                                          *)

\* An execution that has spent a grant, whatever came of it.
HasSpent(x) ==
    \/ x.phase \in {"consuming", "prepared", "executing"}
    \/ x.phase = "done" /\ x.id # NoGrant

Spent(i) == \E u \in Users : HasSpent(user[u]) /\ user[u].id = i

\* What is granted was confirmed, and each confirmation has an identifier of its own.
GrantInv ==
    /\ granted \subseteq approved
    /\ \A e, f \in approved : e.id = f.id => e = f

\* What the owner looks at is not confirmed yet; what he has confirmed is granted by
\* nobody else, and not before he has read the file again.
OwnerInv ==
    /\ owner.phase = "prompting" =>
         owner.id \in Grants /\ \A e \in approved : e.id # owner.id
    /\ owner.phase \in {"confirmed", "approving"} =>
         /\ \E e \in approved : e.id = owner.id /\ e.context = owner.context
                                /\ e.expires = owner.expires
         /\ \A e \in granted : e.id # owner.id
         /\ ~Spent(owner.id)

\* A grant that was spent is gone, and was spent once.
SpentInv ==
    /\ \A u \in Users : HasSpent(user[u]) =>
         /\ \E e \in approved : e.id = user[u].id
         /\ \A e \in granted : e.id # user[u].id
    /\ \A u, w \in Users : u # w /\ HasSpent(user[u]) /\ HasSpent(user[w]) =>
         user[u].id # user[w].id

\* An execution compares what it reads with what was confirmed, and hands over nothing
\* that differs.
Fits(x) ==
    /\ x.phase \in {"consuming", "prepared", "executing"} =>
         \E e \in approved : e.id = x.id /\ e.context = x.context /\ e.snapshot = x.snapshot
    /\ x.phase \in {"prepared", "executing"} => x.read = x.snapshot
    /\ x.got # <<>> => x.phase = "executing" /\ x.got = x.read.parts
    /\ x.open <=> x.phase \in {"prepared", "executing"}

UserInv == \A u \in Users : Fits(user[u])

Inv == TypeOK /\ NothingAfterClear /\ GrantInv /\ OwnerInv /\ SpentInv /\ UserInv

-----------------------------------------------------------------------------
(* Types.                                                                  *)

\* A file that has just been opened, and one that has not, are typed reads.
LEMMA ReadTypes == ASSUME TypeOK PROVE NoRead \in Reads /\ Opened \in Reads
<1>1. file.stat \in Nat
  BY DEF TypeOK
<1>2. <<>> \in {s \in Seq(Contents) : Len(s) <= 2}
  OBVIOUS
<1>3. QED
  BY <1>1, <1>2 DEF NoRead, Opened, Reads

\* The next part of a file is read once.
LEMMA NextPartType ==
    ASSUME TypeOK, NEW r \in Reads, ~Hashed(r)
    PROVE  NextPart(r) \in Reads /\ NextPart(r).before = r.before
<1> DEFINE P == {s \in Seq(Contents) : Len(s) <= 2}
           n == Len(r.parts)
<1>1. r = [before |-> r.before, parts |-> r.parts] /\ r.before \in Nat /\ r.parts \in P
  BY DEF Reads
<1>2. n \in Nat /\ n <= 2 /\ n # 2 /\ r.parts \in Seq(Contents)
  BY <1>1 DEF Hashed
<1>3. \A f \in [1..2 -> Contents] : \A k \in {0, 1} : f[k + 1] \in Contents
  OBVIOUS
<1> HIDE DEF n
<1>4. n \in {0, 1}
  BY <1>2
<1>5. file.parts[n + 1] \in Contents
  BY <1>3, <1>4 DEF TypeOK
<1>6. ASSUME NEW s \in Seq(Contents), NEW c \in Contents, Len(s) = n PROVE Append(s, c) \in P
  <2>1. Append(s, c) \in Seq(Contents) /\ Len(Append(s, c)) = Len(s) + 1
    OBVIOUS
  <2>2. Len(Append(s, c)) <= 2
    BY <1>4, <1>6, <2>1
  <2>3. QED
    BY <2>1, <2>2
<1>7. Append(r.parts, file.parts[Len(r.parts) + 1]) \in P
  BY <1>2, <1>5, <1>6 DEF n
<1>8. QED
  BY <1>1, <1>7 DEF NextPart, Reads

\* An execution that has not begun, and one that is over, are typed.
LEMMA ExecutionType ==
    ASSUME TypeOK, NEW phase \in {"idle", "done"}
    PROVE  Execution(phase) \in Executions
  BY ReadTypes DEF Execution, Executions

\* An owner who does nothing is typed.
LEMMA NobodyType == ASSUME TypeOK PROVE Nobody \in Owners
  BY ReadTypes DEF Nobody, Owners

\* What the owner has in hand is a record, once it has an identifier.
LEMMA ProposalType ==
    ASSUME TypeOK, NEW i \in Grants
    PROVE  Proposal(i) \in Records
  BY DEF TypeOK, Owners, Proposal, Records

-----------------------------------------------------------------------------
(* Steps.                                                                  *)

\* Where neither owner, executions nor registry change, the invariant is a matter of
\* types.
LEMMA WorldStep ==
    ASSUME Inv, LockOrUnlock \/ AuthorityChanges \/ Write \/ Tick \/ UNCHANGED vars
    PROVE  Inv'
<1>1. UNCHANGED <<pending, granted, generation, closed, owner, user, approved>>
  BY DEF LockOrUnlock, AuthorityChanges, Write, Tick, World, registry, vars
<1>2. /\ file' \in [stat : Nat, parts : [1..2 -> Contents], writes : Nat]
      /\ authority' \in Nat /\ session' \in Nat /\ clock' \in Nat
  <2>1. CASE Write
    BY <2>1 DEF Write, Inv, TypeOK
  <2>2. CASE LockOrUnlock \/ AuthorityChanges \/ Tick \/ UNCHANGED vars
    BY <2>2, FileGrantLimits
       DEF FileGrantLimits, LockOrUnlock, AuthorityChanges, Tick, Inv, TypeOK, vars
  <2>3. QED
    BY <2>1, <2>2
<1>3. TypeOK'
  BY <1>1, <1>2 DEF Inv, TypeOK
<1>4. QED
  BY <1>1, <1>3 DEF Inv, NothingAfterClear, GrantInv, OwnerInv, SpentInv, UserInv, Spent, Fits

\* Clearing takes every proposal and every grant away.
LEMMA ClearStep == ASSUME Inv, Clear PROVE Inv'
<1>1. TypeOK'
  BY DEF Clear, Inv, TypeOK
<1>2. QED
  BY <1>1 DEF Clear, Inv, NothingAfterClear, GrantInv, OwnerInv, SpentInv, UserInv, Spent, Fits

\* The owner begins, reads on, gives up or takes note, and what is granted stays.
LEMMA OwnerChange ==
    ASSUME Inv, NEW o \in Owners, owner' = o,
           UNCHANGED <<file, granted, generation, closed, authority, session, user, approved,
                       clock>>,
           pending' \subseteq Records, closed => pending' = {},
           \/ o.phase \in {"idle", "proposing"}
           \/ o.phase = "prompting" /\ o.id \in Grants /\ \A e \in approved : e.id # o.id
           \/ /\ o.phase \in {"confirmed", "approving"}
              /\ owner.phase \in {"confirmed", "approving"}
              /\ o.id = owner.id /\ o.context = owner.context /\ o.expires = owner.expires
    PROVE  Inv'
<1>1. TypeOK'
  BY DEF Inv, TypeOK
<1>2. NothingAfterClear' /\ GrantInv' /\ SpentInv' /\ UserInv'
  BY DEF Inv, NothingAfterClear, GrantInv, SpentInv, UserInv, Fits
<1>3. OwnerInv'
  BY DEF Inv, OwnerInv, Spent
<1>4. QED
  BY <1>1, <1>2, <1>3 DEF Inv

\* The owner's steps.
LEMMA OwnerStep == ASSUME Inv, Owner PROVE Inv'
<1> USE DEF registry
<1>0. TypeOK /\ owner \in Owners /\ Nobody \in Owners /\ Opened \in Reads
  BY NobodyType, ReadTypes DEF Inv, TypeOK
<1>1. CASE OwnerBegins
  <2> DEFINE o == [owner EXCEPT !.phase = "proposing", !.context = authority,
                                !.session = session, !.generation = generation,
                                !.expires = clock + Ttl, !.read = Opened]
  <2>0. authority \in Nat /\ session \in Nat /\ generation \in Nat /\ clock + Ttl \in Nat
    BY <1>0, FileGrantLimits DEF TypeOK, FileGrantLimits
  <2>1. o \in Owners /\ o.phase = "proposing"
    BY <1>0, <2>0 DEF Owners
  <2>2. owner' = o /\ UNCHANGED <<pending, granted>>
    BY <1>1 DEF OwnerBegins
  <2>3. pending' \subseteq Records /\ (closed => pending' = {})
    BY <2>2 DEF Inv, TypeOK, NothingAfterClear
  <2> HIDE DEF o
  <2>4. QED
    BY <1>1, <2>1, <2>2, <2>3, OwnerChange DEF OwnerBegins
<1>2. CASE OwnerReads
  <2> DEFINE o == [owner EXCEPT !.read = NextPart(owner.read)]
  <2>1. NextPart(owner.read) \in Reads
    BY <1>0, <1>2, NextPartType DEF OwnerReads, Owners
  <2>2. /\ o \in Owners /\ o.phase = owner.phase /\ o.id = owner.id
        /\ o.context = owner.context /\ o.expires = owner.expires
    BY <1>0, <2>1 DEF Owners
  <2>3. owner' = o /\ UNCHANGED <<pending, granted>> /\ owner.phase \in {"proposing", "approving"}
    BY <1>2 DEF OwnerReads
  <2>4. pending' \subseteq Records /\ (closed => pending' = {})
    BY <2>3 DEF Inv, TypeOK, NothingAfterClear
  <2> HIDE DEF o
  <2>5. QED
    BY <1>2, <2>2, <2>3, <2>4, OwnerChange DEF OwnerReads
<1>3. ASSUME OwnerFails PROVE Inv'
  <2>1. /\ owner' = Nobody /\ Nobody.phase = "idle"
        /\ pending' \subseteq Records /\ (closed => pending' = {})
    BY <1>3 DEF OwnerFails, Nobody, Inv, TypeOK, NothingAfterClear
  <2>2. QED
    BY <1>0, <1>3, <2>1, OwnerChange DEF OwnerFails
<1>4. CASE OwnerProposes
  <2>1. CASE OwnerFails
    BY <1>3, <2>1
  <2>2. ASSUME ~OwnerFails PROVE Inv'
    <3>1. PICK i \in Grants :
              /\ ~closed
              /\ \A e \in pending \cup granted \cup approved : e.id # i
              /\ pending' = pending \cup {Proposal(i)}
              /\ owner' = [owner EXCEPT !.phase = "prompting", !.id = i]
              /\ UNCHANGED <<file, granted, generation, closed, authority, session, user,
                             approved, clock>>
      BY <1>4, <2>2 DEF OwnerProposes, Superseded
    <3> DEFINE o == [owner EXCEPT !.phase = "prompting", !.id = i]
    <3>2. o \in Owners /\ o.phase = "prompting" /\ o.id = i
      BY <1>0 DEF Owners
    <3>3. pending' \subseteq Records
      BY <1>0, <3>1, ProposalType DEF TypeOK
    <3> HIDE DEF o
    <3>4. owner' = o
      BY <3>1 DEF o
    <3>5. QED
      BY <3>1, <3>2, <3>3, <3>4, OwnerChange
  <2>3. QED
    BY <2>1, <2>2
<1>5. CASE OwnerDeclines
  <2>1. /\ owner' = Nobody /\ Nobody.phase = "idle"
        /\ pending' \subseteq pending
    BY <1>5 DEF OwnerDeclines, Nobody
  <2>2. pending' \subseteq Records /\ (closed => pending' = {})
    BY <2>1 DEF Inv, TypeOK, NothingAfterClear
  <2>3. QED
    BY <1>0, <1>5, <2>1, <2>2, OwnerChange DEF OwnerDeclines
<1>6. CASE OwnerConfirms
  <2> DEFINE p == Proposal(owner.id)
  <2>1. owner.phase = "prompting" /\ owner.id \in Grants /\ \A e \in approved : e.id # owner.id
    BY <1>6 DEF OwnerConfirms, Inv, OwnerInv
  <2>2. p \in Records /\ p.id = owner.id /\ p.context = owner.context /\ p.expires = owner.expires
    BY <1>0, <2>1, ProposalType DEF Proposal
  <2>3. approved' = approved \cup {p} /\ owner' = [owner EXCEPT !.phase = "confirmed"]
        /\ UNCHANGED <<file, pending, granted, generation, closed, authority, session, user, clock>>
    BY <1>6 DEF OwnerConfirms
  <2>4. /\ owner' \in Owners /\ owner'.phase = "confirmed" /\ owner'.id = owner.id
        /\ owner'.context = owner.context /\ owner'.expires = owner.expires
    BY <1>0, <2>3 DEF Owners
  <2> HIDE DEF p
  <2>5. TypeOK'
    BY <1>0, <2>2, <2>3, <2>4 DEF TypeOK
  <2>6. NothingAfterClear' /\ GrantInv'
    BY <2>1, <2>2, <2>3 DEF Inv, NothingAfterClear, GrantInv
  <2>7. SpentInv' /\ UserInv'
    BY <2>3 DEF Inv, SpentInv, UserInv, Fits
  <2>8. ~Spent(owner.id) /\ \A e \in granted : e.id # owner.id
    BY <2>1 DEF Inv, SpentInv, Spent, GrantInv
  <2>9. OwnerInv'
    BY <2>2, <2>3, <2>4, <2>8 DEF OwnerInv, Spent
  <2>10. QED
    BY <2>5, <2>6, <2>7, <2>9 DEF Inv
<1>7. CASE OwnerApproves
  <2> DEFINE o == [owner EXCEPT !.phase = "approving", !.generation = generation,
                                !.read = Opened]
  <2>1. /\ o \in Owners /\ o.phase = "approving" /\ o.id = owner.id
        /\ o.context = owner.context /\ o.expires = owner.expires
    BY <1>0 DEF Owners, TypeOK
  <2>2. owner' \in {o, Nobody} /\ owner.phase = "confirmed" /\ pending' \subseteq pending
    BY <1>7 DEF OwnerApproves
  <2> HIDE DEF o
  <2>3. pending' \subseteq Records /\ (closed => pending' = {})
    BY <2>2 DEF Inv, TypeOK, NothingAfterClear
  <2>4. Nobody.phase = "idle"
    BY DEF Nobody
  <2>5. QED
    BY <1>0, <1>7, <2>1, <2>2, <2>3, <2>4, OwnerChange DEF OwnerApproves
<1>8. CASE OwnerGrants
  <2>1. /\ owner' = Nobody /\ Nobody.phase = "idle"
        /\ UNCHANGED <<file, pending, generation, closed, authority, session, user, approved,
                       clock>>
    BY <1>8 DEF OwnerGrants, Nobody
  <2>2. CASE granted' = granted
    <3>1. pending' \subseteq Records /\ (closed => pending' = {})
      BY <2>1 DEF Inv, TypeOK, NothingAfterClear
    <3>2. QED
      BY <1>0, <2>1, <2>2, <3>1, OwnerChange
  <2>3. ASSUME granted' # granted PROVE Inv'
    <3>1. /\ SameSnapshot(Confirmed.snapshot, owner.read) /\ ~closed
          /\ granted' = granted \cup {Proposal(owner.id)} /\ owner.phase = "approving"
      BY <1>8, <2>3 DEF OwnerGrants, Superseded
    <3>2. PICK e \in approved : e.id = owner.id /\ e.context = owner.context
                                /\ e.expires = owner.expires
      BY <3>1 DEF Inv, OwnerInv
    <3>3. Confirmed \in approved /\ Confirmed.id = owner.id
      BY <3>2 DEF Confirmed
    <3>4. Confirmed = e
      BY <3>2, <3>3 DEF Inv, GrantInv
    <3>5. e \in Records /\ e.snapshot = owner.read
      BY <1>0, <3>1, <3>4 DEF SameSnapshot, TypeOK
    <3>6. Proposal(owner.id) = e
      BY <3>2, <3>5 DEF Proposal, Records
    <3>7. granted' = granted \cup {e}
      BY <3>1, <3>6
    <3>8. TypeOK'
      BY <1>0, <2>1, <3>5, <3>7 DEF TypeOK
    <3>9. NothingAfterClear' /\ GrantInv' /\ UserInv'
      BY <2>1, <3>1, <3>7 DEF Inv, NothingAfterClear, GrantInv, UserInv, Fits
    <3>10. ~Spent(owner.id)
      BY <3>1 DEF Inv, OwnerInv
    <3>11. SpentInv'
      BY <2>1, <3>2, <3>7, <3>10 DEF Inv, SpentInv, Spent
    <3>12. OwnerInv'
      BY <2>1 DEF OwnerInv
    <3>13. QED
      BY <3>8, <3>9, <3>11, <3>12 DEF Inv
  <2>4. QED
    BY <2>2, <2>3
<1>9. QED
  BY <1>1, <1>2, <1>4, <1>5, <1>6, <1>7, <1>8 DEF Owner

\* An execution moves on, and what it now holds no one else does.
LEMMA UserChange ==
    ASSUME Inv, NEW u \in Users, NEW x \in Executions, Fits(x),
           user' = [user EXCEPT ![u] = x], UNCHANGED Others, granted' \subseteq granted,
           HasSpent(x) =>
             /\ \E e \in approved : e.id = x.id
             /\ \A e \in granted' : e.id # x.id
             /\ \A w \in Users \ {u} : HasSpent(user[w]) => user[w].id # x.id
             /\ owner.phase \in {"confirmed", "approving"} => x.id # owner.id
    PROVE  Inv'
<1>0. /\ user \in [Users -> Executions] /\ user'[u] = x
      /\ \A w \in Users \ {u} : user'[w] = user[w]
      /\ UNCHANGED <<file, pending, generation, closed, authority, session, owner, approved, clock>>
  BY DEF Inv, TypeOK, Others
<1>1. TypeOK'
  BY <1>0 DEF Inv, TypeOK
<1>2. NothingAfterClear' /\ GrantInv'
  BY <1>0 DEF Inv, NothingAfterClear, GrantInv
<1>3. OwnerInv'
  <2>1. ASSUME owner.phase \in {"confirmed", "approving"} PROVE ~Spent(owner.id)'
    <3>1. ~Spent(owner.id)
      BY <2>1 DEF Inv, OwnerInv
    <3>2. \A w \in Users : ~(HasSpent(user'[w]) /\ user'[w].id = owner.id)
      BY <1>0, <2>1, <3>1 DEF Spent
    <3>3. QED
      BY <1>0, <3>2 DEF Spent
  <2>2. QED
    BY <1>0, <2>1 DEF Inv, OwnerInv
<1>4. SpentInv'
  <2>1. ASSUME NEW w \in Users, HasSpent(user'[w])
        PROVE  /\ \E e \in approved : e.id = user'[w].id
               /\ \A e \in granted' : e.id # user'[w].id
    BY <1>0, <2>1 DEF Inv, SpentInv
  <2>2. ASSUME NEW v \in Users, NEW w \in Users, v # w, HasSpent(user'[v]), HasSpent(user'[w])
        PROVE  user'[v].id # user'[w].id
    BY <1>0, <2>2 DEF Inv, SpentInv
  <2>3. QED
    BY <1>0, <2>1, <2>2 DEF SpentInv
<1>5. UserInv'
  <2>1. \A w \in Users : Fits(user'[w])
    BY <1>0 DEF Inv, UserInv
  <2>2. QED
    BY <1>0, <2>1 DEF UserInv, Fits
<1>6. QED
  BY <1>1, <1>2, <1>3, <1>4, <1>5 DEF Inv

\* An execution moves on with the grant it has, or without one.
LEMMA UserKeeps ==
    ASSUME Inv, NEW u \in Users, NEW x \in Executions, Fits(x),
           user' = [user EXCEPT ![u] = x], UNCHANGED <<Others, granted>>,
           HasSpent(x) => HasSpent(user[u]) /\ x.id = user[u].id
    PROVE  Inv'
<1>1. HasSpent(x) =>
        /\ \E e \in approved : e.id = x.id
        /\ \A e \in granted : e.id # x.id
        /\ \A w \in Users \ {u} : HasSpent(user[w]) => user[w].id # x.id
  BY DEF Inv, SpentInv
<1>2. HasSpent(x) /\ owner.phase \in {"confirmed", "approving"} => x.id # owner.id
  BY DEF Inv, OwnerInv, Spent
<1>3. QED
  BY <1>1, <1>2, UserChange

\* Which is so when it is over without having been handed anything.
LEMMA UserGivesUp ==
    ASSUME Inv, NEW u \in Users, user' = Done(u), UNCHANGED Others, granted' \subseteq granted
    PROVE  Inv'
<1> DEFINE x == Execution("done")
<1>1. x \in Executions
  BY ExecutionType DEF Inv
<1>2. Fits(x) /\ ~HasSpent(x)
  BY DEF Fits, HasSpent, Execution
<1>3. user' = [user EXCEPT ![u] = x]
  BY DEF Done
<1> HIDE DEF x
<1>4. QED
  BY <1>1, <1>2, <1>3, UserChange

\* The steps of an execution.
LEMMA UserStep == ASSUME Inv, NEW u \in Users, User(u) PROVE Inv'
<1>0. TypeOK /\ user[u] \in Executions /\ Fits(user[u]) /\ Opened \in Reads
  BY ReadTypes DEF Inv, TypeOK, UserInv
<1>1. CASE UserClaims(u)
  <2> DEFINE x == [user[u] EXCEPT !.phase = "claimed", !.context = authority]
  <2>1. /\ x \in Executions /\ x.phase = "claimed"
        /\ x.got = user[u].got /\ x.open = user[u].open
    BY <1>0 DEF Executions, TypeOK
  <2>2. user[u].phase = "idle" /\ user' = [user EXCEPT ![u] = x]
    BY <1>1 DEF UserClaims
  <2> HIDE DEF x
  <2>3. Fits(x) /\ ~HasSpent(x)
    BY <1>0, <2>1, <2>2 DEF Fits, HasSpent
  <2>4. QED
    BY <1>1, <2>1, <2>2, <2>3, UserKeeps DEF UserClaims
<1>2. CASE UserIsRefused(u)
  BY <1>2, UserGivesUp DEF UserIsRefused
<1>3. CASE UserConsumes(u)
  <2>0. PICK i \in Grants :
            /\ IF \E e \in granted : e.id = i /\ GrantCovers(e, user[u].context)
               THEN \E e \in granted :
                        /\ e.id = i
                        /\ user' = [user EXCEPT ![u].phase = "consuming", ![u].id = i,
                                                ![u].snapshot = e.snapshot, ![u].read = Opened]
               ELSE user' = Done(u)
            /\ granted' = IF closed THEN granted ELSE {e \in granted : e.id # i}
    BY <1>3 DEF UserConsumes
  <2>1. granted' \subseteq granted /\ UNCHANGED Others /\ user[u].phase = "claimed"
    BY <1>3, <2>0 DEF UserConsumes
  <2>2. CASE user' = Done(u)
    BY <2>1, <2>2, UserGivesUp
  <2>3. ASSUME user' # Done(u) PROVE Inv'
    <3>1. PICK f \in granted : f.id = i /\ GrantCovers(f, user[u].context)
      BY <2>0, <2>3
    <3>2. PICK e \in granted :
              /\ e.id = i
              /\ user' = [user EXCEPT ![u].phase = "consuming", ![u].id = i,
                                      ![u].snapshot = e.snapshot, ![u].read = Opened]
      BY <2>0, <3>1
    <3>3. e = f /\ e \in approved /\ e \in Records /\ ~closed
      BY <3>1, <3>2 DEF Inv, GrantInv, NothingAfterClear, TypeOK
    <3> DEFINE x == [user[u] EXCEPT !.phase = "consuming", !.id = i,
                                    !.snapshot = e.snapshot, !.read = Opened]
    <3>4. e.context = user[u].context /\ e.snapshot \in Reads
      BY <3>1, <3>3 DEF GrantCovers, Records
    <3>5. /\ x \in Executions /\ x.phase = "consuming" /\ x.id = i /\ x.snapshot = e.snapshot
          /\ x.context = user[u].context /\ x.got = user[u].got /\ x.open = user[u].open
      BY <1>0, <3>4 DEF Executions
    <3>6. user' = [user EXCEPT ![u] = x]
      BY <3>2
    <3> HIDE DEF x
    <3>7. Fits(x)
      BY <1>0, <2>1, <3>2, <3>3, <3>4, <3>5 DEF Fits
    <3>8. /\ \E g \in approved : g.id = x.id
          /\ \A g \in granted' : g.id # x.id
          /\ \A w \in Users \ {u} : HasSpent(user[w]) => user[w].id # x.id
          /\ owner.phase \in {"confirmed", "approving"} => x.id # owner.id
      <4>1. x.id = e.id /\ granted' = {g \in granted : g.id # i}
        BY <2>0, <3>2, <3>3, <3>5
      <4>2. \A w \in Users \ {u} : HasSpent(user[w]) => user[w].id # e.id
        BY <3>2 DEF Inv, SpentInv
      <4>3. owner.phase \in {"confirmed", "approving"} => e.id # owner.id
        BY <3>2 DEF Inv, OwnerInv
      <4>4. QED
        BY <3>2, <3>3, <4>1, <4>2, <4>3
    <3>9. QED
      BY <2>1, <3>5, <3>6, <3>7, <3>8, UserChange
  <2>4. QED
    BY <2>2, <2>3
<1>4. CASE UserReads(u)
  <2> DEFINE x == [user[u] EXCEPT !.read = NextPart(user[u].read)]
  <2>1. user[u].phase = "consuming" /\ user' = [user EXCEPT ![u] = x]
        /\ UNCHANGED <<Others, granted>>
    BY <1>4 DEF UserReads, registry, Others
  <2>2. NextPart(user[u].read) \in Reads
    BY <1>0, <1>4, NextPartType DEF UserReads, Executions
  <2>3. /\ x \in Executions /\ x.phase = user[u].phase /\ x.id = user[u].id
        /\ x.snapshot = user[u].snapshot
        /\ x.context = user[u].context /\ x.got = user[u].got /\ x.open = user[u].open
    BY <1>0, <2>2 DEF Executions
  <2> HIDE DEF x
  <2>4. Fits(x) /\ HasSpent(user[u])
    BY <1>0, <2>1, <2>3 DEF Fits, HasSpent
  <2>5. QED
    BY <2>1, <2>3, <2>4, UserKeeps
<1>5. CASE UserHolds(u)
  <2> DEFINE x == [user[u] EXCEPT !.phase = "prepared", !.open = TRUE]
  <2>1. CASE user' = Done(u)
    BY <1>5, <2>1, UserGivesUp DEF UserHolds
  <2>2. ASSUME user' # Done(u) PROVE Inv'
    <3>1. /\ user[u].phase = "consuming" /\ user[u].snapshot = user[u].read
          /\ user' = [user EXCEPT ![u] = x] /\ UNCHANGED <<Others, granted>>
      BY <1>5, <2>2 DEF UserHolds, SameSnapshot
    <3>2. /\ x \in Executions /\ x.phase = "prepared" /\ x.id = user[u].id
          /\ x.snapshot = user[u].snapshot /\ x.read = user[u].read
          /\ x.context = user[u].context /\ x.got = user[u].got /\ x.open
      BY <1>0 DEF Executions
    <3> HIDE DEF x
    <3>3. Fits(x) /\ HasSpent(user[u])
      BY <1>0, <3>1, <3>2 DEF Fits, HasSpent
    <3>4. QED
      BY <3>1, <3>2, <3>3, UserKeeps
  <2>3. QED
    BY <2>1, <2>2
<1>6. CASE UserExecutes(u)
  <2> DEFINE x == [user[u] EXCEPT !.phase = "executing"]
  <2>1. user[u].phase = "prepared" /\ user' = [user EXCEPT ![u] = x]
        /\ UNCHANGED <<Others, granted>>
    BY <1>6 DEF UserExecutes
  <2>2. /\ x \in Executions /\ x.phase = "executing" /\ x.id = user[u].id
        /\ x.snapshot = user[u].snapshot /\ x.read = user[u].read
        /\ x.context = user[u].context /\ x.got = user[u].got /\ x.open = user[u].open
    BY <1>0 DEF Executions
  <2> HIDE DEF x
  <2>3. Fits(x) /\ HasSpent(user[u])
    BY <1>0, <2>1, <2>2 DEF Fits, HasSpent
  <2>4. QED
    BY <2>1, <2>2, <2>3, UserKeeps
<1>7. CASE ExecutorReads(u)
  <2> DEFINE x == [user[u] EXCEPT !.got = Stream(u)]
  <2>1. user[u].phase = "executing" /\ user' = [user EXCEPT ![u] = x]
        /\ UNCHANGED <<Others, granted>>
    BY <1>7 DEF ExecutorReads
  <2>2. Stream(u) \in Seq(Contents) /\ Stream(u) = user[u].read.parts
    BY <1>0 DEF Executions, Reads, Stream
  <2>3. /\ x \in Executions /\ x.phase = user[u].phase /\ x.id = user[u].id
        /\ x.snapshot = user[u].snapshot /\ x.read = user[u].read
        /\ x.context = user[u].context /\ x.got = user[u].read.parts /\ x.open = user[u].open
    BY <1>0, <2>2 DEF Executions
  <2> HIDE DEF x
  <2>4. Fits(x) /\ HasSpent(user[u])
    BY <1>0, <2>1, <2>3 DEF Fits, HasSpent
  <2>5. QED
    BY <2>1, <2>3, <2>4, UserKeeps
<1>8. ASSUME user' = Release(u), user[u].phase \in {"prepared", "executing"},
             UNCHANGED <<Others, granted>>
      PROVE  Inv'
  <2> DEFINE x == [Execution("done") EXCEPT !.id = user[u].id]
  <2>1. /\ x \in Executions /\ x.phase = "done" /\ x.id = user[u].id
        /\ x.got = <<>> /\ x.open = FALSE
    <3>1. Execution("done") \in Executions
      BY <1>0, ExecutionType
    <3>2. QED
      BY <1>0, <3>1 DEF Executions, Execution
  <2>2. user' = [user EXCEPT ![u] = x]
    BY <1>8 DEF Release
  <2> HIDE DEF x
  <2>3. Fits(x) /\ HasSpent(user[u])
    BY <1>8, <2>1 DEF Fits, HasSpent
  <2>4. QED
    BY <1>8, <2>1, <2>2, <2>3, UserKeeps
<1>9. CASE ExecutorEnds(u)
  BY <1>8, <1>9 DEF ExecutorEnds
<1>10. CASE Abandon(u)
  <2>1. CASE user' = user
    <3>1. user' = [user EXCEPT ![u] = user[u]] /\ UNCHANGED <<Others, granted>>
      BY <1>10, <2>1 DEF Abandon, Inv, TypeOK
    <3>2. QED
      BY <1>0, <3>1, UserKeeps
  <2>2. CASE user' = Release(u)
    BY <1>8, <1>10, <2>2 DEF Abandon
  <2>3. QED
    BY <1>10, <2>1, <2>2 DEF Abandon
<1>11. QED
  BY <1>1, <1>2, <1>3, <1>4, <1>5, <1>6, <1>7, <1>9, <1>10 DEF User

-----------------------------------------------------------------------------
(* The theorems.                                                           *)

\* Every variable has its type, and the invariant above holds.
THEOREM Invariance == Spec => []Inv
<1>1. Init => Inv
  <2> SUFFICES ASSUME Init PROVE Inv
    OBVIOUS
  <2>1. NoRead \in Reads
    <3>1. <<>> \in {s \in Seq(Contents) : Len(s) <= 2}
      OBVIOUS
    <3>2. QED
      BY <3>1 DEF NoRead, Reads
  <2>2. file \in [stat : Nat, parts : [1..2 -> Contents], writes : Nat]
    BY DEF Init
  <2>3. owner \in Owners
    BY <2>1 DEF Init, Nobody, Owners
  <2>4. Execution("idle") \in Executions
    BY <2>1 DEF Execution, Executions
  <2>5. TypeOK
    BY <2>2, <2>3, <2>4 DEF Init, TypeOK
  <2>6. OwnerInv /\ GrantInv /\ NothingAfterClear
    BY DEF Init, OwnerInv, GrantInv, NothingAfterClear, Nobody
  <2>7. SpentInv /\ UserInv
    BY DEF Init, SpentInv, UserInv, HasSpent, Fits, Execution
  <2>8. QED
    BY <2>5, <2>6, <2>7 DEF Inv
<1>2. Inv /\ [Next]_vars => Inv'
  BY WorldStep, ClearStep, OwnerStep, UserStep DEF Next, Finished
<1>3. QED
  BY <1>1, <1>2, PTL DEF Spec

\* What an executor reads is what the owner saw and confirmed, for a request of the
\* same context, however the file was written meanwhile.
THEOREM ReadsTheApproved == Spec => []ReadsWhatWasApproved
<1>1. Inv => ReadsWhatWasApproved
  BY DEF Inv, UserInv, Fits, ReadsWhatWasApproved
<1>2. QED
  BY <1>1, Invariance, PTL

\* At most one of the executions that spend a grant is given the file.
THEOREM OneHandOver == Spec => []HandedOverOnce
<1>1. Inv => HandedOverOnce
  BY DEF Inv, SpentInv, HasSpent, HandedOverOnce, WasHanded
<1>2. QED
  BY <1>1, Invariance, PTL

\* A registry that was cleared stays empty, whatever was under way.
THEOREM ClearedForGood == Spec => []NothingAfterClear
<1>1. Inv => NothingAfterClear
  BY DEF Inv
<1>2. QED
  BY <1>1, Invariance, PTL

\* The copy is open while its executor runs, and closed when it is over.
THEOREM CopyIsReleased == Spec => []OpenWhileExecuted
<1>1. Inv => OpenWhileExecuted
  BY DEF Inv, UserInv, Fits, OpenWhileExecuted
<1>2. QED
  BY <1>1, Invariance, PTL

=============================================================================
