---------------------------- MODULE AccountsProofs ----------------------------
(* What holds of enrolment, of the sessions of an account and of the guarded   *)
(* changes of owners, for any number of students, codes, offerings, tokens,    *)
(* links, users and requests under way.                                        *)
EXTENDS Accounts, FiniteSetTheorems, WellFoundedInduction, TLAPS

-----------------------------------------------------------------------------
(* Enrolment.  A code's counter is exact and capped, and the registrar never   *)
(* oversells an offering.                                                      *)

\* What a request under way has in hand: what it read of rows that do not change
\* under it, the locks its transaction holds, what it counted under them.
InHand(r) ==
  LET q == req[r] IN
  /\ q.step \in {"enrollCount", "enrollCreate"} =>
       q.student \in accounts /\ q.offering \in Offerings /\ offeringLock[q.offering] = r
  /\ q.step = "enrollCreate" => Cardinality(enrolled[q.offering]) < capacity[q.offering]
  /\ q.step \in {"claim", "use"} =>
       /\ q.student \in Students /\ q.code \in Codes /\ q.offering = offeringOf[q.code]
       /\ ~q.new => q.student \in accounts
  /\ q.step = "use" => codeLock[q.code] = r /\ codes[q.code] = "live" /\ usedCount[q.code] < maxUses[q.code]

SInv ==
  /\ SeatsTypeOK
  /\ UsesAreCounted
  /\ \A r \in Reqs : InHand(r)

LEMMA Typed ==
  ASSUME NEW step \in {"enrollCreate", "use"}, NEW q \in Request
  PROVE  /\ At(step, q.student, q.offering, q.code, q.new) \in Request
         /\ At(step, q.student, q.offering, Nil, FALSE) \in Request
         /\ Idle \in Request
  BY DEF At, Idle, Request

LEMMA InitSInv == SeatsInit => SInv
<1> SUFFICES ASSUME SeatsInit PROVE SInv
  OBVIOUS
<1> USE SeatsAssumption DEF SeatsInit
<1>1. SeatsTypeOK
  BY DEF SeatsTypeOK, Request, Idle, At
<1>2. UsesAreCounted
  BY FS_EmptySet DEF UsesAreCounted
<1>3. ASSUME NEW r \in Reqs PROVE InHand(r)
  BY DEF InHand, Idle, At
<1> QED
  BY <1>1, <1>2, <1>3 DEF SInv

LEMMA Finite == ASSUME SInv PROVE /\ \A o \in Offerings : IsFiniteSet(enrolled[o])
                                  /\ \A c \in Codes : IsFiniteSet(uses[c])
  BY SeatsAssumption, FS_Subset DEF SInv, SeatsTypeOK

\* A step of request r that changes no row keeps the invariant if r has in hand
\* what its next step needs, and if the locks of the others are left alone.
LEMMA RowsAlone ==
  ASSUME SInv, UNCHANGED seatRows, SeatsTypeOK', NEW r \in Reqs, InHand(r)',
         \A p \in Reqs \ {r} :
           /\ req'[p] = req[p]
           /\ \A o \in Offerings : offeringLock[o] = p => offeringLock'[o] = p
           /\ \A c \in Codes : codeLock[c] = p => codeLock'[c] = p
  PROVE  SInv'
<1>1. ASSUME NEW p \in Reqs \ {r} PROVE InHand(p)'
  BY <1>1 DEF SInv, InHand, seatRows
<1> QED
  BY <1>1 DEF SInv, seatRows, UsesAreCounted

LEMMA CreateKeeps ==
  ASSUME SInv, NEW r \in Reqs, EnrollCreate(r)
  PROVE  SInv' /\ RegistrarStep
<1> USE SeatsAssumption
<1>0. PICK s, o : s = req[r].student /\ o = req[r].offering
  OBVIOUS
<1>1. /\ s \in accounts /\ o \in Offerings /\ offeringLock[o] = r /\ s \notin enrolled[o]
      /\ Cardinality(enrolled[o]) < capacity[o]
  BY <1>0 DEF EnrollCreate, SInv, InHand
<1>2. /\ enrolled' = [enrolled EXCEPT ![o] = enrolled[o] \cup {s}]
      /\ byHand' = [byHand EXCEPT ![o] = byHand[o] \cup {s}]
      /\ offeringLock' = [offeringLock EXCEPT ![o] = Nil] /\ req' = [req EXCEPT ![r] = Idle]
      /\ UNCHANGED <<accounts, codes, usedCount, uses, codeLock>>
  BY <1>0 DEF EnrollCreate, Frees
<1>3. SeatsTypeOK'
  BY <1>1, <1>2 DEF SInv, SeatsTypeOK, Request, Idle, At
<1>4. InHand(r)'
  BY <1>2 DEF InHand, Idle, At, SInv, SeatsTypeOK
<1>5. ASSUME NEW p \in Reqs \ {r} PROVE InHand(p)'
  <2>1. req'[p] = req[p] /\ InHand(p)
    BY <1>2 DEF SInv, SeatsTypeOK
  <2>2. req[p].step \in {"enrollCount", "enrollCreate"} =>
          req[p].offering # o /\ enrolled'[req[p].offering] = enrolled[req[p].offering]
          /\ offeringLock'[req[p].offering] = p
    BY <1>1, <1>2, <2>1 DEF InHand, SInv, SeatsTypeOK
  <2> QED
    BY <1>2, <2>1, <2>2 DEF InHand
<1>6. RegistrarStep
  <2>1. Cardinality(enrolled[o] \cup {s}) <= capacity[o]
    <3>1. IsFiniteSet(enrolled[o]) /\ Cardinality(enrolled[o]) \in Nat
      BY <1>1, Finite, FS_CardinalityType
    <3>2. Cardinality(enrolled[o] \cup {s}) = Cardinality(enrolled[o]) + 1
      BY <1>1, <3>1, FS_AddElement
    <3> QED
      BY <1>1, <3>1, <3>2
  <2> QED
    BY <1>1, <1>2, <2>1 DEF RegistrarStep, SInv, SeatsTypeOK
<1> QED
  BY <1>2, <1>3, <1>4, <1>5, <1>6 DEF SInv, UsesAreCounted

LEMMA UseKeeps ==
  ASSUME SInv, NEW r \in Reqs, Use(r)
  PROVE  SInv'
<1> USE SeatsAssumption
<1>0. PICK s, o, c : s = req[r].student /\ o = req[r].offering /\ c = req[r].code
  OBVIOUS
<1>1. /\ s \in Students /\ c \in Codes /\ codeLock[c] = r
      /\ usedCount[c] \in Nat /\ usedCount[c] < maxUses[c] /\ maxUses[c] \in Nat
      /\ ~req[r].new => s \in accounts
  BY <1>0 DEF Use, SInv, InHand, SeatsTypeOK
<1>2. /\ codeLock' = [codeLock EXCEPT ![c] = Nil] /\ req' = [req EXCEPT ![r] = Idle]
      /\ offeringLock' = offeringLock
  BY <1>0 DEF Use, Frees
<1>3. InHand(r)'
  BY <1>2 DEF InHand, Idle, At, SInv, SeatsTypeOK
<1>4. CASE UNCHANGED seatRows
  <2>1. SeatsTypeOK'
    BY <1>2, <1>4 DEF seatRows, SInv, SeatsTypeOK, Request, Idle, At
  <2> QED
    BY <1>1, <1>2, <1>3, <1>4, <2>1, RowsAlone DEF SInv, SeatsTypeOK
<1>5. CASE /\ s \notin uses[c]
           /\ (o # Nil /\ s \notin enrolled[o]) => offeringLock[o] = Nil
           /\ uses' = [uses EXCEPT ![c] = uses[c] \cup {s}]
           /\ usedCount' = [usedCount EXCEPT ![c] = usedCount[c] + 1]
           /\ enrolled' = [p \in Offerings |-> IF p = o THEN enrolled[p] \cup {s} ELSE enrolled[p]]
           /\ accounts' = WithAccount(r)
           /\ UNCHANGED <<byHand, codes>>
  <2>1. accounts \subseteq accounts' /\ s \in accounts' /\ accounts' \subseteq Students
    BY <1>0, <1>1, <1>5 DEF WithAccount, SInv, SeatsTypeOK
  <2>2. SeatsTypeOK'
    BY <1>1, <1>2, <1>5, <2>1 DEF SInv, SeatsTypeOK, Request, Idle, At
  <2>3. UsesAreCounted'
    <3>1. Cardinality(uses[c] \cup {s}) = usedCount[c] + 1
      <4>1. IsFiniteSet(uses[c]) /\ Cardinality(uses[c]) = usedCount[c]
        BY <1>1, Finite DEF SInv, UsesAreCounted
      <4> QED
        BY <1>5, <4>1, FS_AddElement
    <3>2. usedCount[c] + 1 <= maxUses[c]
      BY <1>1
    <3> QED
      BY <1>1, <1>5, <3>1, <3>2 DEF SInv, UsesAreCounted, SeatsTypeOK
  <2>4. ASSUME NEW p \in Reqs \ {r} PROVE InHand(p)'
    <3>1. req'[p] = req[p] /\ InHand(p)
      BY <1>2 DEF SInv, SeatsTypeOK
    <3>2. req[p].step \in {"enrollCount", "enrollCreate"} => enrolled'[req[p].offering] = enrolled[req[p].offering]
      <4>1. CASE s \in enrolled[o]
        <5>1. enrolled[o] \cup {s} = enrolled[o]
          BY <4>1
        <5> QED
          BY <1>5, <3>1, <5>1 DEF InHand, SInv, SeatsTypeOK
      <4>2. CASE o = Nil \/ offeringLock[o] = Nil
        BY <1>5, <3>1, <4>2 DEF InHand, SInv, SeatsTypeOK
      <4> QED
        BY <1>5, <4>1, <4>2
    <3>3. req[p].step = "use" =>
            /\ req[p].code # c /\ codeLock'[req[p].code] = p
            /\ usedCount'[req[p].code] = usedCount[req[p].code]
      BY <1>1, <1>2, <1>5, <3>1 DEF InHand, SInv, SeatsTypeOK
    <3>4. codes' = codes
      BY <1>5
    <3> QED
      BY <1>2, <2>1, <3>1, <3>2, <3>3, <3>4 DEF InHand
  <2> QED
    BY <1>3, <2>2, <2>3, <2>4 DEF SInv
<1> QED
  BY <1>0, <1>4, <1>5 DEF Use, UsedBefore

LEMMA StepSInv == SInv /\ [SeatsNext]_seatVars => SInv' /\ (RegistrarStep \/ UNCHANGED seatVars)
<1> SUFFICES ASSUME SInv, [SeatsNext]_seatVars PROVE SInv' /\ (RegistrarStep \/ UNCHANGED seatVars)
  OBVIOUS
<1> USE SeatsAssumption
<1>0. byHand' = byHand => RegistrarStep
  BY DEF RegistrarStep
<1>1. CASE UNCHANGED seatVars
  BY <1>1 DEF seatVars, seatRows, SInv, SeatsTypeOK, UsesAreCounted, InHand
<1>2. ASSUME NEW r \in Reqs, NEW s \in Students, NEW o \in Offerings, EnrollLock(r, s, o)
      PROVE  SInv' /\ byHand' = byHand
  <2>1. SeatsTypeOK' /\ InHand(r)'
    BY <1>2 DEF EnrollLock, LockOffering, seatRows, SInv, SeatsTypeOK, Request, InHand, At
  <2>2. offeringLock[o] = Nil /\ \A u \in Offerings : u # o => offeringLock'[u] = offeringLock[u]
    BY <1>2 DEF EnrollLock, LockOffering, SInv, SeatsTypeOK
  <2>3. UNCHANGED <<seatRows, codeLock>> /\ \A p \in Reqs \ {r} : req'[p] = req[p]
    BY <1>2 DEF EnrollLock, SInv, SeatsTypeOK
  <2> QED
    BY <2>1, <2>2, <2>3, RowsAlone DEF seatRows
<1>3. ASSUME NEW r \in Reqs, EnrollCount(r) PROVE SInv' /\ byHand' = byHand
  <2>2. req[r].offering \in Offerings /\ offeringLock[req[r].offering] = r /\ req[r].student \in accounts
    BY <1>3 DEF EnrollCount, SInv, InHand
  <2>3. SeatsTypeOK'
    <3>1. /\ \/ req' = [req EXCEPT ![r] = At("enrollCreate", req[r].student, req[r].offering, Nil, FALSE)]
             \/ req' = [req EXCEPT ![r] = Idle]
          /\ offeringLock' \in {offeringLock, Frees(offeringLock, req[r].offering)}
          /\ UNCHANGED <<seatRows, codeLock>>
      BY <1>3 DEF EnrollCount
    <3>2. req' \in [Reqs -> Request]
      <4>1. req \in [Reqs -> Request] /\ req[r] \in Request
        BY DEF SInv, SeatsTypeOK
      <4>2. At("enrollCreate", req[r].student, req[r].offering, Nil, FALSE) \in Request /\ Idle \in Request
        BY <4>1, Typed
      <4> QED
        BY <3>1, <4>1, <4>2
    <3> QED
      BY <2>2, <3>1, <3>2 DEF Frees, seatRows, SInv, SeatsTypeOK
  <2>4. InHand(r)'
    BY <1>3, <2>2 DEF EnrollCount, SeatLeft, seatRows, SInv, SeatsTypeOK, Request, InHand, At, Idle
  <2>1. SeatsTypeOK' /\ InHand(r)'
    BY <2>3, <2>4
  <2> QED
    BY <1>3, <2>1, <2>2, RowsAlone DEF EnrollCount, Frees, SInv, SeatsTypeOK, seatRows
<1>4. ASSUME NEW r \in Reqs, NEW s \in Students, NEW c \in Codes, RedeemRead(r, s, c)
      PROVE  SInv' /\ byHand' = byHand
  <2>1. SeatsTypeOK' /\ InHand(r)'
    BY <1>4 DEF RedeemRead, seatRows, SInv, SeatsTypeOK, Request, InHand, At
  <2> QED
    BY <1>4, <2>1, RowsAlone DEF RedeemRead, SInv, SeatsTypeOK, seatRows
<1>5. ASSUME NEW r \in Reqs, NEW s \in Students, NEW c \in Codes, RegisterRead(r, s, c)
      PROVE  SInv' /\ byHand' = byHand
  <2>1. SeatsTypeOK' /\ InHand(r)'
    BY <1>5 DEF RegisterRead, seatRows, SInv, SeatsTypeOK, Request, InHand, At
  <2> QED
    BY <1>5, <2>1, RowsAlone DEF RegisterRead, SInv, SeatsTypeOK, seatRows
<1>6. ASSUME NEW r \in Reqs, Claim(r) PROVE SInv' /\ byHand' = byHand
  <2>2. req[r].code \in Codes /\ req[r].student \in Students
    BY <1>6 DEF Claim, SInv, InHand
  <2>3. SeatsTypeOK'
    <3>1. PICK next : /\ req' = [req EXCEPT ![r] = next]
                      /\ next \in {At("use", req[r].student, req[r].offering, req[r].code, req[r].new), Idle}
      BY <1>6 DEF Claim
    <3>2. req' \in [Reqs -> Request]
      <4>1. req \in [Reqs -> Request] /\ req[r] \in Request
        BY DEF SInv, SeatsTypeOK
      <4>2. next \in Request
        BY <3>1, <4>1, Typed
      <4> QED
        BY <3>1, <4>1, <4>2
    <3>3. codeLock' \in [Codes -> Reqs \cup {Nil}] /\ UNCHANGED <<seatRows, offeringLock>>
      BY <1>6, <2>2 DEF Claim, SInv, SeatsTypeOK
    <3> QED
      BY <3>2, <3>3 DEF seatRows, SInv, SeatsTypeOK
  <2>4. InHand(r)'
    BY <1>6, <2>2 DEF Claim, Claims, seatRows, SInv, SeatsTypeOK, Request, InHand, At, Idle
  <2>1. SeatsTypeOK' /\ InHand(r)'
    BY <2>3, <2>4
  <2> QED
    BY <1>6, <2>1, RowsAlone DEF Claim, SInv, SeatsTypeOK, seatRows
<1>7. ASSUME NEW r \in Reqs, Abort(r) PROVE SInv' /\ byHand' = byHand
  <2>1. SeatsTypeOK' /\ InHand(r)'
    BY <1>7 DEF Abort, seatRows, SInv, SeatsTypeOK, Request, InHand, At, Idle
  <2> QED
    BY <1>7, <2>1, RowsAlone DEF Abort, SInv, SeatsTypeOK, seatRows
<1>8. ASSUME NEW s \in Students, Register(s) PROVE SInv' /\ byHand' = byHand
  BY <1>8 DEF Register, SInv, SeatsTypeOK, UsesAreCounted, InHand
<1>9. ASSUME NEW s \in Students, NEW o \in Offerings, Drop(s, o) PROVE SInv' /\ RegistrarStep
  <2>1. SeatsTypeOK' /\ UsesAreCounted'
    BY <1>9 DEF Drop, SInv, SeatsTypeOK, UsesAreCounted
  <2>2. Cardinality(enrolled[o] \ {s}) <= Cardinality(enrolled[o]) /\ Cardinality(enrolled[o] \ {s}) \in Nat
        /\ Cardinality(enrolled[o]) \in Nat
    BY Finite, FS_RemoveElement, FS_Subset, FS_CardinalityType
  <2>3. ASSUME NEW r \in Reqs PROVE InHand(r)'
    BY <1>9, <2>2 DEF Drop, SInv, SeatsTypeOK, InHand
  <2>4. RegistrarStep
    BY <1>9 DEF Drop, SInv, SeatsTypeOK, RegistrarStep
  <2> QED
    BY <2>1, <2>3, <2>4 DEF SInv
<1>10. ASSUME NEW c \in Codes, CreateInvite(c) PROVE SInv' /\ byHand' = byHand
  BY <1>10 DEF CreateInvite, SInv, SeatsTypeOK, UsesAreCounted, InHand
<1>11. ASSUME NEW c \in Codes, RevokeInvite(c) PROVE SInv' /\ byHand' = byHand
  <2>1. SeatsTypeOK' /\ UsesAreCounted'
    BY <1>11, FS_EmptySet DEF RevokeInvite, SInv, SeatsTypeOK, UsesAreCounted
  <2>2. ASSUME NEW r \in Reqs PROVE InHand(r)'
    BY <1>11 DEF RevokeInvite, SInv, SeatsTypeOK, InHand
  <2> QED
    BY <1>11, <2>1, <2>2 DEF RevokeInvite, SInv
<1>12. ASSUME NEW r \in Reqs, Use(r) PROVE SInv' /\ byHand' = byHand
  BY <1>12, UseKeeps DEF Use, seatRows
<1> QED
  BY <1>0, <1>1, <1>2, <1>3, <1>4, <1>5, <1>6, <1>7, <1>8, <1>9, <1>10, <1>11, <1>12, CreateKeeps
  DEF SeatsNext

THEOREM SeatsInvariance == SeatsSpec => []SInv
  BY InitSInv, StepSInv, PTL DEF SeatsSpec

\* The counter of a code is the number of its users, and at most maxUses.
THEOREM CodesAreCounted == SeatsSpec => [](SeatsTypeOK /\ UsesAreCounted)
<1>1. SInv => SeatsTypeOK /\ UsesAreCounted
  BY DEF SInv
<1> QED
  BY <1>1, SeatsInvariance, PTL

\* The registrar never seats a student past the capacity of the offering.
THEOREM RegistrarSafety == SeatsSpec => RegistrarNeverOversells
  BY InitSInv, StepSInv, PTL DEF SeatsSpec, RegistrarNeverOversells

\* Seats implements Roster: the commit of each transaction is the step the
\* contract asks for, on the rows as they are then.
LEMMA UseRedeems ==
  ASSUME SInv, NEW r \in Reqs, Use(r), accounts' # accounts \/ uses' # uses \/ usedCount' # usedCount
                                       \/ enrolled' # enrolled
  PROVE  \E s \in Students, c \in Codes : RosterContract!Redeem(s, c)
<1> DEFINE s == req[r].student  o == req[r].offering  c == req[r].code
<1>1. /\ s \in Students /\ c \in Codes /\ o = offeringOf[c] /\ (~req[r].new => s \in accounts)
      /\ codes[c] = "live" /\ usedCount[c] < maxUses[c]
  BY DEF Use, SInv, InHand
<1>2. /\ ~UsedBefore(s, c)
      /\ uses' = [uses EXCEPT ![c] = @ \cup {s}]
      /\ usedCount' = [usedCount EXCEPT ![c] = @ + 1]
      /\ enrolled' = [p \in Offerings |-> IF p = o THEN enrolled[p] \cup {s} ELSE enrolled[p]]
      /\ accounts' = WithAccount(r)
      /\ UNCHANGED <<byHand, codes>>
  BY DEF Use, seatRows
<1>3. accounts' = accounts \cup {s}
  BY <1>1, <1>2 DEF WithAccount
<1>4. RosterContract!Redeem(s, c)
  BY <1>1, <1>2, <1>3 DEF RosterContract!Redeem, UsedBefore
<1> QED
  BY <1>1, <1>4

LEMMA SeatsStepMaps ==
  SInv /\ [SeatsNext]_seatVars => [RosterContract!Next]_(RosterContract!rosterVars)
<1> SUFFICES ASSUME SInv, [SeatsNext]_seatVars PROVE RosterContract!Next \/ UNCHANGED seatRows
  BY DEF seatRows, RosterContract!rosterVars
<1>1. ASSUME NEW r \in Reqs, EnrollCreate(r) PROVE RosterContract!Next
  <2> DEFINE s == req[r].student  o == req[r].offering
  <2>1. s \in accounts /\ s \in Students /\ o \in Offerings /\ Cardinality(enrolled[o]) < capacity[o]
    BY <1>1 DEF EnrollCreate, SInv, InHand, SeatsTypeOK
  <2>2. \A S : RosterContract!Cardinality(S) = Cardinality(S)
    BY DEF RosterContract!Cardinality, Cardinality
  <2>3. RosterContract!SeatByHand(s, o)
    BY <1>1, <2>1, <2>2 DEF EnrollCreate, RosterContract!SeatByHand
  <2> QED
    BY <2>1, <2>3 DEF RosterContract!Next
<1>2. ASSUME NEW r \in Reqs, Use(r) PROVE RosterContract!Next \/ UNCHANGED seatRows
  <2>1. UNCHANGED <<byHand, codes>>
    BY <1>2 DEF Use, seatRows
  <2> QED
    BY <1>2, <2>1, UseRedeems DEF RosterContract!Next, seatRows
<1>3. ASSUME NEW s \in Students, Register(s) PROVE RosterContract!Next
  BY <1>3 DEF Register, RosterContract!OpenAccount, RosterContract!Next
<1>4. ASSUME NEW s \in Students, NEW o \in Offerings, Drop(s, o) PROVE RosterContract!Next
  BY <1>4 DEF Drop, RosterContract!Leave, RosterContract!Next
<1>5. ASSUME NEW c \in Codes, CreateInvite(c) PROVE RosterContract!Next
  BY <1>5 DEF CreateInvite, RosterContract!Issue, RosterContract!Next
<1>6. ASSUME NEW c \in Codes, RevokeInvite(c) PROVE RosterContract!Next
  BY <1>6 DEF RevokeInvite, RosterContract!Revoke, RosterContract!Next
<1> QED
  BY <1>1, <1>2, <1>3, <1>4, <1>5, <1>6
  DEF SeatsNext, EnrollLock, EnrollCount, RedeemRead, RegisterRead, Claim, Abort, seatVars

\* However enrolments, redemptions and revocations interleave, the rows show each
\* of them in one step and within the limits that hold at that step.
THEOREM SeatsRefineRoster == SeatsSpec => ImplementsRoster
<1>1. SeatsInit => RosterContract!Init
  BY DEF SeatsInit, RosterContract!Init
<1> QED
  BY <1>1, SeatsStepMaps, SeatsInvariance, PTL DEF SeatsSpec, ImplementsRoster, RosterContract!Spec

-----------------------------------------------------------------------------
(* Sessions.  Every version a request or a token carries is a version the      *)
(* account has had; while it is still the account's, what was read with it     *)
(* holds, for nothing the code does changes the password, or disables the      *)
(* account, without moving the version.                                        *)

\* What a request under way knows of the row, and what a token stands for.
Honest(q, row) ==
  /\ q.ver <= row.tokenVersion
  /\ q.step \in {"verify", "change"} /\ q.ver = row.tokenVersion =>
       q.password = row.password /\ (q.isActive => row.isActive)
  /\ q.step \in {"change", "reread"} => q.by = "change"
  /\ q.step = "issue" /\ q.by = "login" /\ q.ver = row.tokenVersion =>
       q.password = row.password /\ row.isActive

Given(t, row) ==
  /\ t.ver <= row.tokenVersion
  /\ t.by = "login" /\ t.ver = row.tokenVersion => t.password = row.password /\ row.isActive

AInv ==
  /\ SessionsTypeOK
  /\ \A t \in tokens : Given(t, account)
  /\ \A r \in Calls : Honest(call[r], account)
  /\ LockConverges
  /\ OneResetPerLink

\* No step takes the version back, or changes under it what it vouches for.
Forward ==
  /\ account' \in Account
  /\ account.tokenVersion <= account'.tokenVersion
  /\ account'.tokenVersion = account.tokenVersion =>
       account'.password = account.password /\ (account.isActive => account'.isActive)

LEMMA BumpedRow ==
  ASSUME NEW row \in Account
  PROVE  /\ Bumped(row) \in Account /\ Bumped(row).tokenVersion = row.tokenVersion + 1
         /\ Bumped(row).password = row.password /\ Bumped(row).isActive = row.isActive
         /\ Bumped(row).failedLoginCount = row.failedLoginCount /\ Bumped(row).lock = row.lock
  BY DEF Bumped, Account

Closed(l) == links[l] \in {"dead", "deleted"}

LEMMA RestsHonest == Rests \in Call /\ Rests.link = NoLink /\ Rests.step = "idle" /\ Rests.ver = 0
  BY DEF Rests, Doing, Call, CallStep

LEMMA InitAInv == SessionsInit => AInv
<1> SUFFICES ASSUME SessionsInit PROVE AInv
  OBVIOUS
<1>1. /\ account \in Account /\ account.failedLoginCount = 0 /\ account.tokenVersion = 0
      /\ \A r \in Calls : call[r] = Rests
  BY DEF SessionsInit, Account
<1>2. SessionsTypeOK
  BY <1>1, RestsHonest DEF SessionsInit, SessionsTypeOK
<1>5. Honest(Rests, account)
  BY <1>1, RestsHonest DEF Honest
<1>3. \A r \in Calls : Honest(call[r], account)
  BY <1>1, <1>5
<1>4. LockConverges
  BY <1>1, SessionsAssumption DEF LockConverges
<1> QED
  BY <1>1, <1>2, <1>3, <1>4, RestsHonest DEF SessionsInit, AInv, OneResetPerLink

\* The known stays known when the version only goes forward.
LEMMA KnownKept ==
  ASSUME AInv, Forward, tokens' \subseteq Token, call' \in [Calls -> Call],
         \A t \in tokens' : t \in tokens \/ Given(t, account'),
         \A p \in Calls : call'[p] = call[p] \/ Honest(call'[p], account')
  PROVE  /\ \A t \in tokens' : Given(t, account')
         /\ \A p \in Calls : Honest(call'[p], account')
<1>1. account.tokenVersion \in Nat /\ account'.tokenVersion \in Nat
  BY DEF AInv, SessionsTypeOK, Account, Forward
<1>2. ASSUME NEW t \in tokens' PROVE Given(t, account')
  <2>1. CASE t \in tokens
    <3>1. Given(t, account) /\ t.ver \in Nat
      BY <2>1 DEF AInv, SessionsTypeOK, Token
    <3> QED
      BY <1>1, <3>1 DEF Given, Forward
  <2> QED
    BY <2>1
<1>3. ASSUME NEW p \in Calls PROVE Honest(call'[p], account')
  <2>1. CASE call'[p] = call[p]
    <3>1. Honest(call[p], account) /\ call[p].ver \in Nat
      BY DEF AInv, SessionsTypeOK, Call
    <3> QED
      BY <1>1, <2>1, <3>1 DEF Honest, Forward
  <2> QED
    BY <2>1
<1> QED
  BY <1>2, <1>3

\* A link somebody claimed is not claimed again.
LEMMA LinksKept ==
  ASSUME AInv, \A l \in Links : Closed(l) => Closed(l)', call' \in [Calls -> Call],
         \A p \in Calls : call'[p].link \in {NoLink, call[p].link}
  PROVE  OneResetPerLink'
  BY SessionsAssumption DEF AInv, SessionsTypeOK, Call, OneResetPerLink, Closed

\* Nobody counts a failure, and nobody who is about to lock forgets to.
LEMMA LockKept ==
  ASSUME AInv, account'.failedLoginCount = account.failedLoginCount, account'.lock = account.lock,
         UNCHANGED died, \A p \in Calls : call[p].step = "lock" => call'[p].step = "lock"
  PROVE  LockConverges'
  BY DEF AInv, LockConverges, IsAt

\* A step of one request.
LEMMA CallKept ==
  ASSUME AInv, NEW r \in Calls, NEW to \in Call, Goes(r, to), Forward, tokens' \subseteq Token,
         links' \in [Links -> {"none", "live", "dead", "deleted"}], died' \in BOOLEAN,
         \A t \in tokens' : t \in tokens \/ Given(t, account'), Honest(to, account'),
         \A l \in Links : Closed(l) => Closed(l)', to.link \in {NoLink, call[r].link},
         LockConverges'
  PROVE  AInv'
<1>1. call' \in [Calls -> Call] /\ call'[r] = to /\ \A p \in Calls \ {r} : call'[p] = call[p]
  BY DEF AInv, SessionsTypeOK, Goes
<1>2. SessionsTypeOK'
  BY <1>1 DEF SessionsTypeOK, Forward
<1>3. (\A t \in tokens' : Given(t, account')) /\ \A p \in Calls : Honest(call'[p], account')
  BY <1>1, KnownKept
<1>4. OneResetPerLink'
  BY <1>1, LinksKept
<1> QED
  BY <1>2, <1>3, <1>4 DEF AInv

\* A step of one request that writes neither the row, a token nor a link.
LEMMA ReadKept ==
  ASSUME AInv, NEW r \in Calls, NEW to \in Call, Goes(r, to), UNCHANGED <<account, tokens, links, died>>,
         Honest(to, account), to.link \in {NoLink, call[r].link}, call[r].step # "lock"
  PROVE  AInv'
<1>1. Forward /\ account'.tokenVersion \in Nat
  BY DEF AInv, SessionsTypeOK, Account, Forward
<1>2. Honest(to, account')
  BY DEF Honest
<1>3. LockConverges'
  BY LockKept DEF Goes, AInv, SessionsTypeOK
<1>4. \A l \in Links : Closed(l) => Closed(l)'
  BY DEF Closed
<1> QED
  BY <1>1, <1>2, <1>3, <1>4, CallKept DEF AInv, SessionsTypeOK

\* A step of none.
LEMMA RowKept ==
  ASSUME AInv, UNCHANGED <<tokens, died, call>>, Forward, LockConverges',
         links' \in [Links -> {"none", "live", "dead", "deleted"}], \A l \in Links : Closed(l) => Closed(l)'
  PROVE  AInv'
<1>1. call' \in [Calls -> Call] /\ tokens' \subseteq Token
  BY DEF AInv, SessionsTypeOK
<1>2. SessionsTypeOK'
  BY DEF AInv, SessionsTypeOK, Forward
<1>3. (\A t \in tokens' : Given(t, account')) /\ \A p \in Calls : Honest(call'[p], account')
  BY <1>1, KnownKept
<1>4. OneResetPerLink'
  BY <1>1, LinksKept
<1> QED
  BY <1>2, <1>3, <1>4 DEF AInv

LEMMA StepAInv == AInv /\ [SessionsNext]_sessionVars => AInv'
<1> SUFFICES ASSUME AInv, [SessionsNext]_sessionVars PROVE AInv'
  OBVIOUS
<1>a. /\ account \in Account /\ tokens \subseteq Token /\ died \in BOOLEAN
      /\ links \in [Links -> {"none", "live", "dead", "deleted"}]
      /\ \A r \in Calls : call[r] \in Call /\ Honest(call[r], account)
      /\ \A t \in tokens : Given(t, account)
      /\ LockConverges
  BY DEF AInv, SessionsTypeOK
<1>b. UNCHANGED account => Forward
  BY <1>a DEF Forward, Account
<1>c. UNCHANGED links => \A l \in Links : Closed(l) => Closed(l)'
  BY DEF Closed
<1>d. ASSUME NEW r \in Calls, NEW step \in CallStep
      PROVE  /\ To(r, step) \in Call /\ To(r, step).step = step /\ To(r, step).link = call[r].link
             /\ To(r, step).ver = call[r].ver /\ To(r, step).password = call[r].password
             /\ To(r, step).by = call[r].by /\ To(r, step).isActive = call[r].isActive
  BY <1>a DEF To, Call
<1>e. ASSUME NEW step \in CallStep, NEW by \in {"login", "change", "select"}
      PROVE  /\ Reads(step, by) \in Call /\ Reads(step, by).step = step /\ Reads(step, by).link = NoLink
             /\ Reads(step, by).ver = account.tokenVersion /\ Reads(step, by).password = account.password
             /\ Reads(step, by).by = by /\ Reads(step, by).isActive = account.isActive
  BY <1>a DEF Reads, Doing, Call, Account
<1>f. account.tokenVersion \in Nat /\ account.password \in Nat /\ account.failedLoginCount \in Nat
  BY <1>a DEF Account
<1>g. Honest(Rests, account) /\ (account'.tokenVersion \in Nat => Honest(Rests, account'))
  BY <1>f, RestsHonest DEF Honest
<1>h. Forward => Honest(Rests, account')
  BY <1>g DEF Forward, Account
<1>0. CASE UNCHANGED sessionVars
  <2>1. LockConverges'
    BY <1>0, LockKept DEF sessionVars
  <2> QED
    BY <1>0, <1>a, <1>b, <1>c, <2>1, RowKept DEF sessionVars
<1>1. ASSUME NEW r \in Calls, LoginRead(r) PROVE AInv'
  <2>1. Honest(Reads("verify", "login"), account)
    BY <1>e, <1>f DEF Honest, CallStep
  <2> QED
    BY <1>1, <1>e, <2>1, ReadKept DEF LoginRead, IsAt, CallStep
<1>2. ASSUME NEW r \in Calls, WrongPassword(r) PROVE AInv'
  <2> DEFINE failed == account.failedLoginCount + 1
             to == IF ShouldLock(failed) THEN To(r, "lock") ELSE Rests
  <2>1. account' = [account EXCEPT !.failedLoginCount = failed] /\ Goes(r, to) /\ UNCHANGED <<tokens, links, died>>
    BY <1>2 DEF WrongPassword
  <2>2. Forward /\ account'.tokenVersion = account.tokenVersion /\ account'.failedLoginCount = failed
        /\ account'.lock = account.lock
    BY <1>a, <1>f, <2>1 DEF Forward, Account
  <2>3. to \in Call /\ to.link \in {NoLink, call[r].link}
    BY <1>d, RestsHonest DEF CallStep
  <2>4. Honest(to, account')
    <3>1. Honest(To(r, "lock"), account')
      BY <1>a, <1>d, <2>2 DEF Honest, CallStep
    <3> QED
      BY <1>h, <2>2, <3>1
  <2>5. call'[r] = to /\ \A p \in Calls \ {r} : call'[p] = call[p]
    BY <2>1 DEF Goes, AInv, SessionsTypeOK
  <2>6. LockConverges'
    <3>1. CASE ShouldLock(failed)
      BY <1>d, <2>5, <3>1 DEF LockConverges, IsAt, CallStep
    <3>2. CASE ~ShouldLock(failed)
      BY <1>f, <2>2, <3>2, SessionsAssumption DEF LockConverges, ShouldLock
    <3> QED
      BY <3>1, <3>2
  <2> QED
    BY <1>a, <1>c, <2>1, <2>2, <2>3, <2>4, <2>6, CallKept
<1>3. ASSUME NEW r \in Calls, LockAccount(r) PROVE AInv'
  <2>1. Goes(r, Rests) /\ UNCHANGED <<tokens, links, died>>
        /\ account' = IF ShouldLock(account.failedLoginCount) THEN [account EXCEPT !.lock = "yes"] ELSE account
    BY <1>3 DEF LockAccount
  <2>2. Forward /\ account'.failedLoginCount = account.failedLoginCount
    BY <1>a, <1>f, <2>1 DEF Forward, Account
  <2>3. LockConverges'
    BY <1>a, <1>f, <2>1, <2>2, SessionsAssumption DEF LockConverges, ShouldLock, Account
  <2> QED
    BY <1>a, <1>c, <1>h, <2>1, <2>2, <2>3, RestsHonest, CallKept
<1>4. ASSUME NEW r \in Calls, RightPassword(r) PROVE AInv'
  <2>1. CASE ~call[r].isActive
    BY <1>4, <1>g, <2>1, RestsHonest, ReadKept DEF RightPassword, IsAt
  <2>2. CASE call[r].isActive
    <3>1. account' = [account EXCEPT !.failedLoginCount = 0, !.lock = "no"] /\ died' = FALSE
          /\ Goes(r, To(r, "issue")) /\ UNCHANGED <<tokens, links>>
      BY <1>4, <2>2 DEF RightPassword
    <3> DEFINE row == [account EXCEPT !.failedLoginCount = 0, !.lock = "no"]
    <3>6. row \in Account /\ row.failedLoginCount = 0 /\ row.tokenVersion = account.tokenVersion
          /\ row.password = account.password /\ row.isActive = account.isActive
      BY <1>a DEF Account
    <3>2. Forward /\ account'.failedLoginCount = 0 /\ account'.tokenVersion = account.tokenVersion
          /\ account'.password = account.password /\ account'.isActive = account.isActive
      BY <1>f, <3>1, <3>6 DEF Forward
    <3>3. Honest(To(r, "issue"), account')
      BY <1>4, <1>a, <1>d, <2>2, <3>2 DEF Honest, CallStep, RightPassword, IsAt
    <3>4. LockConverges'
      BY <3>2, SessionsAssumption DEF LockConverges
    <3>5. To(r, "issue") \in Call /\ To(r, "issue").link = call[r].link
      BY <1>d DEF CallStep
    <3> QED
      BY <1>a, <1>c, <3>1, <3>2, <3>3, <3>4, <3>5, CallKept
  <2> QED
    BY <2>1, <2>2
<1>5. ASSUME NEW r \in Calls, IssueTokens(r) PROVE AInv'
  <2>1. tokens' = tokens \cup {TokenOf(r)} /\ Goes(r, Rests) /\ UNCHANGED <<account, links, died>> /\ call[r].step = "issue"
    BY <1>5 DEF IssueTokens, IsAt
  <2>2. TokenOf(r) \in Token
    BY <1>a DEF TokenOf, Token, Call
  <2>3. Given(TokenOf(r), account')
    BY <1>a, <2>1 DEF Given, TokenOf, Honest
  <2>4. LockConverges'
    BY <2>1, RestsHonest, LockKept DEF Goes, AInv, SessionsTypeOK
  <2> QED
    BY <1>a, <1>b, <1>c, <1>h, <2>1, <2>2, <2>3, <2>4, RestsHonest, CallKept
<1>6. ASSUME NEW r \in Calls, NEW t \in tokens, RefreshTokens(r, t) PROVE AInv'
  <2> DEFINE to == Doing("issue", account.tokenVersion, t.password, TRUE, t.by, NoLink)
  <2>1. to \in Call /\ to.link = NoLink
    BY <1>a, <1>f DEF Doing, Call, CallStep, Token
  <2>2. Honest(to, account)
    BY <1>6, <1>a, <1>f DEF Honest, Doing, RefreshTokens, DecideRefresh, Given, Current
  <2> QED
    BY <1>6, <2>1, <2>2, ReadKept DEF RefreshTokens, IsAt
<1>7. ASSUME NEW r \in Calls, NEW t \in tokens, SelectInstitution(r, t) PROVE AInv'
  <2> DEFINE to == Doing("issue", account.tokenVersion, t.password, TRUE, "select", NoLink)
  <2>1. to \in Call /\ to.link = NoLink /\ Honest(to, account)
    BY <1>a, <1>f DEF Doing, Call, CallStep, Token, Honest
  <2> QED
    BY <1>7, <2>1, ReadKept DEF SelectInstitution, IsAt
<1>8. ASSUME NEW r \in Calls, LogoutRead(r) PROVE AInv'
  <2>1. Honest(Reads("logout", "login"), account)
    BY <1>e, <1>f DEF Honest, CallStep
  <2> QED
    BY <1>8, <1>e, <2>1, ReadKept DEF LogoutRead, IsAt, CallStep
<1>9. ASSUME NEW r \in Calls, LogoutBump(r) PROVE AInv'
  <2>1. Goes(r, Rests) /\ UNCHANGED <<tokens, links, died>> /\ call[r].step = "logout"
        /\ (account' = account \/ account' = Bumped(account))
    BY <1>9 DEF LogoutBump, IsAt
  <2>2. Forward /\ account'.failedLoginCount = account.failedLoginCount /\ account'.lock = account.lock
    BY <1>a, <1>f, <2>1 DEF Forward, Account, Bumped
  <2>3. LockConverges'
    BY <2>1, <2>2, RestsHonest, LockKept DEF Goes, AInv, SessionsTypeOK
  <2> QED
    BY <1>a, <1>c, <1>h, <2>1, <2>2, <2>3, RestsHonest, CallKept
<1>10. ASSUME NEW r \in Calls, ChangeRead(r) PROVE AInv'
  <2>1. Honest(Reads("change", "change"), account)
    BY <1>e, <1>f DEF Honest, CallStep
  <2> QED
    BY <1>10, <1>e, <2>1, ReadKept DEF ChangeRead, IsAt, CallStep
<1>11. ASSUME NEW r \in Calls, ChangeWrite(r) PROVE AInv'
  <2>1. CASE Superseded(r)
    BY <1>11, <1>g, <2>1, RestsHonest, ReadKept DEF ChangeWrite, IsAt
  <2>2. CASE ~Superseded(r)
    <3> DEFINE new == account.password + 1
               to == [To(r, "reread") EXCEPT !.password = new]
    <3>1. account' = Bumped([account EXCEPT !.password = new]) /\ Goes(r, to) /\ UNCHANGED <<tokens, links, died>>
          /\ call[r].step = "change"
      BY <1>11, <2>2 DEF ChangeWrite, IsAt
    <3> DEFINE row == [account EXCEPT !.password = new]
    <3>7. row \in Account /\ row.tokenVersion = account.tokenVersion
          /\ row.failedLoginCount = account.failedLoginCount /\ row.lock = account.lock
      BY <1>a, <1>f DEF Account
    <3>8. account' = Bumped(row)
      BY <3>1
    <3> HIDE DEF row
    <3>2. Forward /\ account'.failedLoginCount = account.failedLoginCount /\ account'.lock = account.lock
          /\ account'.tokenVersion = account.tokenVersion + 1
      BY <1>f, <3>7, <3>8, BumpedRow DEF Forward
    <3>3. /\ to \in Call /\ to.link = call[r].link /\ to.step = "reread" /\ to.by = call[r].by
          /\ to.ver = call[r].ver
      BY <1>a, <1>d, <1>f DEF Call, CallStep
    <3>4. call[r].by = "change" /\ call[r].ver <= account.tokenVersion /\ call[r].ver \in Nat
      BY <1>a, <3>1 DEF Honest, Call
    <3>5. Honest(to, account')
      BY <1>f, <3>2, <3>3, <3>4 DEF Honest
    <3>6. LockConverges'
      BY <3>1, <3>2, LockKept DEF Goes, AInv, SessionsTypeOK
    <3> QED
      BY <1>a, <1>c, <3>1, <3>2, <3>3, <3>5, <3>6, CallKept
  <2> QED
    BY <2>1, <2>2
<1>12. ASSUME NEW r \in Calls, ChangeReread(r) PROVE AInv'
  <2> DEFINE to == [To(r, "issue") EXCEPT !.ver = account.tokenVersion]
  <2>1. to \in Call /\ to.link = call[r].link /\ to.step = "issue" /\ to.by = call[r].by /\ to.ver = account.tokenVersion
    BY <1>a, <1>d, <1>f DEF Call, CallStep
  <2>2. Honest(to, account)
    BY <1>12, <1>a, <1>f, <2>1 DEF Honest, ChangeReread, IsAt
  <2> QED
    BY <1>12, <2>1, <2>2, ReadKept DEF ChangeReread, IsAt
<1>13. ASSUME NEW r \in Calls, KillLinks(r) PROVE AInv'
  <2> DEFINE to == Doing("mint", 0, 0, FALSE, "login", NoLink)
  <2>1. Goes(r, to) /\ UNCHANGED <<account, tokens, died>> /\ call[r].step = "idle"
        /\ links' = [l \in Links |-> IF links[l] = "live" THEN "dead" ELSE links[l]]
    BY <1>13 DEF KillLinks, IsAt
  <2>2. to \in Call /\ to.link = NoLink /\ Honest(to, account')
    BY <1>f, <2>1 DEF Doing, Call, CallStep, Honest
  <2>3. links' \in [Links -> {"none", "live", "dead", "deleted"}] /\ \A l \in Links : Closed(l) => Closed(l)'
    BY <1>a, <2>1 DEF Closed
  <2>4. LockConverges'
    BY <2>1, LockKept DEF Goes, AInv, SessionsTypeOK
  <2> QED
    BY <1>a, <1>b, <2>1, <2>2, <2>3, <2>4, CallKept
<1>14. ASSUME NEW r \in Calls, NEW l \in Links, MintLink(r, l) PROVE AInv'
  <2>1. Goes(r, Rests) /\ UNCHANGED <<account, tokens, died>> /\ call[r].step = "mint"
        /\ links[l] = "none" /\ links' = [links EXCEPT ![l] = "live"]
    BY <1>14 DEF MintLink, IsAt
  <2>2. links' \in [Links -> {"none", "live", "dead", "deleted"}] /\ \A k \in Links : Closed(k) => Closed(k)'
    BY <1>a, <2>1 DEF Closed
  <2>3. LockConverges'
    BY <2>1, LockKept DEF Goes, AInv, SessionsTypeOK
  <2> QED
    BY <1>a, <1>b, <1>h, <2>1, <2>2, <2>3, RestsHonest, CallKept
<1>15. ASSUME NEW r \in Calls, NEW l \in Links, ResetClaim(r, l) PROVE AInv'
  <2> DEFINE to == Doing("resetRead", 0, 0, FALSE, "login", l)
  <2>1. Goes(r, to) /\ UNCHANGED <<account, tokens, died>> /\ call[r].step = "idle"
        /\ links[l] = "live" /\ links' = [links EXCEPT ![l] = "dead"]
    BY <1>15 DEF ResetClaim, IsAt, ClaimLink
  <2>2. to \in Call /\ to.link = l /\ Honest(to, account')
    BY <1>f, <2>1 DEF Doing, Call, CallStep, Honest
  <2>3. links' \in [Links -> {"none", "live", "dead", "deleted"}]
    BY <1>a, <2>1
  <2>4. call' \in [Calls -> Call] /\ call'[r] = to /\ \A p \in Calls \ {r} : call'[p] = call[p]
    BY <2>1, <2>2 DEF Goes, AInv, SessionsTypeOK
  <2>5. LockConverges'
    BY <2>1, <2>4, LockKept
  <2>6. ASSUME NEW p \in Calls, p # r, call[p].link # NoLink
        PROVE  call[p].link # l /\ links'[call[p].link] \in {"dead", "deleted"}
    <3>1. links[call[p].link] \in {"dead", "deleted"} /\ call[p].link \in Links
      BY <1>a, <2>6 DEF AInv, OneResetPerLink, Call
    <3> QED
      BY <1>a, <2>1, <3>1
  <2>7. OneResetPerLink'
    <3> SUFFICES ASSUME NEW p \in Calls, call'[p].link # NoLink
                 PROVE  /\ links'[call'[p].link] \in {"dead", "deleted"}
                        /\ \A s \in Calls : call'[s].link = call'[p].link => s = p
      BY DEF OneResetPerLink
    <3>1. CASE p = r
      BY <1>a, <2>1, <2>2, <2>4, <2>6, <3>1
    <3>2. CASE p # r
      BY <2>2, <2>4, <2>6, <3>2 DEF AInv, OneResetPerLink
    <3> QED
      BY <3>1, <3>2
  <2>8. (\A t \in tokens' : Given(t, account')) /\ \A p \in Calls : Honest(call'[p], account')
    BY <1>a, <1>b, <2>1, <2>2, <2>4, KnownKept
  <2> QED
    BY <1>a, <2>1, <2>3, <2>4, <2>5, <2>7, <2>8 DEF AInv, SessionsTypeOK
<1>16. ASSUME NEW r \in Calls, ResetRead(r) PROVE AInv'
  <2> DEFINE step == IF IsAt(r, "resetRead") THEN "reset" ELSE "resetAgain"
             to == [To(r, step) EXCEPT !.ver = account.tokenVersion]
  <2>1. to \in Call /\ to.link = call[r].link /\ to.step = step /\ to.ver = account.tokenVersion
    BY <1>a, <1>d, <1>f DEF Call, CallStep
  <2>2. Honest(to, account)
    BY <1>f, <2>1 DEF Honest
  <2>3. call[r].step # "lock" /\ (Goes(r, to) \/ Goes(r, Rests)) /\ UNCHANGED <<account, tokens, links, died>>
    BY <1>16 DEF ResetRead
  <2> QED
    BY <1>g, <2>1, <2>2, <2>3, RestsHonest, ReadKept
<1>17. ASSUME NEW r \in Calls, ResetWrite(r) PROVE AInv'
  <2>1. CASE Superseded(r)
    <3> DEFINE to == IF IsAt(r, "reset") THEN To(r, "resetReread") ELSE Rests
    <3>1. Goes(r, to) /\ UNCHANGED <<account, tokens, links, died>> /\ call[r].step # "lock"
      BY <1>17, <2>1 DEF ResetWrite
    <3>2. to \in Call /\ to.link \in {NoLink, call[r].link}
      BY <1>d, RestsHonest DEF CallStep
    <3>3. Honest(To(r, "resetReread"), account)
      BY <1>a, <1>d DEF Honest, CallStep
    <3>4. Honest(to, account)
      BY <1>g, <3>3
    <3> QED
      BY <3>1, <3>2, <3>4, ReadKept
  <2>2. CASE ~Superseded(r)
    <3>1. account' = Bumped([account EXCEPT !.password = @ + 1, !.failedLoginCount = 0, !.lock = "no"])
          /\ died' = FALSE /\ Goes(r, To(r, "clean")) /\ UNCHANGED <<tokens, links>>
      BY <1>17, <2>2 DEF ResetWrite
    <3> DEFINE row == [account EXCEPT !.password = @ + 1, !.failedLoginCount = 0, !.lock = "no"]
    <3>9. account.password + 1 \in Nat
      BY <1>f
    <3>7. row \in Account /\ row.tokenVersion = account.tokenVersion /\ row.failedLoginCount = 0
      BY <1>a, <3>9 DEF Account
    <3>8. account' = Bumped(row)
      BY <3>1
    <3> HIDE DEF row
    <3>2. Forward /\ account'.failedLoginCount = 0 /\ account'.tokenVersion = account.tokenVersion + 1
      BY <1>f, <3>7, <3>8, BumpedRow DEF Forward
    <3>3. To(r, "clean") \in Call /\ To(r, "clean").link = call[r].link /\ To(r, "clean").step = "clean"
          /\ To(r, "clean").ver = call[r].ver
      BY <1>d DEF CallStep
    <3>4. call[r].ver <= account.tokenVersion /\ call[r].ver \in Nat
      BY <1>a DEF Honest, Call
    <3>5. Honest(To(r, "clean"), account')
      BY <1>f, <3>2, <3>3, <3>4 DEF Honest
    <3>6. LockConverges'
      BY <3>2, SessionsAssumption DEF LockConverges
    <3> QED
      BY <1>a, <1>c, <3>1, <3>2, <3>3, <3>5, <3>6, CallKept
  <2> QED
    BY <2>1, <2>2
<1>18. ASSUME NEW r \in Calls, ResetClean(r) PROVE AInv'
  <2>1. Goes(r, Rests) /\ UNCHANGED <<account, tokens, died>> /\ call[r].step = "clean"
        /\ links' = [l \in Links |-> IF l # call[r].link /\ links[l] # "none" THEN "deleted" ELSE links[l]]
    BY <1>18 DEF ResetClean, IsAt
  <2>2. links' \in [Links -> {"none", "live", "dead", "deleted"}] /\ \A l \in Links : Closed(l) => Closed(l)'
    BY <1>a, <2>1 DEF Closed
  <2>3. LockConverges'
    BY <2>1, LockKept DEF Goes, AInv, SessionsTypeOK
  <2> QED
    BY <1>a, <1>b, <1>h, <2>1, <2>2, <2>3, RestsHonest, CallKept
<1>19. ASSUME NEW r \in Calls, Dies(r) PROVE AInv'
  <2>1. Goes(r, Rests) /\ UNCHANGED <<account, tokens, links>> /\ died' = (died \/ call[r].step = "lock")
    BY <1>19 DEF Dies, IsAt
  <2>2. LockConverges'
    <3>1. call'[r] = Rests /\ \A p \in Calls \ {r} : call'[p] = call[p]
      BY <2>1 DEF Goes, AInv, SessionsTypeOK
    <3> QED
      BY <1>a, <2>1, <3>1 DEF LockConverges, IsAt
  <2>3. died' \in BOOLEAN
    BY <2>1
  <2> QED
    BY <1>a, <1>b, <1>c, <1>h, <2>1, <2>2, <2>3, RestsHonest, CallKept
<1>20. CASE ChangeRole \/ Deactivate \/ Activate
  <2>1. UNCHANGED <<tokens, links, died, call>>
    BY <1>20 DEF ChangeRole, Deactivate, Activate
  <2>2. Forward /\ account'.failedLoginCount = account.failedLoginCount /\ account'.lock = account.lock
    <3>1. CASE ChangeRole
      BY <1>a, <1>f, <3>1, BumpedRow DEF ChangeRole, Forward
    <3>2. CASE Deactivate
      <4> DEFINE row == [account EXCEPT !.isActive = FALSE]
      <4>1. row \in Account /\ row.tokenVersion = account.tokenVersion
            /\ row.failedLoginCount = account.failedLoginCount /\ row.lock = account.lock
        BY <1>a DEF Account
      <4>2. account' = Bumped(row)
        BY <3>2 DEF Deactivate
      <4> HIDE DEF row
      <4> QED
        BY <1>f, <4>1, <4>2, BumpedRow DEF Forward
    <3>3. CASE Activate
      <4>1. account' = [account EXCEPT !.isActive = TRUE]
        BY <3>3 DEF Activate
      <4>2. account' \in Account /\ account'.isActive = TRUE /\ account'.tokenVersion = account.tokenVersion
            /\ account'.password = account.password /\ account'.lock = account.lock
            /\ account'.failedLoginCount = account.failedLoginCount
        BY <1>a, <4>1 DEF Account
      <4> QED
        BY <1>f, <4>2 DEF Forward
    <3> QED
      BY <1>20, <3>1, <3>2, <3>3
  <2>3. LockConverges'
    BY <2>1, <2>2, LockKept
  <2> QED
    BY <1>a, <1>c, <2>1, <2>2, <2>3, RowKept
<1>21. CASE LockExpires
  <2>1. UNCHANGED <<tokens, links, died, call>> /\ account' = [account EXCEPT !.lock = "expired"]
    BY <1>21 DEF LockExpires
  <2>2. Forward /\ account'.lock = "expired"
    BY <1>a, <1>f, <2>1 DEF Forward, Account
  <2>3. LockConverges'
    BY <2>2 DEF LockConverges
  <2> QED
    BY <1>a, <1>c, <2>1, <2>2, <2>3, RowKept
<1>22. ASSUME NEW l \in Links, LinkExpires(l) PROVE AInv'
  <2>1. UNCHANGED <<account, tokens, died, call>> /\ links' = [links EXCEPT ![l] = "dead"] /\ links[l] = "live"
    BY <1>22 DEF LinkExpires
  <2>2. links' \in [Links -> {"none", "live", "dead", "deleted"}] /\ \A k \in Links : Closed(k) => Closed(k)'
    BY <1>a, <2>1 DEF Closed
  <2>3. LockConverges'
    BY <2>1, LockKept
  <2> QED
    BY <1>b, <2>1, <2>2, <2>3, RowKept
<1> QED
  BY <1>0, <1>1, <1>2, <1>3, <1>4, <1>5, <1>6, <1>7, <1>8, <1>9, <1>10, <1>11, <1>12, <1>13, <1>14, <1>15,
     <1>16, <1>17, <1>18, <1>19, <1>20, <1>21, <1>22
  DEF SessionsNext

\* However logins, refreshes, changes, resets and the office interleave: a
\* session ends with its password, the lock converges and a link resets once.
THEOREM AccountSafety ==
  SessionsSpec => [](SessionsTypeOK /\ SessionsEndWithThePassword /\ LockConverges /\ OneResetPerLink)
<1>1. AInv => SessionsTypeOK /\ SessionsEndWithThePassword /\ LockConverges /\ OneResetPerLink
  BY DEF AInv, SessionsEndWithThePassword, Given, Current
<1> QED
  BY <1>1, InitAInv, StepAInv, PTL DEF SessionsSpec

\* Guesses past the threshold leave the account locked or being locked.
THEOREM LocksConverge == SessionsSpec => []LockConverges
  BY AccountSafety, PTL

\* A reset link sets a password at most once.
THEOREM LinksResetOnce == SessionsSpec => []OneResetPerLink
  BY AccountSafety, PTL

\* A password change replaces the password that was proven.
THEOREM ChangeSafety == SessionsSpec => ChangesWhatWasProven
<1>1. ASSUME AInv, [SessionsNext]_sessionVars PROVE [ProvenStep]_sessionVars
  <2> SUFFICES ASSUME SessionsNext, NEW r \in Calls, call[r].step # "reread", call'[r].step = "reread"
               PROVE  account.password = call[r].password
    BY <1>1 DEF ProvenStep, IsAt
  <2>1. Honest(call[r], account) /\ call \in [Calls -> Call]
    BY <1>1 DEF AInv, SessionsTypeOK
  <2>2. ASSUME NEW p \in Calls, NEW to, Goes(p, to), p # r \/ to.step # "reread" PROVE FALSE
    BY <2>1, <2>2 DEF Goes
  <2>3. UNCHANGED call => FALSE
    OBVIOUS
  <2>4. ASSUME NEW p \in Calls, NEW step, step # "reread", Goes(p, To(p, step)) PROVE FALSE
    <3>1. To(p, step).step = step
      BY <2>1 DEF To, Call
    <3> QED
      BY <2>2, <2>4, <3>1
  <2>5. ASSUME NEW p \in Calls, ChangeWrite(p) PROVE account.password = call[r].password
    <3>1. CASE p = r
      BY <2>1, <2>2, <2>5, <3>1, RestsHonest DEF ChangeWrite, IsAt, Superseded, Honest
    <3>2. CASE p # r
      BY <2>2, <2>5, <3>2 DEF ChangeWrite
    <3> QED
      BY <3>1, <3>2
  <2>6. ASSUME NEW p \in Calls, LoginRead(p) \/ LogoutRead(p) \/ ChangeRead(p) \/ KillLinks(p) PROVE FALSE
    BY <2>2, <2>6 DEF LoginRead, LogoutRead, ChangeRead, KillLinks, Reads, Doing
  <2>7. ASSUME NEW p \in Calls, WrongPassword(p) \/ RightPassword(p) \/ ResetWrite(p) PROVE FALSE
    BY <2>2, <2>4, <2>7, RestsHonest DEF WrongPassword, RightPassword, ResetWrite
  <2>8. ASSUME NEW p \in Calls, LockAccount(p) \/ IssueTokens(p) \/ LogoutBump(p) \/ ResetClean(p) \/ Dies(p)
                                 \/ \E l \in Links : MintLink(p, l)
        PROVE FALSE
    BY <2>2, <2>8, RestsHonest DEF LockAccount, IssueTokens, LogoutBump, ResetClean, Dies, MintLink
  <2>9. ASSUME NEW p \in Calls, ChangeReread(p) \/ ResetRead(p) PROVE FALSE
    <3>1. ASSUME NEW step, NEW ver, step # "reread", Goes(p, [To(p, step) EXCEPT !.ver = ver]) PROVE FALSE
      <4>1. [To(p, step) EXCEPT !.ver = ver].step = step
        BY <2>1 DEF To, Call
      <4> QED
        BY <2>2, <3>1, <4>1
    <3> QED
      BY <2>2, <2>9, <3>1, RestsHonest DEF ChangeReread, ResetRead
  <2>10. ASSUME NEW p \in Calls, NEW t \in tokens, RefreshTokens(p, t) \/ SelectInstitution(p, t) PROVE FALSE
    BY <2>2, <2>10 DEF RefreshTokens, SelectInstitution, Doing
  <2>19. ASSUME NEW p \in Calls, NEW l \in Links, ResetClaim(p, l) PROVE FALSE
    BY <2>2, <2>19 DEF ResetClaim, Doing
  <2>11. ~(ChangeRole \/ Deactivate \/ Activate \/ LockExpires \/ \E l \in Links : LinkExpires(l))
    BY <2>3 DEF ChangeRole, Deactivate, Activate, LockExpires, LinkExpires
  <2>12. PICK p \in Calls :
           \/ LoginRead(p) \/ WrongPassword(p) \/ LockAccount(p) \/ RightPassword(p) \/ IssueTokens(p)
           \/ LogoutRead(p) \/ LogoutBump(p) \/ ChangeRead(p) \/ ChangeWrite(p) \/ ChangeReread(p)
           \/ KillLinks(p) \/ ResetRead(p) \/ ResetWrite(p) \/ ResetClean(p) \/ Dies(p)
           \/ \E t \in tokens : RefreshTokens(p, t) \/ SelectInstitution(p, t)
           \/ \E l \in Links : MintLink(p, l) \/ ResetClaim(p, l)
    BY <2>11 DEF SessionsNext
  <2>13. ~(LoginRead(p) \/ LogoutRead(p) \/ ChangeRead(p) \/ KillLinks(p))
    BY <2>6
  <2>14. ~(WrongPassword(p) \/ RightPassword(p) \/ ResetWrite(p))
    BY <2>7
  <2>15. ~(LockAccount(p) \/ IssueTokens(p) \/ LogoutBump(p) \/ ResetClean(p) \/ Dies(p)
           \/ \E l \in Links : MintLink(p, l))
    BY <2>8
  <2>16. ~(ChangeReread(p) \/ ResetRead(p))
    BY <2>9
  <2>17. ~((\E t \in tokens : RefreshTokens(p, t) \/ SelectInstitution(p, t)) \/ \E l \in Links : ResetClaim(p, l))
    BY <2>10, <2>19
  <2>18. ChangeWrite(p)
    BY <2>12, <2>13, <2>14, <2>15, <2>16, <2>17
  <2> QED
    BY <2>5, <2>18
<1> QED
  BY <1>1, InitAInv, StepAInv, PTL DEF SessionsSpec, ChangesWhatWasProven

-----------------------------------------------------------------------------
(* Governance.  A request locks rows in ascending order and changes none while *)
(* it locks, so they never wait in a ring.  Unless an owner is enabled while a  *)
(* request locks, it holds every active owner's row when it counts; one of them *)
(* is not its target, and nobody can change that row before it commits.         *)

\* The shape of change[r], and what holds of each request by itself.
Change == [step : {"idle", "begin", "lock", "write", "audit"}, kind : {"demote", "disable", "enable"},
           actor : Users \cup {0}, target : Users \cup {0},
           want : SUBSET Users, held : SUBSET Users, wrote : BOOLEAN, late : BOOLEAN]

LocksInOrder(q) ==
  /\ q.step # "idle" => q.target \in Users
  /\ q.step = "begin" => q.held = {}
  /\ q.step = "lock" => \A u \in q.held, v \in q.want : u < v
  /\ q.wrote <=> q.step = "audit"

GOrder == GovernanceTypeOK /\ \A r \in Changes : LocksInOrder(change[r])

LEMMA RestingInOrder == Resting \in Change /\ LocksInOrder(Resting)
  BY DEF Resting, Change, LocksInOrder

\* What a commit does to the others: it may mark them late.
Marked(q) == [q EXCEPT !.late = TRUE]

LEMMA MarkedIsTheSame ==
  ASSUME NEW q \in Change
  PROVE  /\ Marked(q) \in Change /\ Marked(q).late
         /\ Marked(q).step = q.step /\ Marked(q).kind = q.kind /\ Marked(q).target = q.target
         /\ Marked(q).want = q.want /\ Marked(q).held = q.held /\ Marked(q).wrote = q.wrote
  BY DEF Marked, Change

\* A step moves one request.
LEMMA MoveInOrder ==
  ASSUME GOrder, NEW r \in Changes, NEW to \in Change, Moves(r, to), LocksInOrder(to),
         owners' \subseteq Users, active' \subseteq Users
  PROVE  GOrder'
<1>1. change' \in [Changes -> Change] /\ change'[r] = to
      /\ \A p \in Changes \ {r} : change'[p] = change[p]
  BY DEF GOrder, GovernanceTypeOK, Moves, Change
<1>2. GovernanceTypeOK'
  BY <1>1 DEF GovernanceTypeOK, Change
<1>3. ASSUME NEW p \in Changes PROVE LocksInOrder(change'[p])
  BY <1>1 DEF GOrder
<1> QED
  BY <1>2, <1>3 DEF GOrder

LEMMA InitGOrder == GovernanceInit => GOrder
  BY RestingInOrder DEF GovernanceInit, GOrder, GovernanceTypeOK, Change

LEMMA StepGOrder == GOrder /\ [GovernanceNext]_governanceVars => GOrder'
<1> SUFFICES ASSUME GOrder, [GovernanceNext]_governanceVars PROVE GOrder'
  OBVIOUS
<1>a. /\ owners \subseteq Users /\ active \subseteq Users
      /\ \A r \in Changes : change[r] \in Change /\ LocksInOrder(change[r])
  BY DEF GOrder, GovernanceTypeOK, Change
<1>0. CASE UNCHANGED governanceVars
  BY <1>0 DEF governanceVars, GOrder, GovernanceTypeOK
<1>1. ASSUME NEW r \in Changes, NEW kind \in Kinds, NEW actor \in Users, NEW u \in Users, ChangeRequested(r, kind, actor, u)
      PROVE GOrder'
  <2> DEFINE to == [Resting EXCEPT !.step = IF RequiresGuard(kind, u) THEN "begin" ELSE "write",
                                   !.kind = kind, !.actor = actor, !.target = u]
  <2>1. to \in Change /\ LocksInOrder(to)
    BY GovernanceAssumption DEF Change, LocksInOrder, Resting
  <2> QED
    BY <1>1, <1>a, <2>1, MoveInOrder DEF ChangeRequested
<1>2. ASSUME NEW r \in Changes, FindOwners(r) PROVE GOrder'
  <2> DEFINE to == [change[r] EXCEPT !.step = "lock", !.want = ActiveOwners]
  <2>1. to \in Change /\ LocksInOrder(to)
    BY <1>2, <1>a DEF FindOwners, Stands, Change, LocksInOrder, ActiveOwners
  <2> QED
    BY <1>2, <1>a, <2>1, MoveInOrder DEF FindOwners
<1>3. ASSUME NEW r \in Changes, NEW u \in Users, LockRow(r, u) PROVE GOrder'
  <2> DEFINE q == change[r]
             held == q.held \cup {u}
             to == [q EXCEPT !.want = q.want \ {u}, !.held = held]
  <2>1. to \in Change
    BY <1>a DEF Change
  <2>2. /\ to.step = "lock" /\ q.step = "lock" /\ to.target = q.target /\ to.wrote = q.wrote
        /\ to.held = held /\ to.want = q.want \ {u}
    BY <1>3, <1>a DEF LockRow, Stands, Change
  <2>3. ASSUME NEW v \in held, NEW w \in q.want \ {u} PROVE v < w
    <3>1. u < w
      BY <1>3, <1>a, GovernanceAssumption DEF LockRow, NextRow, Change
    <3> QED
      BY <1>a, <2>2, <3>1 DEF LocksInOrder
  <2>4. LocksInOrder(to)
    BY <1>a, <2>2, <2>3 DEF LocksInOrder
  <2> QED
    BY <1>3, <1>a, <2>1, <2>4, MoveInOrder DEF LockRow
<1>4. ASSUME NEW r \in Changes, CountOwners(r) PROVE GOrder'
  <2> DEFINE to == [change[r] EXCEPT !.step = "write"]
  <2>1. to \in Change /\ LocksInOrder(to)
    BY <1>4, <1>a DEF CountOwners, Stands, Change, LocksInOrder
  <2> QED
    BY <1>4, <1>a, <2>1, MoveInOrder, RestingInOrder DEF CountOwners
<1>5. ASSUME NEW r \in Changes, UpdateUser(r) PROVE GOrder'
  <2> DEFINE to == [change[r] EXCEPT !.step = "audit", !.wrote = TRUE]
  <2>1. to \in Change /\ LocksInOrder(to)
    BY <1>5, <1>a DEF UpdateUser, Stands, Change, LocksInOrder
  <2> QED
    BY <1>5, <1>a, <2>1, MoveInOrder DEF UpdateUser
<1>6. ASSUME NEW r \in Changes, AuditAndCommit(r) PROVE GOrder'
  <2>1. change[r].target \in Users /\ change[r].kind \in {"demote", "disable", "enable"}
    BY <1>6, <1>a DEF AuditAndCommit, Stands, Change, LocksInOrder
  <2>2. owners' \subseteq Users /\ active' \subseteq Users
    BY <1>6, <1>a, <2>1 DEF AuditAndCommit
  <2>3. change' = [p \in Changes |-> change'[p]] /\ change'[r] = Resting
        /\ \A p \in Changes \ {r} : change'[p] \in {change[p], Marked(change[p])}
    BY <1>6 DEF AuditAndCommit, Marked
  <2>4. ASSUME NEW p \in Changes PROVE change'[p] \in Change /\ LocksInOrder(change'[p])
    BY <1>a, <2>3, RestingInOrder, MarkedIsTheSame DEF LocksInOrder
  <2>5. GovernanceTypeOK'
    <3>1. change' \in [Changes -> Change]
      BY <2>3, <2>4
    <3> QED
      BY <2>2, <3>1 DEF GovernanceTypeOK, Change
  <2> QED
    BY <2>4, <2>5 DEF GOrder
<1>7. ASSUME NEW r \in Changes, Rollback(r) PROVE GOrder'
  BY <1>7, <1>a, MoveInOrder, RestingInOrder DEF Rollback
<1> QED
  BY <1>0, <1>1, <1>2, <1>3, <1>4, <1>5, <1>6, <1>7 DEF GovernanceNext

\* In a finite set of numbers, not every one has a larger one beside it: take a
\* smallest set where they do, and leave one of its elements out.
LEMMA SomethingIsLargest ==
  ASSUME NEW W, IsFiniteSet(W), W \subseteq Nat, W # {}
  PROVE  \E x \in W : \A y \in W : ~(x < y)
<1> DEFINE Climbs(B) == B # {} /\ \A x \in B : \E y \in B : x < y
           Bad == {B \in FiniteSubsetsOf(W) : Climbs(B)}
<1> SUFFICES ASSUME Climbs(W) PROVE FALSE
  OBVIOUS
<1> HIDE DEF Climbs
<1>1. W \in Bad
  BY DEF FiniteSubsetsOf
<1>2. IsWellFoundedOn(StrictSubsetOrdering(W), FiniteSubsetsOf(W))
  BY FS_StrictSubsetOrderingWellFounded
<1>3. Bad \subseteq FiniteSubsetsOf(W) /\ Bad # {}
  BY <1>1
<1>4. PICK B \in Bad : \A C \in Bad : <<C, B>> \notin StrictSubsetOrdering(W)
  <2> HIDE DEF Bad
  <2> QED
    BY <1>2, <1>3, WFMin
<1>5. B \subseteq W /\ IsFiniteSet(B) /\ Climbs(B)
  BY <1>4 DEF FiniteSubsetsOf
<1>6. PICK x \in B : TRUE
  BY <1>5 DEF Climbs
<1> DEFINE C == B \ {x}
<1>7. Climbs(C)
  <2>1. PICK y \in B : x < y
    BY <1>5 DEF Climbs
  <2>2. y \in C
    BY <1>5, <2>1
  <2>3. ASSUME NEW z \in C PROVE \E w \in C : z < w
    <3>1. PICK w \in B : z < w
      BY <1>5 DEF Climbs
    <3>2. CASE w = x
      BY <1>5, <2>1, <2>2, <3>1, <3>2
    <3>3. CASE w # x
      BY <3>1, <3>3
    <3> QED
      BY <3>2, <3>3
  <2> QED
    BY <2>2, <2>3 DEF Climbs
<1>8. C \in FiniteSubsetsOf(W)
  BY <1>5, FS_RemoveElement DEF FiniteSubsetsOf
<1>9. <<C, B>> \in StrictSubsetOrdering(W)
  BY <1>5, <1>6 DEF StrictSubsetOrdering
<1> QED
  BY <1>4, <1>7, <1>8, <1>9

\* A request waits for a row larger than those it has locked, so whoever waits in
\* a ring wants a row, and the one it waits for wants a larger.
LEMMA NoRing == GOrder => LockersDoNotRing
<1> SUFFICES ASSUME GOrder, NEW R \in SUBSET Changes, R # {},
                    \A r \in R : \E p \in R \ {r} : WaitsFor(r, p)
             PROVE  FALSE
  BY DEF LockersDoNotRing
<1> DEFINE Wants(r, u) == u \in change[r].want /\ NextRow(change[r].want, u)
           W == {u \in Users : \E r \in R : Wants(r, u)}
<1>1. \A r \in R : change[r].step = "lock" /\ ~change[r].wrote
  BY DEF WaitsFor, Stands, GOrder, LocksInOrder
<1>2. \A r \in R : change[r].want \subseteq Users /\ change[r].want \subseteq Nat
  BY GovernanceAssumption DEF GOrder, GovernanceTypeOK
<1>3. ASSUME NEW r \in R PROVE \E u \in W : Wants(r, u)
  BY <1>2 DEF WaitsFor
<1>4. ASSUME NEW u \in W PROVE \E v \in W : u < v
  <2>1. PICK r \in R : Wants(r, u)
    OBVIOUS
  <2>2. PICK p \in R \ {r}, t \in change[r].want : NextRow(change[r].want, t) /\ Holds(p, t)
    BY DEF WaitsFor
  <2>3. t = u
    BY <1>2, <2>1, <2>2 DEF NextRow
  <2>4. u \in change[p].held
    BY <1>1, <2>2, <2>3 DEF Holds
  <2>5. PICK v \in W : Wants(p, v)
    BY <1>3, <2>2
  <2> QED
    BY <1>1, <2>2, <2>4, <2>5 DEF GOrder, LocksInOrder
<1>5. W # {}
  BY <1>3
<1>6. W \subseteq Nat /\ IsFiniteSet(W)
  BY GovernanceAssumption, FS_Subset
<1> QED
  BY <1>4, <1>5, <1>6, SomethingIsLargest

\* Requests that lock the owners' rows never wait for each other in a ring,
\* however many there are and whatever the changes asked for.
THEOREM LockOrder == GovernanceSpec => [](GovernanceTypeOK /\ LockersDoNotRing)
<1>1. GOrder => GovernanceTypeOK /\ LockersDoNotRing
  BY NoRing DEF GOrder
<1> QED
  BY <1>1, InitGOrder, StepGOrder, PTL DEF GovernanceSpec

\* What request q has locked, and what it knows once it has counted.
LocksOwners(q) ==
  /\ q.step = "lock" /\ ~q.late => ActiveOwners \subseteq q.held \cup q.want
  /\ q.step \in {"write", "audit"} /\ ~q.late /\ q.kind # "enable"
       => q.target \notin owners \/ (q.held \cap ActiveOwners) \ {q.target} # {}

\* Nobody holds a row another request has written.
Apart(q, p) == q.wrote => q.target \notin p.held

GInv ==
  /\ GOrder
  /\ \A r \in Changes : LocksOwners(change[r])
  /\ \A r, p \in Changes : r # p => Apart(change[r], change[p])

\* A request at rest holds nothing.
LEMMA RestingApart ==
  /\ Resting.step = "idle" /\ LocksOwners(Resting)
  /\ \A q : Apart(Resting, q) /\ Apart(q, Resting)
  BY DEF Resting, Apart, LocksOwners

LEMMA InitGInv == GovernanceInit => GInv
  BY InitGOrder, RestingApart DEF GovernanceInit, GInv

\* A step that moves one request and no row.
LEMMA MoveKeeps ==
  ASSUME GInv, GOrder', NEW r \in Changes, NEW to \in Change, Moves(r, to), UNCHANGED <<owners, active>>,
         LocksOwners(to),
         \A p \in Changes \ {r} : Apart(to, change[p]) /\ Apart(change[p], to)
  PROVE  GInv'
<1>1. change'[r] = to /\ \A p \in Changes \ {r} : change'[p] = change[p]
  BY DEF GInv, GOrder, GovernanceTypeOK, Moves
<1>2. ASSUME NEW p \in Changes PROVE LocksOwners(change[p])'
  BY <1>1 DEF GInv, LocksOwners, ActiveOwners
<1>3. ASSUME NEW p \in Changes, NEW q \in Changes, p # q PROVE Apart(change[p], change[q])'
  BY <1>1, <1>3 DEF GInv, Apart
<1> QED
  BY <1>2, <1>3 DEF GInv

\* A commit changes the row of its target alone, and adds an active owner only
\* by enabling one.
LEMMA CommitTouchesTarget ==
  ASSUME GOrder, NEW r \in Changes, AuditAndCommit(r)
  PROVE  /\ owners' \subseteq owners
         /\ \A v : v # change[r].target => (v \in ActiveOwners' <=> v \in ActiveOwners)
         /\ ~OwnerEnabledBy(r) => ActiveOwners' \subseteq ActiveOwners
         /\ change[r].target \notin owners => ActiveOwners' = ActiveOwners
         /\ change[r].kind = "enable" => ActiveOwners \subseteq ActiveOwners'
<1>1. change[r] \in Change
  BY DEF GOrder, GovernanceTypeOK, Change
<1>2. change[r].kind \in {"demote", "disable", "enable"}
  BY <1>1 DEF Change
<1> QED
  BY <1>2 DEF AuditAndCommit, ActiveOwners, OwnerEnabledBy

LEMMA StepGInv == GInv /\ [GovernanceNext]_governanceVars => GInv'
<1> SUFFICES ASSUME GInv, [GovernanceNext]_governanceVars PROVE GInv'
  OBVIOUS
<1>a. /\ \A r \in Changes : change[r] \in Change /\ LocksInOrder(change[r])
      /\ \A r \in Changes : LocksOwners(change[r])
      /\ \A r \in Changes : \A p \in Changes \ {r} : Apart(change[r], change[p]) /\ Apart(change[p], change[r])
  BY DEF GInv, GOrder, GovernanceTypeOK, Change
<1>b. GOrder'
  BY StepGOrder DEF GInv
<1>0. CASE UNCHANGED governanceVars
  BY <1>0, <1>b DEF governanceVars, GInv, ActiveOwners, LocksOwners
<1>1. ASSUME NEW r \in Changes, NEW kind \in Kinds, NEW actor \in Users, NEW u \in Users, ChangeRequested(r, kind, actor, u)
      PROVE GInv'
  <2> DEFINE to == [Resting EXCEPT !.step = IF RequiresGuard(kind, u) THEN "begin" ELSE "write",
                                   !.kind = kind, !.actor = actor, !.target = u]
  <2>1. to \in Change /\ to.kind = kind /\ to.held = {} /\ to.wrote = FALSE /\ to.target = u
    BY GovernanceAssumption DEF Change, Resting
  <2>2. kind \in {"demote", "disable", "enable"}
    BY GovernanceAssumption
  <2>3. to.step = IF RequiresGuard(kind, u) THEN "begin" ELSE "write"
    BY DEF Resting
  <2>4. LocksOwners(to)
    BY <2>1, <2>2, <2>3 DEF LocksOwners, RequiresGuard
  <2>5. \A p \in Changes \ {r} : Apart(to, change[p]) /\ Apart(change[p], to)
    BY <2>1 DEF Apart
  <2> QED
    BY <1>1, <1>b, <2>1, <2>4, <2>5, MoveKeeps DEF ChangeRequested
<1>2. ASSUME NEW r \in Changes, FindOwners(r) PROVE GInv'
  <2> DEFINE to == [change[r] EXCEPT !.step = "lock", !.want = ActiveOwners]
  <2>1. to \in Change
    BY <1>a DEF Change, ActiveOwners, GInv, GOrder, GovernanceTypeOK
  <2>2. LocksOwners(to)
    BY <1>2, <1>a DEF FindOwners, Stands, Change, LocksOwners
  <2>3. \A p \in Changes \ {r} : Apart(to, change[p]) /\ Apart(change[p], to)
    BY <1>a DEF Apart, Change
  <2> QED
    BY <1>2, <1>b, <2>1, <2>2, <2>3, MoveKeeps DEF FindOwners
<1>3. ASSUME NEW r \in Changes, NEW u \in Users, LockRow(r, u) PROVE GInv'
  <2> DEFINE q == change[r]
             to == [q EXCEPT !.want = q.want \ {u}, !.held = q.held \cup {u}]
  <2>1. to \in Change
    BY <1>a DEF Change
  <2>2. /\ to.step = "lock" /\ q.step = "lock" /\ to.target = q.target /\ to.wrote = q.wrote /\ to.late = q.late
        /\ to.held = q.held \cup {u} /\ to.want = q.want \ {u}
    BY <1>3, <1>a DEF LockRow, Stands, Change
  <2>3. LocksOwners(q) /\ ~q.wrote
    BY <1>a, <2>2 DEF LocksInOrder
  <2>4. LocksOwners(to)
    BY <2>2, <2>3 DEF LocksOwners
  <2>5. \A p \in Changes \ {r} : Apart(to, change[p]) /\ Apart(change[p], to)
    BY <1>3, <1>a, <2>2, <2>3 DEF Apart, LockRow, RowFree, Holds
  <2> QED
    BY <1>3, <1>b, <2>1, <2>4, <2>5, MoveKeeps DEF LockRow
<1>4. ASSUME NEW r \in Changes, CountOwners(r) PROVE GInv'
  <2> DEFINE q == change[r]
             to == [q EXCEPT !.step = "write"]
  <2>1. CASE Moves(r, Resting)
    BY <1>4, <1>b, <2>1, MoveKeeps, RestingInOrder, RestingApart DEF CountOwners
  <2>2. CASE ~Moves(r, Resting)
    <3>1. /\ to \in Change /\ to.step = "write" /\ to.kind = q.kind /\ to.held = q.held
          /\ to.target = q.target /\ to.wrote = q.wrote /\ to.late = q.late
      BY <1>a DEF Change
    <3>2. q.step = "lock" /\ q.want = {} /\ OthersLeft(q.target) /\ Moves(r, to)
      BY <1>4, <2>2 DEF CountOwners, Stands
    <3>3. LocksOwners(to)
      BY <1>a, <3>1, <3>2 DEF LocksOwners, OthersLeft
    <3>4. \A p \in Changes \ {r} : Apart(to, change[p]) /\ Apart(change[p], to)
      BY <1>a, <3>1 DEF Apart
    <3> QED
      BY <1>4, <1>b, <3>1, <3>2, <3>3, <3>4, MoveKeeps DEF CountOwners
  <2> QED
    BY <2>1, <2>2
<1>5. ASSUME NEW r \in Changes, UpdateUser(r) PROVE GInv'
  <2> DEFINE q == change[r]
             to == [q EXCEPT !.step = "audit", !.wrote = TRUE]
  <2>1. /\ to \in Change /\ to.step = "audit" /\ to.kind = q.kind /\ to.held = q.held /\ to.target = q.target
        /\ to.wrote = TRUE /\ to.late = q.late
    BY <1>a DEF Change
  <2>2. LocksOwners(to)
    BY <1>5, <1>a, <2>1 DEF UpdateUser, Stands, LocksOwners
  <2>3. \A p \in Changes \ {r} : Apart(to, change[p]) /\ Apart(change[p], to)
    BY <1>5, <1>a, <2>1 DEF UpdateUser, RowFree, Holds, Apart
  <2> QED
    BY <1>5, <1>b, <2>1, <2>2, <2>3, MoveKeeps DEF UpdateUser
<1>6. ASSUME NEW r \in Changes, AuditAndCommit(r) PROVE GInv'
  <2> DEFINE u == change[r].target
  <2>1. change[r].step = "audit" /\ change[r].wrote
    BY <1>6, <1>a DEF AuditAndCommit, Stands, LocksInOrder
  <2>2. change'[r] = Resting
    BY <1>6 DEF AuditAndCommit
  <2>3. ASSUME NEW p \in Changes \ {r}
        PROVE  change'[p] = IF change[p].step = "lock" /\ OwnerEnabledBy(r) THEN Marked(change[p]) ELSE change[p]
    BY <1>6 DEF AuditAndCommit, Marked, Stands
  <2>4. /\ owners' \subseteq owners
        /\ \A v : v # u => (v \in ActiveOwners' <=> v \in ActiveOwners)
        /\ ~OwnerEnabledBy(r) => ActiveOwners' \subseteq ActiveOwners
    BY <1>6, CommitTouchesTarget DEF GInv
  <2>5. ASSUME NEW p \in Changes \ {r} PROVE LocksOwners(change[p])'
    <3>1. LocksOwners(change[p]) /\ u \notin change[p].held /\ change[p] \in Change
      BY <1>a, <2>1 DEF Apart
    <3>2. CASE change[p].step = "lock" /\ OwnerEnabledBy(r)
      BY <2>3, <3>1, <3>2, MarkedIsTheSame DEF LocksOwners
    <3>3. CASE ~(change[p].step = "lock" /\ OwnerEnabledBy(r))
      <4>1. change'[p] = change[p]
        BY <2>3, <3>3
      <4>2. change[p].step = "lock" => ActiveOwners' \subseteq ActiveOwners
        BY <2>4, <3>3
      <4>3. change[p].held \cap ActiveOwners' = change[p].held \cap ActiveOwners
        BY <2>4, <3>1
      <4> QED
        BY <2>4, <3>1, <4>1, <4>2, <4>3 DEF LocksOwners
    <3> QED
      BY <3>2, <3>3
  <2>6. LocksOwners(Resting)'
    BY DEF LocksOwners, Resting
  <2>7. ASSUME NEW p \in Changes PROVE LocksOwners(change[p])'
    BY <2>2, <2>5, <2>6 DEF LocksOwners
  <2>8. ASSUME NEW p \in Changes \ {r}
        PROVE  /\ change'[p].held = change[p].held /\ change'[p].wrote = change[p].wrote
               /\ change'[p].target = change[p].target
    BY <1>a, <2>3, MarkedIsTheSame
  <2>9. ASSUME NEW p \in Changes, NEW s \in Changes, p # s PROVE Apart(change[p], change[s])'
    BY <1>a, <2>2, <2>8, <2>9, RestingApart DEF Apart
  <2> QED
    BY <1>b, <2>7, <2>9 DEF GInv
<1>7. ASSUME NEW r \in Changes, Rollback(r) PROVE GInv'
  BY <1>7, <1>b, MoveKeeps, RestingInOrder, RestingApart DEF Rollback
<1> QED
  BY <1>0, <1>1, <1>2, <1>3, <1>4, <1>5, <1>6, <1>7 DEF GovernanceNext

\* A commit that takes the last active owner is a late one's.
LEMMA OnlyLateTakesTheLast ==
  ASSUME GInv, [GovernanceNext]_governanceVars, ActiveOwners # {}, ActiveOwners' = {}
  PROVE  \E r \in Changes : Stands(r, "audit") /\ change[r].late /\ Stands(r, "idle")'
<1>1. ~UNCHANGED <<owners, active>>
  BY DEF ActiveOwners
<1>2. PICK r \in Changes : AuditAndCommit(r)
  <2>1. PICK r \in Changes :
          \/ \E kind \in Kinds, actor, u \in Users : ChangeRequested(r, kind, actor, u)
          \/ \E u \in Users : LockRow(r, u)
          \/ FindOwners(r) \/ CountOwners(r) \/ UpdateUser(r) \/ AuditAndCommit(r) \/ Rollback(r)
    BY <1>1 DEF GovernanceNext, governanceVars
  <2>2. ~\E kind \in Kinds, actor, u \in Users : ChangeRequested(r, kind, actor, u)
    BY <1>1, Zenon DEF ChangeRequested
  <2>3. ~\E u \in Users : LockRow(r, u)
    BY <1>1, Zenon DEF LockRow
  <2>4. ~(FindOwners(r) \/ CountOwners(r) \/ UpdateUser(r) \/ Rollback(r))
    BY <1>1, Zenon DEF FindOwners, CountOwners, UpdateUser, Rollback
  <2> QED
    BY <2>1, <2>2, <2>3, <2>4
<1> DEFINE q == change[r]  u == q.target
<1>3. /\ \A v : v # u => (v \in ActiveOwners' <=> v \in ActiveOwners)
      /\ u \notin owners => ActiveOwners' = ActiveOwners
      /\ q.kind = "enable" => ActiveOwners \subseteq ActiveOwners'
  BY <1>2, CommitTouchesTarget DEF GInv
<1>4. q.step = "audit" /\ LocksOwners(q) /\ change'[r] = Resting
  BY <1>2 DEF AuditAndCommit, Stands, GInv
<1>5. q.late
  <2> SUFFICES ASSUME ~q.late PROVE FALSE
    OBVIOUS
  <2>1. q.kind # "enable" /\ u \in owners
    BY <1>3
  <2>2. PICK v \in (q.held \cap ActiveOwners) \ {u} : TRUE
    BY <1>4, <2>1 DEF LocksOwners
  <2> QED
    BY <1>3, <2>2
<1> QED
  BY <1>4, <1>5, RestingApart DEF Stands

\* For any number of users and of overlapping requests, enabling ones among them,
\* the last active owner leaves only by a change in whose locking an owner was
\* enabled: the lost guard has no other cause.
THEOREM OwnersStay == GovernanceSpec => LastOwnerLeavesOnlyLate
<1>1. GInv /\ [GovernanceNext]_governanceVars =>
        [ActiveOwners # {} /\ ActiveOwners' = {}
           => \E r \in Changes : Stands(r, "audit") /\ change[r].late /\ Stands(r, "idle")']_governanceVars
  BY OnlyLateTakesTheLast
<1> QED
  BY <1>1, InitGInv, StepGInv, PTL DEF GovernanceSpec, LastOwnerLeavesOnlyLate

-----------------------------------------------------------------------------
\* Every row and every request about accounts keeps the shape of its declaration.
THEOREM AccountsTyped == AccountsSpec => []AccountsTypeOK
  BY CodesAreCounted, AccountSafety, LockOrder, PTL DEF AccountsSpec, AccountsTypeOK
-----------------------------------------------------------------------------
(* The row locks of enrolment.                                                *)

\* A step of request r hands over no lock but its own, and after it r is where
\* the locks it then has put it.
LEMMA SeatsHandOver ==
  ASSUME SeatsTypeOK, SeatLocksInHand, NEW r \in Reqs,
         \A p \in Reqs \ {r} : req'[p] = req[p],
         \A o \in Offerings : offeringLock'[o] \in {Nil, offeringLock[o], r},
         \A c \in Codes : codeLock'[c] \in {Nil, codeLock[c], r},
         \A o \in Offerings : offeringLock'[o] = r => req'[r].step \in HoldsOffering /\ req'[r].offering = o,
         \A c \in Codes : codeLock'[c] = r => req'[r].step = "use" /\ req'[r].code = c
  PROVE  SeatLocksInHand'
  BY SeatsAssumption DEF SeatLocksInHand, SeatsTypeOK

LEMMA StepSeatLocks == SeatsTypeOK /\ SeatLocksInHand /\ [SeatsNext]_seatVars => SeatLocksInHand'
<1> SUFFICES ASSUME SeatsTypeOK, SeatLocksInHand, [SeatsNext]_seatVars PROVE SeatLocksInHand'
  OBVIOUS
<1>0. ASSUME NEW r \in Reqs
      PROVE  /\ \A o \in Offerings : offeringLock[o] = r => req[r].step \in HoldsOffering /\ req[r].offering = o
             /\ \A c \in Codes : codeLock[c] = r => req[r].step = "use" /\ req[r].code = c
  BY SeatsAssumption DEF SeatLocksInHand
<1> USE DEF HoldsOffering
<1>1. CASE UNCHANGED <<offeringLock, codeLock, req>>
  BY <1>1 DEF SeatLocksInHand
<1>2. ASSUME NEW r \in Reqs, NEW s \in Students, NEW o \in Offerings, EnrollLock(r, s, o) PROVE SeatLocksInHand'
  <2>1. /\ req[r].step = "idle" /\ req'[r].step = "enrollCount" /\ req'[r].offering = o
        /\ codeLock' = codeLock /\ \A p \in Reqs \ {r} : req'[p] = req[p]
        /\ offeringLock' = [offeringLock EXCEPT ![o] = r]
    BY <1>2 DEF EnrollLock, LockOffering, SeatsTypeOK, At
  <2>2. \A u \in Offerings : offeringLock'[u] \in {offeringLock[u], r}
    BY <2>1 DEF SeatsTypeOK
  <2>3. \A u \in Offerings : offeringLock'[u] = r => u = o
    BY <1>0, <2>1 DEF SeatsTypeOK
  <2>4. \A c \in Codes : codeLock'[c] # r
    BY <1>0, <2>1
  <2> QED
    BY <2>1, <2>2, <2>3, <2>4, SeatsHandOver
<1>3. ASSUME NEW r \in Reqs, EnrollCount(r) \/ EnrollCreate(r) PROVE SeatLocksInHand'
  <2>1. /\ req[r].step \in HoldsOffering /\ codeLock' = codeLock
        /\ \A p \in Reqs \ {r} : req'[p] = req[p]
        /\ \/ offeringLock' = [offeringLock EXCEPT ![req[r].offering] = Nil]
           \/ /\ req'[r].step = "enrollCreate" /\ req'[r].offering = req[r].offering
              /\ offeringLock' = offeringLock
    BY <1>3 DEF EnrollCount, EnrollCreate, Frees, SeatsTypeOK, At
  <2>2. \A o \in Offerings : offeringLock'[o] \in {Nil, offeringLock[o]}
    BY <2>1 DEF SeatsTypeOK
  <2>3. \A o \in Offerings : offeringLock'[o] = r => req'[r].step \in HoldsOffering /\ req'[r].offering = o
    BY <1>0, <2>1, SeatsAssumption DEF SeatsTypeOK
  <2>4. \A c \in Codes : codeLock'[c] # r
    BY <1>0, <2>1
  <2> QED
    BY <2>1, <2>2, <2>3, <2>4, SeatsHandOver
<1>4. ASSUME NEW r \in Reqs, NEW s \in Students, NEW c \in Codes,
             RedeemRead(r, s, c) \/ RegisterRead(r, s, c)
      PROVE  SeatLocksInHand'
  <2>1. /\ req[r].step = "idle" /\ UNCHANGED <<offeringLock, codeLock>>
        /\ \A p \in Reqs \ {r} : req'[p] = req[p]
    BY <1>4 DEF RedeemRead, RegisterRead, SeatsTypeOK
  <2> QED
    BY <1>0, <2>1, SeatsHandOver
<1>5. ASSUME NEW r \in Reqs, Claim(r) PROVE SeatLocksInHand'
  <2>1. /\ req[r].step = "claim" /\ offeringLock' = offeringLock
        /\ \A p \in Reqs \ {r} : req'[p] = req[p]
        /\ \/ /\ req'[r].step = "use" /\ req'[r].code = req[r].code
              /\ codeLock' = [codeLock EXCEPT ![req[r].code] = r]
           \/ codeLock' = codeLock
    BY <1>5 DEF Claim, SeatsTypeOK, At
  <2>2. \A c \in Codes : codeLock'[c] \in {codeLock[c], r}
    BY <2>1 DEF SeatsTypeOK
  <2>3. \A c \in Codes : codeLock'[c] = r => req'[r].step = "use" /\ req'[r].code = c
    BY <1>0, <2>1 DEF SeatsTypeOK
  <2>4. \A o \in Offerings : offeringLock'[o] # r
    BY <1>0, <2>1
  <2> QED
    BY <2>1, <2>2, <2>3, <2>4, SeatsHandOver
<1>6. ASSUME NEW r \in Reqs, Use(r) PROVE SeatLocksInHand'
  <2>1. /\ req[r].step = "use" /\ offeringLock' = offeringLock
        /\ \A p \in Reqs \ {r} : req'[p] = req[p]
        /\ codeLock' = [codeLock EXCEPT ![req[r].code] = Nil]
    BY <1>6 DEF Use, Frees, SeatsTypeOK
  <2>2. \A c \in Codes : codeLock'[c] \in {Nil, codeLock[c]} /\ codeLock'[c] # r
    BY <1>0, <2>1, SeatsAssumption DEF SeatsTypeOK
  <2>3. \A o \in Offerings : offeringLock'[o] # r
    BY <1>0, <2>1
  <2> QED
    BY <2>1, <2>2, <2>3, SeatsHandOver
<1>7. ASSUME NEW r \in Reqs, Abort(r) PROVE SeatLocksInHand'
  <2>1. /\ \A p \in Reqs \ {r} : req'[p] = req[p]
        /\ \A o \in Offerings : offeringLock'[o] \in {Nil, offeringLock[o]} /\ offeringLock'[o] # r
        /\ \A c \in Codes : codeLock'[c] \in {Nil, codeLock[c]} /\ codeLock'[c] # r
    BY <1>7, SeatsAssumption DEF Abort, SeatsTypeOK
  <2> QED
    BY <2>1, SeatsHandOver
<1>8. CASE \/ \E s \in Students : Register(s) \/ \E o \in Offerings : Drop(s, o)
           \/ \E c \in Codes : CreateInvite(c) \/ RevokeInvite(c)
  BY <1>1, <1>8 DEF Register, Drop, CreateInvite, RevokeInvite
<1> QED
  BY <1>1, <1>2, <1>3, <1>4, <1>5, <1>6, <1>7, <1>8 DEF SeatsNext, seatVars

\* Whoever holds an offering waits for nobody, and whoever holds a code waits for
\* an offering at most.
LEMMA SomebodyIsServed == ASSUME SInv, SeatLocksInHand PROVE SeatsDoNotRing
<1> SUFFICES ASSUME NEW R \in (SUBSET Reqs) \ {{}} PROVE \E r \in R : \A p \in R : ~SeatWaitsFor(r, p)
  BY DEF SeatsDoNotRing
<1>0. /\ \A r \in Reqs : req[r].step \in {"claim", "use"} => req[r].code \in Codes
      /\ \A r \in Reqs : req[r].offering \in Offerings \cup {Nil}
  BY DEF SInv, InHand, SeatsTypeOK, Request
<1>1. ASSUME NEW r \in Reqs, NEW p \in Reqs, SeatWaitsFor(r, p)
      PROVE  /\ req[p].step \in HoldsOffering \/ (req[p].step = "use" /\ req[r].step = "claim")
             /\ req[r].step \notin HoldsOffering
  BY <1>0, <1>1, SeatsAssumption DEF SeatWaitsFor, SeatLocksInHand, HoldsOffering
<1>2. CASE \E r \in R : req[r].step \in HoldsOffering
  BY <1>1, <1>2
<1>3. CASE /\ \A r \in R : req[r].step \notin HoldsOffering
           /\ \E r \in R : req[r].step = "use"
  BY <1>1, <1>3
<1>4. CASE \A r \in R : req[r].step \notin HoldsOffering \cup {"use"}
  BY <1>1, <1>4
<1> QED
  BY <1>2, <1>3, <1>4

\* No row lock outlives the request that took it, and enrolments, redemptions and
\* registrations never wait for each other in a ring: the offering's FOR UPDATE
\* (enrollments.routes.ts:361) and the code's conditional update
\* (invites/service.ts:127) are always taken in one order.
THEOREM SeatLocksComeBack == SeatsSpec => [](SeatLocksInHand /\ SeatsDoNotRing)
<1>1. SeatsInit => SeatLocksInHand
  BY DEF SeatsInit, SeatLocksInHand
<1>2. SInv => SeatsTypeOK
  BY DEF SInv
<1>3. SInv /\ SeatLocksInHand => SeatsDoNotRing
  BY SomebodyIsServed
<1> QED
  BY <1>1, <1>2, <1>3, StepSeatLocks, SeatsInvariance, PTL DEF SeatsSpec
=============================================================================
