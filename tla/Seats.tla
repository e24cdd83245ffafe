-------------------------------- MODULE Seats --------------------------------
(* The seats of a course offering.  The registrar seats a student by hand      *)
(* (enrollments.routes.ts), counting the seats under a lock on the offering;   *)
(* a student takes one with an invite code, when registering                   *)
(* (auth.service.ts) or later (modules/invites/service.ts), counting the uses  *)
(* of the code.  One action per statement another request can slip past; the   *)
(* writes of a transaction become visible at its last step.                    *)
EXTENDS Integers, FiniteSets

CONSTANTS
  Offerings, Students, Codes,
  capacity,    \* capacity[o]
  offeringOf,  \* offeringOf[c]: the offering code c seats its user in, or Nil
  maxUses,     \* maxUses[c]
  Reqs,        \* requests that can be under way at the same time
  Nil

ASSUME SeatsAssumption ==
  /\ capacity \in [Offerings -> Nat]
  /\ offeringOf \in [Codes -> Offerings \cup {Nil}]
  /\ maxUses \in [Codes -> Nat]
  /\ IsFiniteSet(Students)
  /\ Nil \notin Reqs /\ Nil \notin Offerings

VARIABLES
  accounts,      \* the students who have an account
  enrolled,      \* enrolled[o]: the students with an Enrollment row in o
  byHand,        \* byHand[o]: those of them the registrar seated (ENROLLMENT_CREATED)
  codes,         \* codes[c]: "fresh" (not issued yet), "live", "revoked" (deleted)
  usedCount,     \* usedCount[c]
  uses,          \* uses[c]: the students with an InviteUse row of c
  offeringLock,  \* the request whose transaction locks the offering
  codeLock,      \* the request whose transaction has changed the code
  req            \* req[r]: the step of request r, and what it is about

seatRows == <<accounts, enrolled, byHand, codes, usedCount, uses>>
seatVars == <<seatRows, offeringLock, codeLock, req>>

At(step, s, o, c, new) == [step |-> step, student |-> s, offering |-> o, code |-> c, new |-> new]
Idle == At("idle", Nil, Nil, Nil, FALSE)

SeatsInit ==
  /\ accounts = {}
  /\ enrolled = [o \in Offerings |-> {}]
  /\ byHand = [o \in Offerings |-> {}]
  /\ codes = [c \in Codes |-> "fresh"]
  /\ usedCount = [c \in Codes |-> 0]
  /\ uses = [c \in Codes |-> {}]
  /\ offeringLock = [o \in Offerings |-> Nil]
  /\ codeLock = [c \in Codes |-> Nil]
  /\ req = [r \in Reqs |-> Idle]

\* The transaction ends; the row it had is free.
Frees(lock, x) == [lock EXCEPT ![x] = Nil]

-----------------------------------------------------------------------------
(* POST /enrollments                                                          *)

\* SELECT id FROM "CourseOffering" ... FOR UPDATE.
LockOffering_NotLocked(r, o) == UNCHANGED offeringLock
LockOffering(r, o) == offeringLock[o] = Nil /\ offeringLock' = [offeringLock EXCEPT ![o] = r]

EnrollLock(r, s, o) ==
  /\ req[r].step = "idle"
  /\ s \in accounts
  /\ LockOffering(r, o)
  /\ req' = [req EXCEPT ![r] = At("enrollCount", s, o, Nil, FALSE)]
  /\ UNCHANGED <<seatRows, codeLock>>

\* The seats are counted and the student looked for: on, or a 409 and a rollback.
SeatLeft(o) == Cardinality(enrolled[o]) < capacity[o]

EnrollCount(r) ==
  LET s == req[r].student  o == req[r].offering
      goesOn == SeatLeft(o) /\ s \notin enrolled[o]
  IN
  /\ req[r].step = "enrollCount"
  /\ \/ /\ goesOn
        /\ req' = [req EXCEPT ![r] = At("enrollCreate", s, o, Nil, FALSE)]
        /\ UNCHANGED offeringLock
     \/ /\ ~goesOn
        /\ req' = [req EXCEPT ![r] = Idle]
        /\ offeringLock' = Frees(offeringLock, o)
  /\ UNCHANGED <<seatRows, codeLock>>

\* The row and its audit entry, one commit.  The unique index would refuse a
\* second row, and the transaction end in Abort.
EnrollCreate(r) ==
  LET s == req[r].student  o == req[r].offering IN
  /\ req[r].step = "enrollCreate"
  /\ s \notin enrolled[o]
  /\ enrolled' = [enrolled EXCEPT ![o] = @ \cup {s}]
  /\ byHand' = [byHand EXCEPT ![o] = @ \cup {s}]
  /\ offeringLock' = Frees(offeringLock, o)
  /\ req' = [req EXCEPT ![r] = Idle]
  /\ UNCHANGED <<accounts, codes, usedCount, uses, codeLock>>

\* DELETE /enrollments/:id
Drop(s, o) ==
  /\ s \in enrolled[o]
  /\ enrolled' = [enrolled EXCEPT ![o] = @ \ {s}]
  /\ byHand' = [byHand EXCEPT ![o] = @ \ {s}]
  /\ UNCHANGED <<accounts, codes, usedCount, uses, offeringLock, codeLock, req>>

-----------------------------------------------------------------------------
(* POST /invites/redeem, and POST /auth/register with an invite code          *)

\* evaluateInvite on an unlocked read.  An expired code is never read as good:
\* expiry only takes behaviours away.
GoodCode(c) == codes[c] = "live" /\ usedCount[c] < maxUses[c]

RedeemRead(r, s, c) ==
  /\ req[r].step = "idle"
  /\ s \in accounts
  /\ GoodCode(c)
  /\ req' = [req EXCEPT ![r] = At("claim", s, offeringOf[c], c, FALSE)]
  /\ UNCHANGED <<seatRows, offeringLock, codeLock>>

\* A new account is about to be created; its e-mail address is nobody else's.
RegisterRead(r, s, c) ==
  /\ req[r].step = "idle"
  /\ s \notin accounts
  /\ \A p \in Reqs : req[p].student # s
  /\ GoodCode(c)
  /\ req' = [req EXCEPT ![r] = At("claim", s, offeringOf[c], c, TRUE)]
  /\ UNCHANGED <<seatRows, offeringLock, codeLock>>

\* updateMany WHERE id = c AND usedCount < maxUses, increment; 409 and rollback
\* when it finds nothing.
Claims(c) == codes[c] = "live" /\ usedCount[c] < maxUses[c]

Claim(r) ==
  LET c == req[r].code  q == req[r] IN
  /\ req[r].step = "claim"
  /\ codeLock[c] = Nil
  /\ \/ /\ Claims(c)
        /\ codeLock' = [codeLock EXCEPT ![c] = r]
        /\ req' = [req EXCEPT ![r] = At("use", q.student, q.offering, c, q.new)]
     \/ /\ ~Claims(c)
        /\ req' = [req EXCEPT ![r] = Idle]
        /\ UNCHANGED codeLock
  /\ UNCHANGED <<seatRows, offeringLock>>

\* inviteUse.create: the unique index refuses a second use by the same student,
\* and the claim is rolled back with it.
UsedBefore_Ignored(s, c) == FALSE
UsedBefore(s, c) == s \in uses[c]

\* The user row of a registration is created in the same transaction.
WithAccount_Before(r) == accounts
WithAccount(r) == IF req[r].new THEN accounts \cup {req[r].student} ELSE accounts

\* enrollment.upsert and the commit.  Inserting a row shares the lock of the
\* offering it refers to, so it waits for an enrollment that is being counted.
Use(r) ==
  LET s == req[r].student  o == req[r].offering  c == req[r].code IN
  /\ req[r].step = "use"
  /\ \/ /\ ~UsedBefore(s, c)
        /\ o # Nil /\ s \notin enrolled[o] => offeringLock[o] = Nil
        /\ uses' = [uses EXCEPT ![c] = @ \cup {s}]
        /\ usedCount' = [usedCount EXCEPT ![c] = @ + 1]
        /\ enrolled' = [p \in Offerings |-> IF p = o THEN enrolled[p] \cup {s} ELSE enrolled[p]]
        /\ accounts' = WithAccount(r)
        /\ UNCHANGED <<byHand, codes>>
     \/ /\ UsedBefore(s, c)
        /\ UNCHANGED seatRows
  /\ codeLock' = Frees(codeLock, c)
  /\ req' = [req EXCEPT ![r] = Idle]
  /\ UNCHANGED offeringLock

-----------------------------------------------------------------------------
(* Everything else                                                            *)

\* POST /auth/register without a code.
Register(s) ==
  /\ s \notin accounts
  /\ \A p \in Reqs : req[p].student # s
  /\ accounts' = accounts \cup {s}
  /\ UNCHANGED <<enrolled, byHand, codes, usedCount, uses, offeringLock, codeLock, req>>

\* POST /invites
CreateInvite(c) ==
  /\ codes[c] = "fresh"
  /\ codes' = [codes EXCEPT ![c] = "live"]
  /\ UNCHANGED <<accounts, enrolled, byHand, usedCount, uses, offeringLock, codeLock, req>>

\* DELETE /invites/:id waits for a claim; the uses go with the code (Cascade).
RevokeInvite(c) ==
  /\ codes[c] = "live"
  /\ codeLock[c] = Nil
  /\ codes' = [codes EXCEPT ![c] = "revoked"]
  /\ uses' = [uses EXCEPT ![c] = {}]
  /\ usedCount' = [usedCount EXCEPT ![c] = 0]
  /\ UNCHANGED <<accounts, enrolled, byHand, offeringLock, codeLock, req>>

\* The process dies, or the transaction times out, before the commit.
Abort(r) ==
  /\ req[r].step # "idle"
  /\ offeringLock' = [o \in Offerings |-> IF offeringLock[o] = r THEN Nil ELSE offeringLock[o]]
  /\ codeLock' = [c \in Codes |-> IF codeLock[c] = r THEN Nil ELSE codeLock[c]]
  /\ req' = [req EXCEPT ![r] = Idle]
  /\ UNCHANGED seatRows

SeatsNext ==
  \/ \E r \in Reqs :
       \/ EnrollCount(r) \/ EnrollCreate(r) \/ Claim(r) \/ Use(r) \/ Abort(r)
       \/ \E s \in Students, o \in Offerings : EnrollLock(r, s, o)
       \/ \E s \in Students, c \in Codes : RedeemRead(r, s, c) \/ RegisterRead(r, s, c)
  \/ \E s \in Students : Register(s) \/ \E o \in Offerings : Drop(s, o)
  \/ \E c \in Codes : CreateInvite(c) \/ RevokeInvite(c)

SeatsSpec == SeatsInit /\ [][SeatsNext]_seatVars

-----------------------------------------------------------------------------
(* Properties                                                                 *)

Request == [step : {"idle", "enrollCount", "enrollCreate", "claim", "use"},
            student : Students \cup {Nil}, offering : Offerings \cup {Nil},
            code : Codes \cup {Nil}, new : BOOLEAN]

\* Rows, locks and requests have the shape of their declarations; nobody without
\* an account holds a seat or has used a code.
SeatsTypeOK ==
  /\ accounts \subseteq Students
  /\ enrolled \in [Offerings -> SUBSET accounts]
  /\ byHand \in [Offerings -> SUBSET accounts]
  /\ codes \in [Codes -> {"fresh", "live", "revoked"}]
  /\ usedCount \in [Codes -> Nat]
  /\ uses \in [Codes -> SUBSET accounts]
  /\ offeringLock \in [Offerings -> Reqs \cup {Nil}]
  /\ codeLock \in [Codes -> Reqs \cup {Nil}]
  /\ req \in [Reqs -> Request]

\* A code is used at most maxUses times and its counter is the number of the
\* students who used it: repeats, races and rollbacks never drift it.
UsesAreCounted ==
  \A c \in Codes : usedCount[c] = Cardinality(uses[c]) /\ usedCount[c] <= maxUses[c]

\* A registrar's enrollment never takes an offering past its capacity, whatever
\* invites are redeemed while the seats are being counted.
RegistrarStep ==
  \A o \in Offerings :
    ~(byHand'[o] \subseteq byHand[o]) => Cardinality(enrolled'[o]) <= capacity[o]
RegistrarNeverOversells == [][RegistrarStep]_seatVars

\* The two locks and the conditional updates make every enrolment, redemption and
\* revocation one step, under the limits that hold at that step.
RosterContract == INSTANCE Roster
ImplementsRoster == RosterContract!Spec

\* What holds of the two locks at every moment: a locked row is in the hands of
\* the request whose next steps give it back, and of the requests that wait for
\* each other's rows there is always one that waits for none: a redemption takes
\* the code and then shares the offering, an enrolment takes the offering alone
\* (and holds nothing while it waits for that, so it is no step here: EnrollLock).
SeatWaitsFor(r, p) ==
  \/ req[r].step = "claim" /\ codeLock[req[r].code] = p
  \/ /\ req[r].step = "use" /\ req[r].offering # Nil
     /\ offeringLock[req[r].offering] = p

HoldsOffering == {"enrollCount", "enrollCreate"}
SeatLocksInHand ==
  /\ \A o \in Offerings : offeringLock[o] # Nil =>
       req[offeringLock[o]].step \in HoldsOffering /\ req[offeringLock[o]].offering = o
  /\ \A c \in Codes : codeLock[c] # Nil =>
       req[codeLock[c]].step = "use" /\ req[codeLock[c]].code = c
SeatsDoNotRing ==
  \A R \in (SUBSET Reqs) \ {{}} : \E r \in R : \A p \in R : ~SeatWaitsFor(r, p)
=============================================================================
