-------------------------------- MODULE Roster --------------------------------
(* What enrolment promises about seats and invite codes, with no requests and  *)
(* no locks: every handler as the one atomic step its transaction is meant to  *)
(* be.  Seats implements this specification.                                   *)
EXTENDS Integers, FiniteSets

CONSTANTS Offerings, Students, Codes, capacity, offeringOf, maxUses

VARIABLES accounts, enrolled, byHand, codes, usedCount, uses

rosterVars == <<accounts, enrolled, byHand, codes, usedCount, uses>>

Init ==
  /\ accounts = {}
  /\ enrolled = [o \in Offerings |-> {}]
  /\ byHand = [o \in Offerings |-> {}]
  /\ codes = [c \in Codes |-> "fresh"]
  /\ usedCount = [c \in Codes |-> 0]
  /\ uses = [c \in Codes |-> {}]

\* The registrar seats a student while a seat is left.
SeatByHand(s, o) ==
  /\ s \in accounts \ enrolled[o]
  /\ Cardinality(enrolled[o]) < capacity[o]
  /\ enrolled' = [enrolled EXCEPT ![o] = @ \cup {s}]
  /\ byHand' = [byHand EXCEPT ![o] = @ \cup {s}]
  /\ UNCHANGED <<accounts, codes, usedCount, uses>>

\* A live code with a use left is used, once by each student, and seats him in
\* its offering; the account is there before or comes with it.
Redeem(s, c) ==
  /\ codes[c] = "live"
  /\ usedCount[c] < maxUses[c]
  /\ s \notin uses[c]
  /\ accounts' = accounts \cup {s}
  /\ uses' = [uses EXCEPT ![c] = @ \cup {s}]
  /\ usedCount' = [usedCount EXCEPT ![c] = @ + 1]
  /\ enrolled' = [o \in Offerings |-> IF o = offeringOf[c] THEN enrolled[o] \cup {s} ELSE enrolled[o]]
  /\ UNCHANGED <<byHand, codes>>

Leave(s, o) ==
  /\ s \in enrolled[o]
  /\ enrolled' = [enrolled EXCEPT ![o] = @ \ {s}]
  /\ byHand' = [byHand EXCEPT ![o] = @ \ {s}]
  /\ UNCHANGED <<accounts, codes, usedCount, uses>>

OpenAccount(s) ==
  /\ s \notin accounts
  /\ accounts' = accounts \cup {s}
  /\ UNCHANGED <<enrolled, byHand, codes, usedCount, uses>>

Issue(c) ==
  /\ codes[c] = "fresh"
  /\ codes' = [codes EXCEPT ![c] = "live"]
  /\ UNCHANGED <<accounts, enrolled, byHand, usedCount, uses>>

\* A revoked code takes its uses with it and keeps nobody from his seat.
Revoke(c) ==
  /\ codes[c] = "live"
  /\ codes' = [codes EXCEPT ![c] = "revoked"]
  /\ uses' = [uses EXCEPT ![c] = {}]
  /\ usedCount' = [usedCount EXCEPT ![c] = 0]
  /\ UNCHANGED <<accounts, enrolled, byHand>>

Next ==
  \/ \E s \in Students :
       \/ OpenAccount(s)
       \/ \E o \in Offerings : SeatByHand(s, o) \/ Leave(s, o)
       \/ \E c \in Codes : Redeem(s, c)
  \/ \E c \in Codes : Issue(c) \/ Revoke(c)

Spec == Init /\ [][Next]_rosterVars
=============================================================================
