------------------------------- MODULE Accounts -------------------------------
(* Users and their accounts: who holds a seat (Seats), who is signed in        *)
(* (Sessions) and who governs (Governance).  The three keep different columns  *)
(* and no handler of one writes a column of another, so the whole is the       *)
(* conjunction of the three.                                                   *)
EXTENDS Seats, Sessions, Governance

AccountsSpec == SeatsSpec /\ SessionsSpec /\ GovernanceSpec

\* Every row and every request has the shape of its declaration.
AccountsTypeOK == SeatsTypeOK /\ SessionsTypeOK /\ GovernanceTypeOK
=============================================================================
