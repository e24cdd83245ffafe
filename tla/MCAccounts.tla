------------------------------ MODULE MCAccounts ------------------------------
(* Small instances of Accounts: Seats, Sessions and Governance.                *)
EXTENDS Accounts, TLC

CONSTANTS
  c1, c2,
  MaxVersion, MaxFailures, MaxTokens   \* bounds on one account's history

\* One seat per offering; c1 gives a seat and may be used twice, c2 is for a
\* department and gives none.
MCCapacity == [o \in Offerings |-> 1]
MCOfferingOf == [c \in Codes |-> IF c = c1 THEN CHOOSE o \in Offerings : TRUE ELSE Nil]
MCMaxUses == [c \in Codes |-> IF c = c1 THEN 2 ELSE 1]

AccountBound ==
  /\ account.tokenVersion <= MaxVersion
  /\ account.failedLoginCount <= MaxFailures
  /\ Cardinality(tokens) <= MaxTokens

\* Bound: changes of one user are asked for by one other.  Who asks only decides
\* whose row an audit entry waits for.
OneActor == \A r \in Changes :
  change[r].target # 0 => change[r].actor = CHOOSE u \in Users : u # change[r].target

\* No two of them write a variable of each other, so that what is said of one
\* needs only a state the others start in.
OwnersRest == GovernanceInit /\ owners = Users /\ active = Users
MCInit == SeatsInit /\ SessionsInit /\ GovernanceInit
MCNext ==
  \/ /\ SessionsInit /\ OwnersRest
     /\ SeatsNext
     /\ UNCHANGED <<sessionVars, governanceVars>>
  \/ /\ SeatsInit /\ OwnersRest
     /\ SessionsNext /\ AccountBound'
     /\ UNCHANGED <<seatVars, governanceVars>>
  \/ /\ SeatsInit /\ SessionsInit
     /\ GovernanceNext /\ OneActor'
     /\ UNCHANGED <<seatVars, sessionVars>>
MCSpec == MCInit /\ [][MCNext]_<<seatVars, sessionVars, governanceVars>>

Symmetric == UNION {Permutations(S) : S \in {Students, Calls}}
=============================================================================
