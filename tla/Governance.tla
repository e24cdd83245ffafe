------------------------------ MODULE Governance ------------------------------
(* The owners of the platform.  Four routes demote or disable a user (the two  *)
(* of the owner console, PATCH /users/:id, POST /admin/users/:id/role); they   *)
(* share lib/governance.ts: in the transaction of the change, every active     *)
(* owner's row is locked and the others are counted.  Whether to is decided on *)
(* a read made before the transaction.  One action per statement; locks are    *)
(* taken row by row, as FOR UPDATE takes them, and held to the end.            *)
EXTENDS Integers, FiniteSets

CONSTANTS
  Users,     \* the ids of the users who hold, or held, a privileged role
  Changes,   \* requests that can be under way at the same time
  Kinds      \* the changes asked for

ASSUME GovernanceAssumption ==
  /\ Users \subseteq Nat /\ IsFiniteSet(Users)   \* the rows of a table
  /\ Kinds \subseteq {"demote", "disable", "enable"}

VARIABLES
  owners,   \* the users whose role is OWNER
  active,   \* the users with isActive
  change    \* change[r]: the step of request r, what it is about, its locks

governanceVars == <<owners, active, change>>

ActiveOwners == owners \cap active

\* want: the rows its SELECT ... FOR UPDATE has found and not yet come to;
\* held: those it has locked; wrote: it has updated the target's row; late, kept
\* for the properties: an owner was enabled between its SELECT and its count.
Resting == [step |-> "idle", kind |-> "enable", actor |-> 0, target |-> 0,
            want |-> {}, held |-> {}, wrote |-> FALSE, late |-> FALSE]

GovernanceInit ==
  /\ owners \in SUBSET Users
  /\ active \in SUBSET Users
  /\ ActiveOwners # {}
  /\ change = [r \in Changes |-> Resting]

Moves(r, to) == change' = [change EXCEPT ![r] = to]
Stands(r, step) == change[r].step = step

\* A row another transaction has locked, or has updated and not committed.
Holds(p, u) == u \in change[p].held \/ (change[p].wrote /\ change[p].target = u)
RowFree_NotLocked(r, u) == TRUE
RowFree(r, u) == \A p \in Changes \ {r} : ~Holds(p, u)

\* requiresLastOwnerGuard, on the role as read; nobody acts on himself, and no
\* route makes an owner.
RequiresGuard(kind, u) == kind \in {"demote", "disable"} /\ u \in owners

ChangeRequested(r, kind, actor, u) ==
  /\ Stands(r, "idle")
  /\ kind # "enable" => actor # u
  /\ Moves(r, [Resting EXCEPT !.step = IF RequiresGuard(kind, u) THEN "begin" ELSE "write",
                              !.kind = kind, !.actor = actor, !.target = u])
  /\ UNCHANGED <<owners, active>>

\* lockActiveOwnerRows: what the statement finds, ORDER BY id ...
FindOwners(r) ==
  /\ Stands(r, "begin")
  /\ Moves(r, [change[r] EXCEPT !.step = "lock", !.want = ActiveOwners])
  /\ UNCHANGED <<owners, active>>

\* ... and each row in turn, waited for and locked, even one that is no active
\* owner's any more: it is looked at again only once it is locked, and then left
\* out of a result that nobody reads.
NextRow_AnyOrder(rows, u) == u \in rows
NextRow(rows, u) == u \in rows /\ \A v \in rows : u <= v

LockRow(r, u) ==
  /\ Stands(r, "lock")
  /\ NextRow(change[r].want, u)
  /\ RowFree(r, u)
  /\ Moves(r, [change[r] EXCEPT !.want = @ \ {u}, !.held = @ \cup {u}])
  /\ UNCHANGED <<owners, active>>

\* assertNotLastActiveOwner: on, or a 409 and a rollback.
OthersLeft(u) == ActiveOwners \ {u} # {}

CountOwners(r) ==
  /\ Stands(r, "lock")
  /\ change[r].want = {}
  /\ Moves(r, IF OthersLeft(change[r].target) THEN [change[r] EXCEPT !.step = "write"] ELSE Resting)
  /\ UNCHANGED <<owners, active>>

\* user.update, which waits for the row.
UpdateUser(r) ==
  /\ Stands(r, "write")
  /\ RowFree(r, change[r].target)
  /\ Moves(r, [change[r] EXCEPT !.step = "audit", !.wrote = TRUE])
  /\ UNCHANGED <<owners, active>>

OwnerEnabledBy(r) == change[r].kind = "enable" /\ change[r].target \in owners \ active

\* auditLog.create, which refers to the actor's row and so waits while that is
\* locked FOR UPDATE, and the commit.
AuditAndCommit(r) ==
  LET u == change[r].target IN
  /\ Stands(r, "audit")
  /\ \A p \in Changes \ {r} : change[r].actor \notin change[p].held
  /\ owners' = IF change[r].kind = "demote" THEN owners \ {u} ELSE owners
  /\ active' = CASE change[r].kind = "disable" -> active \ {u}
                 [] change[r].kind = "enable"  -> active \cup {u}
                 [] change[r].kind = "demote"  -> active
  /\ change' = [p \in Changes |->
       IF p = r THEN Resting
       ELSE IF Stands(p, "lock") /\ OwnerEnabledBy(r) THEN [change[p] EXCEPT !.late = TRUE]
       ELSE change[p]]

\* The process dies, the transaction times out, or the database breaks a ring.
Rollback(r) ==
  /\ ~Stands(r, "idle")
  /\ Moves(r, Resting)
  /\ UNCHANGED <<owners, active>>

GovernanceNext ==
  \E r \in Changes :
    \/ \E kind \in Kinds, actor, u \in Users : ChangeRequested(r, kind, actor, u)
    \/ \E u \in Users : LockRow(r, u)
    \/ FindOwners(r) \/ CountOwners(r) \/ UpdateUser(r) \/ AuditAndCommit(r) \/ Rollback(r)

GovernanceSpec == GovernanceInit /\ [][GovernanceNext]_governanceVars

-----------------------------------------------------------------------------
(* Properties                                                                 *)

GovernanceTypeOK ==
  /\ owners \subseteq Users /\ active \subseteq Users
  /\ change \in [Changes ->
       [step : {"idle", "begin", "lock", "write", "audit"}, kind : {"demote", "disable", "enable"},
        actor : Users \cup {0}, target : Users \cup {0},
        want : SUBSET Users, held : SUBSET Users, wrote : BOOLEAN, late : BOOLEAN]]

\* The last active owner leaves only by a change that counted an owner it had not
\* locked, one enabled between its SELECT ... FOR UPDATE and its count; however
\* the requests overlap otherwise, the last-owner guard holds.
LastOwnerLeavesOnlyLate ==
  [][ActiveOwners # {} /\ ActiveOwners' = {}
       => \E r \in Changes : Stands(r, "audit") /\ change[r].late /\ Stands(r, "idle")']_governanceVars

\* However the requests of the four routes overlap, the platform keeps an active
\* owner: what is said of lockActiveOwnerRows, which "closes the window".
SomeOwnerStays == ActiveOwners # {}

\* Requests that are locking the owners never wait for each other in a ring,
\* however many they are: the rows are taken in one order.
WaitsFor(r, p) ==
  /\ Stands(r, "lock")
  /\ \E u \in change[r].want : NextRow(change[r].want, u) /\ Holds(p, u)
LockersDoNotRing ==
  \A R \in (SUBSET Changes) \ {{}} : \E r \in R : \A p \in R \ {r} : ~WaitsFor(r, p)
=============================================================================
