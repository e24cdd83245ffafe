------------------------------- MODULE Sessions -------------------------------
(* One account: its password, the refresh tokens out for it, its lock after    *)
(* failed logins and its password-reset links (auth.service.ts, rotation.ts,   *)
(* lockout.ts, password-reset.service.ts).  Nothing here runs in a             *)
(* transaction: each statement is an action and any other request may act      *)
(* between two of them.  An access token is not checked against the account,   *)
(* so any request that needs one may be made by whoever was ever logged in.    *)
EXTENDS Naturals

CONSTANTS
  Calls,              \* requests that can be under way at the same time
  Links,              \* reset links that can be minted
  MAX_FAILED_LOGINS,
  NoLink

ASSUME SessionsAssumption ==
  /\ MAX_FAILED_LOGINS \in Nat \ {0}
  /\ NoLink \notin Links

VARIABLES
  account,  \* the User row
  tokens,   \* the refresh tokens ever issued: version, password behind it, how
  links,    \* links[l]: "none", "live", "dead" (used or expired), "deleted"
  died,     \* a login died between counting its failure and writing the lock
  call      \* call[r]: the step of request r, and what it has read

sessionVars == <<account, tokens, links, died, call>>

\* What the code reads of the row.  password counts the passwords the account
\* has had; lock is "no", "yes" or "expired" (lockedUntil in the past).
Account == [password : Nat, tokenVersion : Nat, isActive : BOOLEAN,
            failedLoginCount : Nat, lock : {"no", "yes", "expired"}]

\* by: the password was given ("login", and every refresh of such a token), the
\* token of a password change ("change"), of a switch of institution ("select").
Token == [ver : Nat, password : Nat, by : {"login", "change", "select"}]

Doing(step, ver, password, isActive, by, link) ==
  [step |-> step, ver |-> ver, password |-> password, isActive |-> isActive, by |-> by, link |-> link]
Rests == Doing("idle", 0, 0, FALSE, "login", NoLink)
Reads(step, by) == Doing(step, account.tokenVersion, account.password, account.isActive, by, NoLink)

Goes(r, to) == call' = [call EXCEPT ![r] = to]
To(r, step) == [call[r] EXCEPT !.step = step]
IsAt(r, step) == call[r].step = step

SessionsInit ==
  /\ account = [password |-> 0, tokenVersion |-> 0, isActive |-> TRUE, failedLoginCount |-> 0, lock |-> "no"]
  /\ tokens = {}
  /\ links = [l \in Links |-> "none"]
  /\ died = FALSE
  /\ call = [r \in Calls |-> Rests]

-----------------------------------------------------------------------------
(* POST /auth/login                                                           *)

\* One read of the row; a locked account answers 429 and nothing changes.
LoginRead(r) ==
  /\ IsAt(r, "idle")
  /\ account.lock # "yes"
  /\ Goes(r, Reads("verify", "login"))
  /\ UNCHANGED <<account, tokens, links, died>>

ShouldLock_OneLate(count) == count > MAX_FAILED_LOGINS
ShouldLock(count) == count >= MAX_FAILED_LOGINS

\* The hash that was read does not match: the failure is counted on the live
\* row, and the count read back decides whether to lock.
WrongPassword(r) ==
  LET failed == account.failedLoginCount + 1 IN
  /\ IsAt(r, "verify")
  /\ account' = [account EXCEPT !.failedLoginCount = failed]
  /\ Goes(r, IF ShouldLock(failed) THEN To(r, "lock") ELSE Rests)
  /\ UNCHANGED <<tokens, links, died>>

\* updateMany WHERE failedLoginCount >= MAX: a login that succeeded in between
\* has cleared the count, and leaves the account open.
LockAccount(r) ==
  /\ IsAt(r, "lock")
  /\ account' = IF ShouldLock(account.failedLoginCount) THEN [account EXCEPT !.lock = "yes"] ELSE account
  /\ Goes(r, Rests)
  /\ UNCHANGED <<tokens, links, died>>

\* The hash matches: an account read as disabled is refused, any other has its
\* counters cleared.
RightPassword(r) ==
  /\ IsAt(r, "verify")
  /\ \/ /\ call[r].isActive
        /\ account' = [account EXCEPT !.failedLoginCount = 0, !.lock = "no"]
        /\ died' = FALSE
        /\ Goes(r, To(r, "issue"))
     \/ /\ ~call[r].isActive
        /\ Goes(r, Rests)
        /\ UNCHANGED <<account, died>>
  /\ UNCHANGED <<tokens, links>>

\* issueTokens: the version is that of the row the request read.
TokenOf_VersionNow(r) == [ver |-> account.tokenVersion, password |-> call[r].password, by |-> call[r].by]
TokenOf(r) == [ver |-> call[r].ver, password |-> call[r].password, by |-> call[r].by]

IssueTokens(r) ==
  /\ IsAt(r, "issue")
  /\ tokens' = tokens \cup {TokenOf(r)}
  /\ Goes(r, Rests)
  /\ UNCHANGED <<account, links, died>>

-----------------------------------------------------------------------------
(* POST /auth/refresh and /auth/select-institution                            *)

\* decideRefresh
DecideRefresh(t) == account.isActive /\ account.tokenVersion = t.ver

\* The token stands for the password it was first given for.
RefreshTokens(r, t) ==
  /\ IsAt(r, "idle")
  /\ DecideRefresh(t)
  /\ Goes(r, Doing("issue", account.tokenVersion, t.password, TRUE, t.by, NoLink))
  /\ UNCHANGED <<account, tokens, links, died>>

SelectInstitution(r, t) ==
  /\ IsAt(r, "idle")
  /\ account.isActive
  /\ Goes(r, Doing("issue", account.tokenVersion, t.password, TRUE, "select", NoLink))
  /\ UNCHANGED <<account, tokens, links, died>>

-----------------------------------------------------------------------------
(* POST /auth/logout                                                          *)

LogoutRead(r) ==
  /\ IsAt(r, "idle")
  /\ tokens # {}
  /\ Goes(r, Reads("logout", "login"))
  /\ UNCHANGED <<account, tokens, links, died>>

\* A conditional update ON the version the request read.
Superseded_Never(r) == FALSE
Superseded(r) == account.tokenVersion # call[r].ver
Bumped(row) == [row EXCEPT !.tokenVersion = @ + 1]

LogoutBump(r) ==
  /\ IsAt(r, "logout")
  /\ account' = IF Superseded(r) THEN account ELSE Bumped(account)
  /\ Goes(r, Rests)
  /\ UNCHANGED <<tokens, links, died>>

-----------------------------------------------------------------------------
(* POST /auth/change-password                                                 *)

\* The row is read and the current password holds against it.
ChangeRead(r) ==
  /\ IsAt(r, "idle")
  /\ tokens # {}
  /\ account.isActive
  /\ Goes(r, Reads("change", "change"))
  /\ UNCHANGED <<account, tokens, links, died>>

\* One conditional write sets the new hash and moves the version; 401 and no
\* change when somebody moved it first.
ChangeWrite(r) ==
  LET new == account.password + 1 IN
  /\ IsAt(r, "change")
  /\ \/ /\ ~Superseded(r)
        /\ account' = Bumped([account EXCEPT !.password = new])
        /\ Goes(r, [To(r, "reread") EXCEPT !.password = new])
     \/ /\ Superseded(r)
        /\ Goes(r, Rests)
        /\ UNCHANGED account
  /\ UNCHANGED <<tokens, links, died>>

\* The row is read again for the version of this device's new token.
ChangeReread(r) ==
  /\ IsAt(r, "reread")
  /\ Goes(r, [To(r, "issue") EXCEPT !.ver = account.tokenVersion])
  /\ UNCHANGED <<account, tokens, links, died>>

-----------------------------------------------------------------------------
(* POST /auth/forgot-password, the registrar's reset link, /auth/reset-password *)

\* Every outstanding link is marked used; a separate insert makes the new one.
KillLinks(r) ==
  /\ IsAt(r, "idle")
  /\ links' = [l \in Links |-> IF links[l] = "live" THEN "dead" ELSE links[l]]
  /\ Goes(r, Doing("mint", 0, 0, FALSE, "login", NoLink))
  /\ UNCHANGED <<account, tokens, died>>

MintLink(r, l) ==
  /\ IsAt(r, "mint")
  /\ links[l] = "none"
  /\ links' = [links EXCEPT ![l] = "live"]
  /\ Goes(r, Rests)
  /\ UNCHANGED <<account, tokens, died>>

\* updateMany WHERE usedAt IS NULL AND expiresAt > now: the link is used up by
\* the one request whose update finds it.
ClaimLink_LeftLive(l) == links
ClaimLink(l) == [links EXCEPT ![l] = "dead"]

ResetClaim(r, l) ==
  /\ IsAt(r, "idle")
  /\ links[l] = "live"
  /\ links' = ClaimLink(l)
  /\ Goes(r, Doing("resetRead", 0, 0, FALSE, "login", l))
  /\ UNCHANGED <<account, tokens, died>>

\* The account is read: at first, and once more when its version has moved.  A
\* disabled account is refused, and the link stays used.
ResetRead(r) ==
  /\ call[r].step \in {"resetRead", "resetReread"}
  /\ Goes(r, IF account.isActive
             THEN [To(r, IF IsAt(r, "resetRead") THEN "reset" ELSE "resetAgain")
                     EXCEPT !.ver = account.tokenVersion]
             ELSE Rests)
  /\ UNCHANGED <<account, tokens, links, died>>

\* One conditional write: hash, version, and the failure counters cleared.
ResetWrite(r) ==
  /\ call[r].step \in {"reset", "resetAgain"}
  /\ \/ /\ ~Superseded(r)
        /\ account' = Bumped([account EXCEPT !.password = @ + 1, !.failedLoginCount = 0, !.lock = "no"])
        /\ died' = FALSE
        /\ Goes(r, To(r, "clean"))
     \/ /\ Superseded(r)
        /\ Goes(r, IF IsAt(r, "reset") THEN To(r, "resetReread") ELSE Rests)
        /\ UNCHANGED <<account, died>>
  /\ UNCHANGED <<tokens, links>>

\* Every other link of the account is deleted.
ResetClean(r) ==
  /\ IsAt(r, "clean")
  /\ links' = [l \in Links |-> IF l # call[r].link /\ links[l] # "none" THEN "deleted" ELSE links[l]]
  /\ Goes(r, Rests)
  /\ UNCHANGED <<account, tokens, died>>

-----------------------------------------------------------------------------
(* The registrar's office, the clock, the process                             *)

\* A role change moves the version; so does disabling the account.
ChangeRole ==
  /\ account' = Bumped(account)
  /\ UNCHANGED <<tokens, links, died, call>>

Deactivate ==
  /\ account' = Bumped([account EXCEPT !.isActive = FALSE])
  /\ UNCHANGED <<tokens, links, died, call>>

Activate ==
  /\ ~account.isActive
  /\ account' = [account EXCEPT !.isActive = TRUE]
  /\ UNCHANGED <<tokens, links, died, call>>

LockExpires ==
  /\ account.lock = "yes"
  /\ account' = [account EXCEPT !.lock = "expired"]
  /\ UNCHANGED <<tokens, links, died, call>>

LinkExpires(l) ==
  /\ links[l] = "live"
  /\ links' = [links EXCEPT ![l] = "dead"]
  /\ UNCHANGED <<account, tokens, died, call>>

Dies(r) ==
  /\ ~IsAt(r, "idle")
  /\ died' = (died \/ IsAt(r, "lock"))
  /\ Goes(r, Rests)
  /\ UNCHANGED <<account, tokens, links>>

SessionsNext ==
  \/ \E r \in Calls :
       \/ LoginRead(r) \/ WrongPassword(r) \/ LockAccount(r) \/ RightPassword(r) \/ IssueTokens(r)
       \/ LogoutRead(r) \/ LogoutBump(r) \/ ChangeRead(r) \/ ChangeWrite(r) \/ ChangeReread(r)
       \/ KillLinks(r) \/ ResetRead(r) \/ ResetWrite(r) \/ ResetClean(r) \/ Dies(r)
       \/ \E t \in tokens : RefreshTokens(r, t) \/ SelectInstitution(r, t)
       \/ \E l \in Links : MintLink(r, l) \/ ResetClaim(r, l)
  \/ ChangeRole \/ Deactivate \/ Activate \/ LockExpires
  \/ \E l \in Links : LinkExpires(l)

SessionsSpec == SessionsInit /\ [][SessionsNext]_sessionVars

-----------------------------------------------------------------------------
(* Properties                                                                 *)

CallStep == {"idle", "verify", "lock", "issue", "logout", "change", "reread", "mint",
             "resetRead", "reset", "resetReread", "resetAgain", "clean"}
Call == [step : CallStep, ver : Nat, password : Nat, isActive : BOOLEAN,
         by : {"login", "change", "select"}, link : Links \cup {NoLink}]

\* The row, the tokens, the links and the requests have the shape they declare.
SessionsTypeOK ==
  /\ account \in Account
  /\ tokens \subseteq Token
  /\ links \in [Links -> {"none", "live", "dead", "deleted"}]
  /\ died \in BOOLEAN
  /\ call \in [Calls -> Call]

\* A token that was given for a password, or refreshed from one that was, can be
\* refreshed only while that is the account's password and the account has not
\* been disabled since: no login or refresh that was under way while the
\* password changed, or the account was disabled, brings a session over.
Current(t) == t.ver = account.tokenVersion
SessionsEndWithThePassword ==
  \A t \in tokens : t.by = "login" /\ Current(t) => t.password = account.password /\ account.isActive

\* An account with too many failures is locked, or was since its last success
\* (the lock ran out), or somebody is about to lock it, however the failures and
\* a successful login interleave; only a process that died in between left it open.
LockConverges ==
  account.failedLoginCount >= MAX_FAILED_LOGINS /\ account.lock = "no" =>
    died \/ \E r \in Calls : IsAt(r, "lock")

\* No two requests reset the password with the same link, and a link that has
\* been claimed is never live again.
OneResetPerLink ==
  \A r \in Calls :
    call[r].link # NoLink =>
      /\ links[call[r].link] \in {"dead", "deleted"}
      /\ \A p \in Calls : call[p].link = call[r].link => p = r

\* A password change only replaces the very password the caller gave: two changes,
\* or a change and a reset, that overlap never lose the later one silently.
ProvenStep ==
  \A r \in Calls : ~IsAt(r, "reread") /\ call'[r].step = "reread" => account.password = call[r].password
ChangesWhatWasProven == [][ProvenStep]_sessionVars
=============================================================================
