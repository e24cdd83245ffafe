\* One offering with one seat, two codes, three students, three requests; one
\* account, two requests, two reset links, a lock after two failures; three users
\* of whom any may be owners or disabled, two requests that change them.
CONSTANTS
  Nil = Nil
  c1 = c1
  c2 = c2
  Offerings = {o1}
  Students = {s1, s2, s3}
  Codes = {c1, c2}
  capacity <- MCCapacity
  offeringOf <- MCOfferingOf
  maxUses <- MCMaxUses
  Reqs = {r1, r2, r3}
  Calls = {h1, h2}
  Links = {k1, k2}
  MAX_FAILED_LOGINS = 2
  NoLink = NoLink
  MaxVersion = 2
  MaxFailures = 2
  MaxTokens = 2
  Users = {1, 2, 3}
  Changes = {g1, g2}
  Kinds = {"demote", "disable", "enable"}
SPECIFICATION MCSpec
SYMMETRY Symmetric
INVARIANTS
  AccountsTypeOK
  UsesAreCounted
  SessionsEndWithThePassword
  LockConverges
  OneResetPerLink
  LockersDoNotRing
PROPERTIES
  ImplementsRoster
  ChangesWhatWasProven
  LastOwnerLeavesOnlyLate
