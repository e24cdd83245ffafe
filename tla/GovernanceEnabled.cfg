\* Disabled owners are enabled again while others are demoted and disabled.
CONSTANTS
  Users = {1, 2, 3}
  Changes = {g1, g2}
  Kinds = {"demote", "disable", "enable"}
SPECIFICATION GovernanceSpec
SYMMETRY Symmetric
INVARIANTS
  SomeOwnerStays
