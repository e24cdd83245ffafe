\* One exam and its clone, a moderation page that decides at any time and any number of
\* times, two author requests, one start.
CONSTANTS
  Nil = Nil
  Keep = Keep
  t1 = t1
  Templates = {t1, t2}
  Questions = {q1}
  Paper <- MCPaper
  Moderators = {m1}
  Retrying = {m1}
  Authoring = {e1, e2}
  Times = {1}
  MaxVersion = 1
  Attempts = {a1}
  Students = {s1}
  Practice = {}
  Manual = {}
  Points <- MCPoints
  Reqs = {r1}
  Duration = 0
  Grace = 0
  MaxClock = 1
SPECIFICATION MCSystemSpec
SYMMETRY Symmetric
INVARIANTS
  SatUnderVerdict
  VerdictCoversContent
PROPERTIES
  PublicationIsGuarded
