\* The same exam, moderated from a page that repeats a decision.
CONSTANTS
  Nil = Nil
  Keep = Keep
  t1 = t1
  Templates = {t1}
  Questions = {q1}
  Paper <- MCPaper
  Moderators = {m1}
  Retrying = {m1}
  Authoring = {e1}
  Times = {1}
  MaxVersion = 1
  Attempts = {a1}
  Students = {s1}
  Practice = {}
  Manual = {}
  Points <- MCPoints
  Reqs = {r1}
  Duration = 1
  Grace = 0
  MaxClock = 2
SPECIFICATION SystemSpec
SYMMETRY Symmetric
PROPERTIES
  ExamNeverChanges
