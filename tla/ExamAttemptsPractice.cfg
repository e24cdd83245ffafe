\* One practice drill with a machine-graded question: retakes, expiry, fairness.
CONSTANTS
  Nil = Nil
  quiz = quiz
  drill = drill
  essay = essay
  mcq = mcq
  Attempts = {a1, a2}
  Students = {s1}
  Templates = {drill}
  Questions = {mcq}
  Practice = {drill}
  Paper <- MCPaper
  Manual = {}
  Points <- MCPoints
  Reqs = {r1, r2}
  Duration = 1
  Grace = 1
  MaxClock = 3
SPECIFICATION FairSpec
INVARIANTS
  ExpiredIsNeverGraded
PROPERTIES
  RequestsEnd
