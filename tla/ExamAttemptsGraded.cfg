\* One graded quiz with an essay question: three requests at a time.
CONSTANTS
  Nil = Nil
  quiz = quiz
  drill = drill
  essay = essay
  mcq = mcq
  Attempts = {a1, a2}
  Students = {s1}
  Templates = {quiz}
  Questions = {essay, mcq}
  Practice = {}
  Paper <- MCPaper
  Manual = {essay}
  Points <- MCPoints
  Reqs = {r1, r2, r3}
  Duration = 1
  Grace = 1
  MaxClock = 3
SPECIFICATION Spec
SYMMETRY Symmetric
INVARIANTS
  TypeOK
  OneAttempt
  MarksMatchAnswers
  ScoreIsSumOfMarks
  OneNotice
PROPERTIES
  VerdictIsFinal
  ImplementsContract
