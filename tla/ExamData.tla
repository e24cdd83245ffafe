------------------------------ MODULE ExamData ------------------------------
(* The rows of the exam engine and the pure functions that grade them         *)
(* (backend/src/http/routes/exams.routes.ts, "Pure exam logic").  Shared by    *)
(* ExamContract, which says what the engine promises about an attempt, and by *)
(* ExamAttempts, which models its handlers step by step.                      *)
EXTENDS Integers, FiniteSetsExt

CONSTANTS
  Attempts,     \* the identifiers ExamAttempt rows can get
  Students,
  Templates,
  Questions,
  Practice,     \* the templates whose kind is PRACTICE (retakeable)
  Paper,        \* Paper[t]: the questions linked to template t
  Manual,       \* the questions gradeExamAnswer parks for a human
  Points,       \* Points[q]: pointsOverride ?? question.points
  Nil           \* SQL NULL / "no row"

ASSUME ExamDataAssumption ==
  /\ Practice \subseteq Templates
  /\ Manual \subseteq Questions
  /\ Paper \in [Templates -> SUBSET Questions]
  /\ Points \in [Questions -> Nat]
  /\ Nil \notin Attempts

NoScore == -1   \* ExamAttempt.score IS NULL

\* AttemptStatus; "none" is an identifier no row uses yet.
Status == {"none", "IN_PROGRESS", "SUBMITTED", "GRADED", "EXPIRED"}

(* An ExamAnswer row.  val is the content of the dimension the question is     *)
(* graded on (answerPatchFor refuses a save without it), seen only through     *)
(* its comparison with the key; "none" means there is no row.                  *)
Row == [val : {"none", "right", "wrong"}, correct : {"null", "yes", "no"}, awarded : Nat]
NoRow == [val |-> "none", correct |-> "null", awarded |-> 0]
Sheet == [Questions -> Row]

\* The sum of the points awarded on a sheet of answers.
TotalAwarded(t, sheet) == MapThenSumSet(LAMBDA q : sheet[q].awarded, Paper[t])

\* gradeExamAnswer applied to an existing answer row.
gradeExamAnswer(q, row) ==
  LET isCorrect == row.val = "right" IN
  [val     |-> row.val,
   correct |-> IF q \in Manual THEN "null" ELSE IF isCorrect THEN "yes" ELSE "no",
   awarded |-> IF q \notin Manual /\ isCorrect THEN Points[q] ELSE 0]

\* The sheet a submit writes back: every answered question of the paper marked.
AutoGraded(t, sheet) ==
  [q \in Questions |-> IF q \in Paper[t] /\ sheet[q].val # "none"
                       THEN gradeExamAnswer(q, sheet[q]) ELSE sheet[q]]

\* needsManual > 0 ? SUBMITTED : GRADED.  A manual question counts blank or not.
finalStatus(t) == IF Paper[t] \cap Manual # {} THEN "SUBMITTED" ELSE "GRADED"

\* The answers a teacher still has to judge (isCorrect null).
pendingIds(sheet) == {q \in Questions : sheet[q].val # "none" /\ sheet[q].correct = "null"}

reconcileManualGrades_Incomplete(graded, pending) == graded \subseteq pending
\* A payload must grade every pending answer and nothing else.
reconcileManualGrades(graded, pending) ==
  /\ graded \subseteq pending     \* else "not pending"
  /\ pending \subseteq graded     \* else "missing"

ManuallyGraded_NullForWrong(sheet, graded, ok) ==
  [q \in Questions |-> IF q \in graded
     THEN [val     |-> sheet[q].val,
           correct |-> IF q \in ok THEN "yes" ELSE "no",
           awarded |-> IF q \in ok THEN Points[q] ELSE NoScore]
     ELSE sheet[q]]

\* The sheet a manual grade writes back; ok are the answers judged correct.
ManuallyGraded(sheet, graded, ok) ==
  [q \in Questions |-> IF q \in graded
     THEN [val     |-> sheet[q].val,
           correct |-> IF q \in ok THEN "yes" ELSE "no",
           awarded |-> IF q \in ok THEN Points[q] ELSE 0]
     ELSE sheet[q]]

\* Which statuses stop a fresh attempt on a template of this kind.
attemptBlockingStatuses(t) ==
  IF t \in Practice THEN {"IN_PROGRESS"} ELSE Status \ {"none"}

\* What a start does with the attempt it found ("none" when it found nothing).
decideExamStart(t, st, overdue) ==
  CASE st = "none"                        -> "freshStart"
    [] st = "IN_PROGRESS" /\ ~overdue     -> "resume"
    [] OTHER -> IF t \in Practice THEN "freshStart" ELSE "alreadyAttempted"
=============================================================================
