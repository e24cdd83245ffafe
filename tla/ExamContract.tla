---------------------------- MODULE ExamContract ----------------------------
(* What the exam engine promises about attempts, with no requests, no locks,  *)
(* no clock: every handler as the one atomic step its transaction is meant    *)
(* to be.  ExamAttempts implements this specification.                        *)
EXTENDS ExamData

VARIABLES
  status,     \* status[a]: ExamAttempt.status
  template,   \* template[a]: ExamAttempt.templateId
  student,    \* student[a]: ExamAttempt.studentId
  score,      \* score[a]: ExamAttempt.score
  answers,    \* answers[a]: the ExamAnswer rows of a, per question
  notices     \* notices[a]: "your exam has been graded" notifications about a

cvars == <<status, template, student, score, answers, notices>>

Init ==
  /\ status = [a \in Attempts |-> "none"]
  /\ template = [a \in Attempts |-> Nil]
  /\ student = [a \in Attempts |-> Nil]
  /\ score = [a \in Attempts |-> NoScore]
  /\ answers = [a \in Attempts |-> [q \in Questions |-> NoRow]]
  /\ notices = [a \in Attempts |-> 0]

Of(s, t) == {a \in Attempts : status[a] # "none" /\ student[a] = s /\ template[a] = t}

\* A new attempt.  A graded kind allows one for ever; a practice retake closes
\* the attempt it replaces.
Open(a, s, t) ==
  /\ status[a] = "none"
  /\ t \notin Practice => Of(s, t) = {}
  /\ status' = [b \in Attempts |->
                  IF b = a THEN "IN_PROGRESS"
                  ELSE IF b \in Of(s, t) /\ status[b] = "IN_PROGRESS" THEN "EXPIRED"
                  ELSE status[b]]
  /\ template' = [template EXCEPT ![a] = t]
  /\ student' = [student EXCEPT ![a] = s]
  /\ UNCHANGED <<score, answers, notices>>

\* An answer is saved, while the attempt is live and never after.
Save(a, q, v) ==
  /\ status[a] = "IN_PROGRESS"
  /\ q \in Paper[template[a]]
  /\ answers' = [answers EXCEPT ![a][q].val = v]
  /\ UNCHANGED <<status, template, student, score, notices>>

\* The attempt is handed in and marked from the answers it holds at that moment.
HandIn(a) ==
  /\ status[a] = "IN_PROGRESS"
  /\ status' = [status EXCEPT ![a] = finalStatus(template[a])]
  /\ answers' = [answers EXCEPT ![a] = AutoGraded(template[a], @)]
  /\ score' = [score EXCEPT ![a] = TotalAwarded(template[a], answers'[a])]
  /\ UNCHANGED <<template, student, notices>>

Expire(a) ==
  /\ status[a] = "IN_PROGRESS"
  /\ status' = [status EXCEPT ![a] = "EXPIRED"]
  /\ UNCHANGED <<template, student, score, answers, notices>>

\* A teacher judges every pending answer; the student hears of it once.
Finalize(a, ok) ==
  /\ status[a] = "SUBMITTED"
  /\ status' = [status EXCEPT ![a] = "GRADED"]
  /\ answers' = [answers EXCEPT ![a] = ManuallyGraded(@, pendingIds(@), ok)]
  /\ score' = [score EXCEPT ![a] = TotalAwarded(template[a], answers'[a])]
  /\ notices' = [notices EXCEPT ![a] = @ + 1]
  /\ UNCHANGED <<template, student>>

Next ==
  \E a \in Attempts :
    \/ \E s \in Students, t \in Templates : Open(a, s, t)
    \/ \E q \in Questions, v \in {"right", "wrong"} : Save(a, q, v)
    \/ HandIn(a)
    \/ Expire(a)
    \/ \E ok \in SUBSET Questions : Finalize(a, ok)

Spec == Init /\ [][Next]_cvars

-----------------------------------------------------------------------------
(* Properties                                                                 *)

\* Every row has the shape of its table.  (A score's value is ScoreIsSumOfMarks's
\* business: that a sum is a number is beyond the prover.)
TypeOK ==
  /\ status \in [Attempts -> Status]
  /\ template \in [Attempts -> Templates \cup {Nil}]
  /\ student \in [Attempts -> Students \cup {Nil}]
  /\ DOMAIN score = Attempts /\ score = [a \in Attempts |-> score[a]]
  /\ answers \in [Attempts -> Sheet]
  /\ notices \in [Attempts -> Nat]
  /\ \A a \in Attempts : status[a] # "none" => template[a] \in Templates /\ student[a] \in Students

\* A student never holds two live attempts on a template, and on a graded kind
\* never two attempts at all, whatever starts race (the start transaction).
OneAttempt ==
  \A a, b \in Attempts :
    /\ a # b
    /\ status[a] # "none" /\ status[b] # "none"
    /\ student[a] = student[b] /\ template[a] = template[b]
    => /\ template[a] \in Practice
       /\ ~(status[a] = "IN_PROGRESS" /\ status[b] = "IN_PROGRESS")

\* Once an attempt is handed in, each saved answer carries exactly the mark its
\* content earns: no save slips in behind the grader, none is scored unread.
MarksMatchAnswers ==
  \A a \in Attempts : status[a] \in {"SUBMITTED", "GRADED"} =>
    \A q \in Questions \ Manual :
      answers[a][q].val # "none" => answers[a][q] = gradeExamAnswer(q, answers[a][q])

\* The stored score is the sum of the stored marks, and a GRADED attempt has no
\* answer left to judge (submit and manual grade write both in one commit).
ScoreIsSumOfMarks ==
  \A a \in Attempts :
    /\ status[a] \in {"SUBMITTED", "GRADED"} => score[a] = TotalAwarded(template[a], answers[a])
    /\ status[a] = "GRADED" => pendingIds(answers[a]) = {}

\* An attempt that ran out is never graded: no score, no mark.
ExpiredIsNeverGraded ==
  \A a \in Attempts : status[a] = "EXPIRED" =>
    score[a] = NoScore /\ \A q \in Questions : answers[a][q].correct = "null" /\ answers[a][q].awarded = 0

\* The student is told once that a teacher finished grading, exactly when one did.
OneNotice ==
  \A a \in Attempts :
    notices[a] = IF status[a] = "GRADED" /\ finalStatus(template[a]) = "SUBMITTED" THEN 1 ELSE 0

\* A verdict is final: a GRADED or EXPIRED row, its answers and its score never
\* change again, and a SUBMITTED attempt can only become GRADED.
VerdictStep ==
  \A a \in Attempts :
    /\ status[a] \in {"GRADED", "EXPIRED"} =>
         status'[a] = status[a] /\ score'[a] = score[a] /\ answers'[a] = answers[a]
    /\ status[a] = "SUBMITTED" => status'[a] \in {"SUBMITTED", "GRADED"}
VerdictIsFinal == [][VerdictStep]_cvars
=============================================================================
