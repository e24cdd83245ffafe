------------------------- MODULE ExamContractProofs -------------------------
(* The contract of the exam engine keeps its promises, for every set of       *)
(* students, templates, questions and attempts.                               *)
EXTENDS ExamContract, TLAPS

\* Unmarked rows: nothing is scored before it is handed in, nor after it expired.
Unmarked ==
  \A a \in Attempts : status[a] \in {"none", "IN_PROGRESS", "EXPIRED"} =>
    /\ score[a] = NoScore
    /\ \A q \in Questions : answers[a][q].correct = "null" /\ answers[a][q].awarded = 0

\* Answers are given to questions of the attempt's own paper.
OnPaper ==
  \A a \in Attempts, q \in Questions :
    answers[a][q].val # "none" => status[a] # "none" /\ q \in Paper[template[a]]

\* Only a paper with a manual question waits for a teacher.
AwaitsTeacher ==
  \A a \in Attempts : status[a] = "SUBMITTED" => finalStatus(template[a]) = "SUBMITTED"

\* The inductive invariant: the promises, and what makes them inductive.
CInv == /\ TypeOK /\ OneAttempt /\ MarksMatchAnswers /\ ScoreIsSumOfMarks /\ OneNotice
        /\ Unmarked /\ OnPaper /\ AwaitsTeacher

-----------------------------------------------------------------------------
\* The graders keep the shape of a sheet and the saved content on it.
LEMMA AutoGradedSheet ==
  ASSUME NEW t, NEW sheet \in Sheet
  PROVE  /\ AutoGraded(t, sheet) \in Sheet
         /\ \A q \in Questions :
              /\ AutoGraded(t, sheet)[q].val = sheet[q].val
              /\ q \in Manual /\ sheet[q].val # "none" /\ q \in Paper[t]
                   => AutoGraded(t, sheet)[q].correct = "null"
              /\ q \notin Manual /\ sheet[q].val # "none" /\ q \in Paper[t]
                   => /\ AutoGraded(t, sheet)[q].correct # "null"
                      /\ AutoGraded(t, sheet)[q] = gradeExamAnswer(q, AutoGraded(t, sheet)[q])
<1> DEFINE g == AutoGraded(t, sheet)
<1> SUFFICES ASSUME NEW q \in Questions
             PROVE  /\ g[q] \in Row
                    /\ g[q].val = sheet[q].val
                    /\ q \in Manual /\ sheet[q].val # "none" /\ q \in Paper[t]
                         => g[q].correct = "null"
                    /\ q \notin Manual /\ sheet[q].val # "none" /\ q \in Paper[t]
                         => g[q].correct # "null" /\ g[q] = gradeExamAnswer(q, g[q])
  BY DEF Sheet, AutoGraded
<1>1. sheet[q] \in Row /\ Points[q] \in Nat
  BY ExamDataAssumption DEF Sheet
<1>2. g[q] = IF q \in Paper[t] /\ sheet[q].val # "none"
             THEN gradeExamAnswer(q, sheet[q]) ELSE sheet[q]
  BY DEF AutoGraded
<1> HIDE DEF g
<1> QED BY <1>1, <1>2 DEF gradeExamAnswer, Row

\* A machine-graded answer is never left pending.
LEMMA MachineMarkIsVerdict ==
  ASSUME NEW q \in Questions \ Manual, NEW row
  PROVE  gradeExamAnswer(q, row).correct # "null"
BY DEF gradeExamAnswer

\* A manual grade keeps the shape and the content, leaves no judged answer
\* pending and touches nothing the machine has marked.
LEMMA ManuallyGradedSheet ==
  ASSUME NEW sheet \in Sheet, NEW ok
  PROVE  LET marked == ManuallyGraded(sheet, pendingIds(sheet), ok) IN
         /\ marked \in Sheet
         /\ pendingIds(marked) = {}
         /\ \A q \in Questions : marked[q].val = sheet[q].val
         /\ \A q \in Questions : q \notin pendingIds(sheet) => marked[q] = sheet[q]
<1> DEFINE m == ManuallyGraded(sheet, pendingIds(sheet), ok)
<1>1. ASSUME NEW q \in Questions
      PROVE  /\ m[q] \in Row
             /\ m[q].val = sheet[q].val
             /\ ~(m[q].val # "none" /\ m[q].correct = "null")
             /\ q \notin pendingIds(sheet) => m[q] = sheet[q]
  <2>1. sheet[q] \in Row /\ Points[q] \in Nat
    BY ExamDataAssumption DEF Sheet
  <2>2. CASE q \in pendingIds(sheet)
    <3>1. m[q] = [val |-> sheet[q].val, correct |-> IF q \in ok THEN "yes" ELSE "no",
                  awarded |-> IF q \in ok THEN Points[q] ELSE 0]
      BY <2>2 DEF ManuallyGraded
    <3> HIDE DEF m
    <3> QED BY <2>1, <2>2, <3>1 DEF Row
  <2>3. CASE q \notin pendingIds(sheet)
    <3>1. m[q] = sheet[q] /\ ~(sheet[q].val # "none" /\ sheet[q].correct = "null")
      BY <2>3 DEF ManuallyGraded, pendingIds
    <3> QED BY <2>1, <2>3, <3>1
  <2> QED BY <2>2, <2>3
<1>2. m \in Sheet
  BY <1>1 DEF Sheet, ManuallyGraded
<1> QED BY <1>1, <1>2 DEF pendingIds

\* An attempt is handed in as SUBMITTED or as GRADED, nothing else.
LEMMA FinalStatusValues == \A t : finalStatus(t) \in {"SUBMITTED", "GRADED"}
BY DEF finalStatus

-----------------------------------------------------------------------------
LEMMA InitCInv == Init => CInv
BY DEF Init, CInv, TypeOK, OneAttempt, MarksMatchAnswers, ScoreIsSumOfMarks, OneNotice,
       Unmarked, OnPaper, AwaitsTeacher, Status, Sheet, Row, NoRow, NoScore, pendingIds

LEMMA OpenCInv ==
  ASSUME CInv, NEW a \in Attempts, NEW s \in Students, NEW t \in Templates, Open(a, s, t)
  PROVE  CInv'
<1> USE DEF CInv
<1>1. TypeOK'
  BY DEF TypeOK, Open, Of, Status
<1>2. OneAttempt'
  <2> SUFFICES ASSUME NEW b \in Attempts, NEW c \in Attempts, b # c,
                      status'[b] # "none", status'[c] # "none",
                      student'[b] = student'[c], template'[b] = template'[c]
               PROVE  /\ template'[b] \in Practice
                      /\ ~(status'[b] = "IN_PROGRESS" /\ status'[c] = "IN_PROGRESS")
    BY DEF OneAttempt
  <2>1. CASE b = a
    BY <2>1 DEF Open, Of, TypeOK
  <2>2. CASE c = a
    BY <2>2 DEF Open, Of, TypeOK
  <2>3. CASE b # a /\ c # a
    BY <2>3 DEF Open, Of, TypeOK, OneAttempt
  <2> QED BY <2>1, <2>2, <2>3
<1>3. MarksMatchAnswers' /\ ScoreIsSumOfMarks' /\ OneNotice' /\ Unmarked' /\ OnPaper' /\ AwaitsTeacher'
  BY DEF Open, Of, TypeOK, MarksMatchAnswers, ScoreIsSumOfMarks, OneNotice, Unmarked, OnPaper, AwaitsTeacher
<1> QED BY <1>1, <1>2, <1>3

LEMMA SaveCInv ==
  ASSUME CInv, NEW a \in Attempts, NEW q \in Questions, NEW v \in {"right", "wrong"}, Save(a, q, v)
  PROVE  CInv'
<1> USE DEF CInv
<1>1. answers[a] \in Sheet /\ answers[a][q] \in Row
  BY DEF TypeOK, Sheet
<1>2. \A b \in Attempts : b # a => answers'[b] = answers[b]
  BY DEF Save, TypeOK
<1>3. \A p \in Questions : p # q => answers'[a][p] = answers[a][p]
  BY <1>1 DEF Save, TypeOK, Sheet
<1>4. answers'[a][q] = [val |-> v, correct |-> answers[a][q].correct, awarded |-> answers[a][q].awarded]
  BY <1>1 DEF Save, TypeOK, Sheet, Row
<1>5. TypeOK'
  <2>1. answers'[a] \in Sheet
    BY <1>1 DEF Save, TypeOK, Sheet, Row
  <2> QED BY <2>1 DEF Save, TypeOK
<1>6. OneAttempt' /\ OneNotice' /\ AwaitsTeacher'
  BY DEF Save, OneAttempt, OneNotice, AwaitsTeacher
<1>7. MarksMatchAnswers' /\ ScoreIsSumOfMarks'
  BY <1>2 DEF Save, MarksMatchAnswers, ScoreIsSumOfMarks
<1>8. Unmarked'
  BY <1>2, <1>3, <1>4 DEF Save, Unmarked
<1>9. OnPaper'
  BY <1>2, <1>3, <1>4 DEF Save, OnPaper
<1> QED BY <1>5, <1>6, <1>7, <1>8, <1>9

LEMMA HandInCInv ==
  ASSUME CInv, NEW a \in Attempts, HandIn(a)
  PROVE  CInv'
<1> USE DEF CInv
<1> DEFINE marked == AutoGraded(template[a], answers[a])
<1>1. /\ marked \in Sheet
      /\ answers' = [answers EXCEPT ![a] = marked]
      /\ answers'[a] = marked
      /\ \A b \in Attempts : b # a => answers'[b] = answers[b]
  BY AutoGradedSheet DEF HandIn, TypeOK
<1>2. \A q \in Questions :
        /\ marked[q].val = answers[a][q].val
        /\ q \in Manual /\ answers[a][q].val # "none" => marked[q].correct = "null"
        /\ q \notin Manual /\ answers[a][q].val # "none" =>
             marked[q].correct # "null" /\ marked[q] = gradeExamAnswer(q, marked[q])
  BY AutoGradedSheet DEF HandIn, TypeOK, OnPaper
<1> HIDE DEF marked
<1>3. /\ status'[a] = finalStatus(template[a])
      /\ status'[a] \in {"SUBMITTED", "GRADED"}
      /\ \A b \in Attempts : b # a => status'[b] = status[b]
      /\ score'[a] = TotalAwarded(template[a], marked)
      /\ \A b \in Attempts : b # a => score'[b] = score[b]
      /\ UNCHANGED <<template, student, notices>>
      /\ status[a] = "IN_PROGRESS"
  BY <1>1, FinalStatusValues DEF HandIn, TypeOK
<1>4. TypeOK'
  BY <1>1, <1>3 DEF HandIn, TypeOK, Status
<1>5. OneAttempt' /\ OneNotice' /\ AwaitsTeacher'
  BY <1>3 DEF OneAttempt, OneNotice, AwaitsTeacher
<1>6. MarksMatchAnswers'
  BY <1>1, <1>2, <1>3 DEF MarksMatchAnswers
<1>7. ScoreIsSumOfMarks'
  <2>1. status'[a] = "GRADED" => pendingIds(marked) = {}
    BY <1>2, <1>3 DEF finalStatus, pendingIds, OnPaper
  <2> QED BY <1>1, <1>3, <2>1 DEF ScoreIsSumOfMarks
<1>8. Unmarked' /\ OnPaper'
  BY <1>1, <1>2, <1>3 DEF Unmarked, OnPaper
<1> QED BY <1>4, <1>5, <1>6, <1>7, <1>8

LEMMA ExpireCInv ==
  ASSUME CInv, NEW a \in Attempts, Expire(a)
  PROVE  CInv'
<1> USE DEF CInv
<1>1. TypeOK'
  BY DEF Expire, TypeOK, Status
<1>2. OneAttempt' /\ OneNotice' /\ AwaitsTeacher'
  BY DEF Expire, TypeOK, OneAttempt, OneNotice, AwaitsTeacher
<1>3. MarksMatchAnswers' /\ ScoreIsSumOfMarks' /\ Unmarked' /\ OnPaper'
  BY DEF Expire, TypeOK, MarksMatchAnswers, ScoreIsSumOfMarks, Unmarked, OnPaper
<1> QED BY <1>1, <1>2, <1>3

LEMMA FinalizeCInv ==
  ASSUME CInv, NEW a \in Attempts, NEW ok, Finalize(a, ok)
  PROVE  CInv'
<1> USE DEF CInv
<1> DEFINE marked == ManuallyGraded(answers[a], pendingIds(answers[a]), ok)
<1>1. /\ marked \in Sheet
      /\ pendingIds(marked) = {}
      /\ answers' = [answers EXCEPT ![a] = marked]
      /\ answers'[a] = marked
      /\ \A b \in Attempts : b # a => answers'[b] = answers[b]
  BY ManuallyGradedSheet DEF Finalize, TypeOK
<1>2. \A q \in Questions :
        /\ marked[q].val = answers[a][q].val
        /\ q \notin Manual /\ answers[a][q].val # "none" => marked[q] = gradeExamAnswer(q, marked[q])
  <2>1. \A q \in Questions : q \notin Manual => q \notin pendingIds(answers[a])
    BY MachineMarkIsVerdict DEF Finalize, MarksMatchAnswers, pendingIds
  <2> QED BY <2>1, ManuallyGradedSheet DEF Finalize, TypeOK, MarksMatchAnswers
<1> HIDE DEF marked
<1>3. /\ status[a] = "SUBMITTED" /\ status'[a] = "GRADED"
      /\ \A b \in Attempts : b # a => status'[b] = status[b]
      /\ score'[a] = TotalAwarded(template[a], marked)
      /\ \A b \in Attempts : b # a => score'[b] = score[b]
      /\ UNCHANGED <<template, student>>
  BY <1>1 DEF Finalize, TypeOK
<1>4. TypeOK'
  BY <1>1, <1>3 DEF Finalize, TypeOK, Status
<1>5. OneAttempt' /\ AwaitsTeacher'
  BY <1>3 DEF OneAttempt, AwaitsTeacher
<1>6. OneNotice'
  <2>1. notices[a] = 0
    BY <1>3 DEF OneNotice
  <2> QED BY <1>3, <2>1 DEF Finalize, TypeOK, OneNotice, AwaitsTeacher
<1>7. MarksMatchAnswers' /\ ScoreIsSumOfMarks'
  BY <1>1, <1>2, <1>3 DEF MarksMatchAnswers, ScoreIsSumOfMarks
<1>8. Unmarked' /\ OnPaper'
  BY <1>1, <1>2, <1>3 DEF Unmarked, OnPaper
<1> QED BY <1>4, <1>5, <1>6, <1>7, <1>8

LEMMA StepCInv == CInv /\ [Next]_cvars => CInv'
<1> SUFFICES ASSUME CInv, [Next]_cvars PROVE CInv'
  OBVIOUS
<1>1. CASE UNCHANGED cvars
  BY <1>1 DEF cvars, CInv, TypeOK, OneAttempt, MarksMatchAnswers, ScoreIsSumOfMarks, OneNotice,
              Unmarked, OnPaper, AwaitsTeacher
<1>2. CASE Next
  <2> PICK a \in Attempts :
        \/ \E s \in Students, t \in Templates : Open(a, s, t)
        \/ \E q \in Questions, v \in {"right", "wrong"} : Save(a, q, v)
        \/ HandIn(a)
        \/ Expire(a)
        \/ \E ok \in SUBSET Questions : Finalize(a, ok)
    BY <1>2 DEF Next
  <2> QED BY OpenCInv, SaveCInv, HandInCInv, ExpireCInv, FinalizeCInv
<1> QED BY <1>1, <1>2

-----------------------------------------------------------------------------
\* The contract keeps all its state promises: one attempt, marks that match the
\* answers, a score that is their sum, one notification.
THEOREM ContractSafety == Spec => []CInv
BY InitCInv, StepCInv, PTL DEF Spec

\* A step from a state of the contract never revises a verdict.
LEMMA StepVerdict == CInv /\ [Next]_cvars => [VerdictStep]_cvars
<1> SUFFICES ASSUME CInv, Next PROVE VerdictStep
  OBVIOUS
<1> PICK a \in Attempts :
        \/ \E s \in Students, t \in Templates : Open(a, s, t)
        \/ \E q \in Questions, v \in {"right", "wrong"} : Save(a, q, v)
        \/ HandIn(a)
        \/ Expire(a)
        \/ \E ok \in SUBSET Questions : Finalize(a, ok)
  BY DEF Next
<1> USE DEF CInv, TypeOK, VerdictStep
<1>1. CASE \E s \in Students, t \in Templates : Open(a, s, t)
  BY <1>1 DEF Open, Of
<1>2. CASE \E q \in Questions, v \in {"right", "wrong"} : Save(a, q, v)
  BY <1>2 DEF Save
<1>3. CASE HandIn(a)
  BY <1>3 DEF HandIn
<1>4. CASE Expire(a)
  BY <1>4 DEF Expire
<1>5. CASE \E ok \in SUBSET Questions : Finalize(a, ok)
  BY <1>5 DEF Finalize
<1> QED BY <1>1, <1>2, <1>3, <1>4, <1>5

\* GRADED and EXPIRED attempts never change again.
THEOREM ContractVerdictIsFinal == Spec => VerdictIsFinal
BY ContractSafety, StepVerdict, PTL DEF Spec, VerdictIsFinal
=============================================================================
