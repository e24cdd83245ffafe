-------------------------- MODULE ExamSystemProofs --------------------------
(* The exam engine as a whole: templates and attempts on one database.        *)
EXTENDS ExamSystem, ExamTemplatesProofs

AP == INSTANCE ExamAttemptsProofs WITH live <- Live(clock)

\* The handlers of one part leave the rows of the other alone, so each part is
\* an environment the other allows for.
LEMMA LiveTemplates == Live(clock) \subseteq Templates /\ Live(clock)' \subseteq Templates
  BY DEF Live

LEMMA StepMaps == [SystemNext]_sysVars => [A!Next]_(A!vars)
<1> SUFFICES ASSUME [SystemNext]_sysVars PROVE [A!Next]_(A!vars)
  OBVIOUS
<1>1. CASE TemplateStep
  <2>1. A!TemplateChange
    BY <1>1, LiveTemplates DEF TemplateStep, A!TemplateChange, A!dbvars, attemptVars
  <2> QED
    BY <2>1 DEF A!Next
<1>2. CASE AttemptStep
  BY <1>2 DEF AttemptStep, A!Next
<1>3. CASE TimePasses
  <2>1. A!Tick
    BY <1>3, LiveTemplates DEF TimePasses, A!Tick, A!dbvars, attemptVars
  <2> QED
    BY <2>1 DEF A!Next
<1>4. CASE UNCHANGED sysVars
  BY <1>4 DEF sysVars, tplVars, tplRow, attemptVars, Live, A!vars, A!dbvars
<1> QED
  BY <1>1, <1>2, <1>3, <1>4 DEF SystemNext

\* Templates and attempts together implement the attempt handlers with the
\* environment ExamAttempts gives them.
THEOREM Composition == SystemSpec => ImplementsAttempts
<1>1. SystemInit => A!Init
  BY DEF SystemInit
<1> QED
  BY <1>1, StepMaps, PTL DEF SystemSpec, A!Spec, ImplementsAttempts

-----------------------------------------------------------------------------
\* What the parts promise on their own holds of the whole.

LEMMA TemplatesStepAlone == [SystemNext]_sysVars => [TemplateNext]_tplVars
  BY DEF SystemNext, TemplateStep, AttemptStep, TimePasses, sysVars

LEMMA SystemTInv == SystemSpec => []TInv
<1>1. SystemInit => TInv
  BY TInvInit DEF SystemInit
<1> QED
  BY <1>1, TInvStep, TemplatesStepAlone, PTL DEF SystemSpec

\* The system is built from one instance of the attempt handlers and the proofs
\* come with another: their operators are the same operators ...
LEMMA SameOperators ==
  /\ A!Idle = AP!Idle
  /\ A!IdentifierLeft <=> AP!IdentifierLeft
  /\ \A s, t : A!Blocking(s, t) = AP!Blocking(s, t)
  /\ \A a, now : A!Overdue(a, now) <=> AP!Overdue(a, now)
  /\ \A t, sheet : A!TotalAwarded(t, sheet) = AP!TotalAwarded(t, sheet)
  /\ \A t, sheet : A!AutoGraded(t, sheet) = AP!AutoGraded(t, sheet)
  /\ \A t : A!finalStatus(t) = AP!finalStatus(t)
  /\ \A sheet, graded, ok : A!ManuallyGraded(sheet, graded, ok) = AP!ManuallyGraded(sheet, graded, ok)
<1>1. A!Idle = AP!Idle
  BY DEF A!Idle, AP!Idle, A!EmptySheet, AP!EmptySheet, A!NoRow, AP!NoRow
<1>2. \A S : A!Cardinality(S) = AP!Cardinality(S)
  BY DEF A!Cardinality, AP!Cardinality
<1>3. A!IdentifierLeft <=> AP!IdentifierLeft
  BY <1>2 DEF A!IdentifierLeft, AP!IdentifierLeft, A!InStart, AP!InStart
<1>4. \A s, t : A!Blocking(s, t) = AP!Blocking(s, t)
  BY DEF A!Blocking, AP!Blocking, A!attemptBlockingStatuses, AP!attemptBlockingStatuses,
         A!Status, AP!Status
<1>5. \A a, now : A!Overdue(a, now) <=> AP!Overdue(a, now)
  BY DEF A!Overdue, AP!Overdue
<1>6. \A t, sheet : A!TotalAwarded(t, sheet) = AP!TotalAwarded(t, sheet)
  BY DEF A!TotalAwarded, AP!TotalAwarded, A!MapThenSumSet, AP!MapThenSumSet,
         A!MapThenFoldSet, AP!MapThenFoldSet
<1>7. \A t, sheet : A!AutoGraded(t, sheet) = AP!AutoGraded(t, sheet)
  BY DEF A!AutoGraded, AP!AutoGraded, A!gradeExamAnswer, AP!gradeExamAnswer
<1>8. \A t : A!finalStatus(t) = AP!finalStatus(t)
  BY DEF A!finalStatus, AP!finalStatus
<1>9. \A sheet, graded, ok : A!ManuallyGraded(sheet, graded, ok) = AP!ManuallyGraded(sheet, graded, ok)
  BY DEF A!ManuallyGraded, AP!ManuallyGraded
<1> QED
  BY <1>1, <1>3, <1>4, <1>5, <1>6, <1>7, <1>8, <1>9

\* ... and their handlers the same handlers.
LEMMA SameHandlers ==
  ASSUME NEW r, A!Send(r) \/ A!Serve(r) \/ A!Abort(r)
  PROVE  AP!Send(r) \/ AP!Serve(r) \/ AP!Abort(r)
<1>1. ASSUME NEW s, NEW t, A!StartRead(r, s, t) PROVE AP!StartRead(r, s, t)
  BY <1>1, SameOperators DEF A!StartRead, AP!StartRead, A!dbvars, AP!dbvars
<1>2. ASSUME A!StartLock(r) PROVE AP!StartLock(r)
  <2> DEFINE u == req[r].template  w == req[r].student
  <2>1. A!Blocking(w, u) = AP!Blocking(w, u)
    BY SameOperators
  <2>2. CASE A!Blocking(w, u) = {} /\ req' = [req EXCEPT ![r] = [@ EXCEPT !.step = "startDecide"]]
    BY <1>2, <2>1, <2>2 DEF A!StartLock, AP!StartLock, A!LockTemplate, AP!LockTemplate, A!dbvars, AP!dbvars
  <2>3. ASSUME NEW a \in A!Blocking(w, u),
               req' = [req EXCEPT ![r] = [@ EXCEPT
                         !.attempt = a, !.found = status[a],
                         !.step = IF status[a] = "IN_PROGRESS" /\ A!Overdue(a, req[r].now)
                                  THEN "startFlip" ELSE "startDecide"]]
        PROVE  AP!StartLock(r)
    BY <1>2, <2>1, <2>3, Zenon
    DEF A!StartLock, AP!StartLock, A!LockTemplate, AP!LockTemplate, A!dbvars, AP!dbvars, A!Overdue, AP!Overdue
  <2> QED
    BY <1>2, <2>2, <2>3, Zenon DEF A!StartLock
<1>3. ASSUME A!StartFlip(r) PROVE AP!StartFlip(r)
  BY <1>3, SameOperators DEF A!StartFlip, AP!StartFlip, A!Claims, AP!Claims,
         A!decideExamStart, AP!decideExamStart, A!CreateAttempt, AP!CreateAttempt,
         A!StartEnds, AP!StartEnds, A!dbvars, AP!dbvars
<1>4. ASSUME A!StartDecide(r) PROVE AP!StartDecide(r)
  BY <1>4, SameOperators DEF A!StartDecide, AP!StartDecide, A!decideExamStart,
         AP!decideExamStart, A!CreateAttempt, AP!CreateAttempt, A!StartEnds, AP!StartEnds,
         A!dbvars, AP!dbvars
<1>5. ASSUME NEW a, NEW q, NEW v, A!AnswerRead(r, a, q, v) PROVE AP!AnswerRead(r, a, q, v)
  BY <1>5, SameOperators DEF A!AnswerRead, AP!AnswerRead, A!AcceptsAnswers,
         AP!AcceptsAnswers, A!dbvars, AP!dbvars
<1>6. ASSUME A!AnswerLock(r) PROVE AP!AnswerLock(r)
  BY <1>6, SameOperators DEF A!AnswerLock, AP!AnswerLock, A!Rechecks, AP!Rechecks,
         A!AcceptsAnswers, AP!AcceptsAnswers, A!LockAttempt, AP!LockAttempt, A!dbvars,
         AP!dbvars
<1>7. ASSUME A!AnswerWrite(r) PROVE AP!AnswerWrite(r)
  BY <1>7, SameOperators DEF A!AnswerWrite, AP!AnswerWrite, A!FreeAttempt, AP!FreeAttempt,
         A!dbvars, AP!dbvars
<1>8. ASSUME NEW a, A!SubmitRead(r, a) PROVE AP!SubmitRead(r, a)
  BY <1>8, SameOperators, Zenon DEF A!SubmitRead, AP!SubmitRead, A!Overdue, AP!Overdue, A!dbvars, AP!dbvars
<1>9. ASSUME A!SubmitExpire(r) PROVE AP!SubmitExpire(r)
  BY <1>9, SameOperators DEF A!SubmitExpire, AP!SubmitExpire, A!Claims, AP!Claims,
         A!dbvars, AP!dbvars
<1>10. ASSUME A!SubmitLock(r) PROVE AP!SubmitLock(r)
  BY <1>10, SameOperators DEF A!SubmitLock, AP!SubmitLock, A!LockAttempt, AP!LockAttempt,
         A!dbvars, AP!dbvars
<1>11. ASSUME A!SubmitClaim(r) PROVE AP!SubmitClaim(r)
  BY <1>11, SameOperators, Zenon DEF A!SubmitClaim, AP!SubmitClaim, A!Claims, AP!Claims,
         A!FreeAttempt, AP!FreeAttempt, A!dbvars, AP!dbvars
<1>12. ASSUME NEW a, NEW graded, NEW ok, A!GradeRead(r, a, graded, ok) PROVE AP!GradeRead(r, a, graded, ok)
  BY <1>12, SameOperators DEF A!GradeRead, AP!GradeRead, A!reconcileManualGrades,
         AP!reconcileManualGrades, A!pendingIds, AP!pendingIds, A!dbvars, AP!dbvars
<1>13. ASSUME A!GradeClaim(r) PROVE AP!GradeClaim(r)
  BY <1>13, SameOperators DEF A!GradeClaim, AP!GradeClaim, A!Claims, AP!Claims, A!dbvars,
         AP!dbvars
<1>14. ASSUME A!Abort(r) PROVE AP!Abort(r)
  BY <1>14, SameOperators DEF A!Abort, AP!Abort, A!dbvars, AP!dbvars
<1> QED
  BY <1>1, <1>2, <1>3, <1>4, <1>5, <1>6, <1>7, <1>8, <1>9, <1>10, <1>11, <1>12, <1>13, <1>14
  DEF A!Send, AP!Send, A!Serve, AP!Serve

LEMMA AssumptionsHold == AP!ExamDataAssumption /\ AP!ExamAttemptsAssumption
  BY ExamSystemAssumption
  DEF A!ExamDataAssumption, AP!ExamDataAssumption, A!ExamAttemptsAssumption, AP!ExamAttemptsAssumption

LEMMA SystemInitMaps == SystemInit => AP!Init
  BY SameOperators DEF SystemInit, A!Init, AP!Init, A!EmptySheet, AP!EmptySheet, A!NoRow, AP!NoRow,
     A!NoScore, AP!NoScore

LEMMA SameSteps == [SystemNext]_sysVars => [AP!Next]_(AP!vars)
<1>1. ASSUME NEW r \in Reqs, A!Send(r) \/ A!Serve(r) \/ A!Abort(r) PROVE AP!Next
  BY <1>1, SameHandlers DEF AP!Next
<1>2. A!TemplateChange \/ A!Tick => AP!Next
  BY DEF A!TemplateChange, A!Tick, AP!TemplateChange, AP!Tick, AP!Next, A!dbvars, AP!dbvars
<1>3. [A!Next]_(A!vars) => [AP!Next]_(AP!vars)
  BY <1>1, <1>2 DEF A!Next, A!vars, AP!vars, A!dbvars, AP!dbvars
<1> QED
  BY <1>3, StepMaps

LEMMA SystemIInv == SystemSpec => []AP!IInv
<1>1. AP!Init => AP!IInv
  BY AssumptionsHold, AP!InitIInv
<1>2. AP!IInv /\ [AP!Next]_(AP!vars) => AP!IInv'
  BY AssumptionsHold, AP!StepIInv
<1> QED
  BY <1>1, <1>2, SystemInitMaps, SameSteps, PTL DEF SystemSpec

-----------------------------------------------------------------------------
(* What the contract promises of the attempts, the whole engine keeps.        *)

\* The operators of ExamData, as ExamSystem sees them through A!Contract and the
\* proofs of the contract through AP!CP.
LEMMA SameContract ==
  /\ \A t, sheet : A!Contract!TotalAwarded(t, sheet) = AP!CP!TotalAwarded(t, sheet)
  /\ \A q, row : A!Contract!gradeExamAnswer(q, row) = AP!CP!gradeExamAnswer(q, row)
  /\ \A t, sheet : A!Contract!AutoGraded(t, sheet) = AP!CP!AutoGraded(t, sheet)
  /\ \A t : A!Contract!finalStatus(t) = AP!CP!finalStatus(t)
  /\ \A sheet : A!Contract!pendingIds(sheet) = AP!CP!pendingIds(sheet)
  /\ \A sheet, graded, ok : A!Contract!ManuallyGraded(sheet, graded, ok) = AP!CP!ManuallyGraded(sheet, graded, ok)
<1>1. \A t, sheet : A!Contract!TotalAwarded(t, sheet) = AP!CP!TotalAwarded(t, sheet)
  BY DEF A!Contract!TotalAwarded, AP!CP!TotalAwarded, A!Contract!MapThenSumSet, AP!CP!MapThenSumSet,
         A!Contract!MapThenFoldSet, AP!CP!MapThenFoldSet
<1>2. \A q, row : A!Contract!gradeExamAnswer(q, row) = AP!CP!gradeExamAnswer(q, row)
  BY DEF A!Contract!gradeExamAnswer, AP!CP!gradeExamAnswer
<1>3. \A t, sheet : A!Contract!AutoGraded(t, sheet) = AP!CP!AutoGraded(t, sheet)
  BY <1>2 DEF A!Contract!AutoGraded, AP!CP!AutoGraded
<1>4. /\ \A t : A!Contract!finalStatus(t) = AP!CP!finalStatus(t)
      /\ \A sheet : A!Contract!pendingIds(sheet) = AP!CP!pendingIds(sheet)
  BY DEF A!Contract!finalStatus, AP!CP!finalStatus, A!Contract!pendingIds, AP!CP!pendingIds
<1>5. \A sheet, graded, ok : A!Contract!ManuallyGraded(sheet, graded, ok) = AP!CP!ManuallyGraded(sheet, graded, ok)
  BY DEF A!Contract!ManuallyGraded, AP!CP!ManuallyGraded
<1> QED
  BY <1>1, <1>2, <1>3, <1>4, <1>5

\* A step of any handler of the engine is a step of the contract, or none.
LEMMA SystemStepsAreTheContracts ==
  AP!IInv /\ [SystemNext]_sysVars => [A!Contract!Next]_(A!Contract!cvars)
<1> SUFFICES ASSUME AP!IInv, [SystemNext]_sysVars PROVE [A!Contract!Next]_(A!Contract!cvars)
  OBVIOUS
<1>1. [AP!CP!Next]_(AP!CP!cvars)
  BY SameSteps, AssumptionsHold, AP!StepIInv
<1>2. ASSUME NEW a, NEW s, NEW t, AP!CP!Open(a, s, t) PROVE A!Contract!Open(a, s, t)
  BY <1>2 DEF AP!CP!Open, A!Contract!Open, AP!CP!Of, A!Contract!Of
<1>3. ASSUME NEW a, NEW q, NEW v, AP!CP!Save(a, q, v) PROVE A!Contract!Save(a, q, v)
  BY <1>3 DEF AP!CP!Save, A!Contract!Save
<1>4. ASSUME NEW a, AP!CP!HandIn(a) PROVE A!Contract!HandIn(a)
  BY <1>4, SameContract DEF AP!CP!HandIn, A!Contract!HandIn
<1>5. ASSUME NEW a, AP!CP!Expire(a) PROVE A!Contract!Expire(a)
  BY <1>5 DEF AP!CP!Expire, A!Contract!Expire
<1>6. ASSUME NEW a, NEW ok, AP!CP!Finalize(a, ok) PROVE A!Contract!Finalize(a, ok)
  BY <1>6, SameContract DEF AP!CP!Finalize, A!Contract!Finalize
<1> QED
  BY <1>1, <1>2, <1>3, <1>4, <1>5, <1>6
  DEF AP!CP!Next, A!Contract!Next, AP!CP!cvars, A!Contract!cvars

\* Templates and attempts on one database implement the contract: whatever
\* authors, moderators, students and teachers do at the same time, the attempts
\* change only by its atomic steps.
THEOREM SystemImplementsContract == SystemSpec => A!ImplementsContract
<1>1. SystemInit => A!Contract!Init
  BY DEF SystemInit, A!Init, A!Contract!Init, A!EmptySheet, A!NoRow, A!Contract!NoRow, A!NoScore, A!Contract!NoScore
<1> QED
  BY <1>1, SystemIInv, SystemStepsAreTheContracts, PTL DEF SystemSpec, A!ImplementsContract, A!Contract!Spec

\* In the engine as a whole nobody sits a graded exam twice, every mark is what its
\* answer earns, every score the sum of its marks, a teacher's verdict is told
\* once, and what ran out is never graded.
THEOREM SystemKeepsPromises ==
  SystemSpec => [](/\ A!OneAttempt /\ A!MarksMatchAnswers /\ A!ScoreIsSumOfMarks
                   /\ A!OneNotice /\ A!ExpiredIsNeverGraded)
<1>1. AP!IInv => A!OneAttempt
  BY DEF AP!IInv, AP!CP!CInv, AP!CP!OneAttempt, A!OneAttempt, A!Contract!OneAttempt
<1>2. AP!IInv => A!MarksMatchAnswers /\ A!ScoreIsSumOfMarks
  BY SameContract
  DEF AP!IInv, AP!CP!CInv, AP!CP!MarksMatchAnswers, A!MarksMatchAnswers, A!Contract!MarksMatchAnswers,
      AP!CP!ScoreIsSumOfMarks, A!ScoreIsSumOfMarks, A!Contract!ScoreIsSumOfMarks
<1>3. AP!IInv => A!OneNotice
  BY SameContract DEF AP!IInv, AP!CP!CInv, AP!CP!OneNotice, A!OneNotice, A!Contract!OneNotice
<1>4. AP!IInv => A!ExpiredIsNeverGraded
  BY DEF AP!IInv, AP!CP!CInv, AP!CP!Unmarked, A!ExpiredIsNeverGraded, A!Contract!ExpiredIsNeverGraded,
         AP!CP!NoScore, A!Contract!NoScore
<1> QED
  BY <1>1, <1>2, <1>3, <1>4, SystemIInv, PTL

\* In the engine as a whole no row lock outlives its request and starts, answers,
\* submits and graders never wait for each other in a ring.  An author or a
\* moderator who waits for a template (exams.routes.ts:792) holds nothing, so the
\* start he waits for is among those that go on.
THEOREM SystemLocksComeBack == SystemSpec => [](A!LocksAreInHand /\ A!NoRingOfWaiters)
<1>1. SystemInit => AP!LocksAreInHand
  BY DEF SystemInit, A!Init, AP!LocksAreInHand
<1>2. AP!IInv /\ AP!LocksAreInHand /\ [SystemNext]_sysVars => AP!LocksAreInHand'
  BY SameSteps, AssumptionsHold, AP!StepInHand DEF AP!IInv
<1>3. AP!IInv /\ AP!LocksAreInHand => A!LocksAreInHand /\ A!NoRingOfWaiters
  <2>1. AP!IInv /\ AP!LocksAreInHand => AP!NoRingOfWaiters
    BY AssumptionsHold, AP!SomebodyGoes
  <2>2. AP!LocksAreInHand => A!LocksAreInHand
    BY DEF AP!LocksAreInHand, A!LocksAreInHand, AP!HoldsRow, A!HoldsRow, AP!HoldsTemplate, A!HoldsTemplate
  <2>3. AP!NoRingOfWaiters => A!NoRingOfWaiters
    BY DEF AP!NoRingOfWaiters, A!NoRingOfWaiters, AP!WaitsFor, A!WaitsFor
  <2> QED
    BY <2>1, <2>2, <2>3
<1> QED
  BY <1>1, <1>2, <1>3, SystemIInv, PTL DEF SystemSpec

\* In the engine as a whole a graded or expired attempt never changes again.
THEOREM SystemVerdictsStand == SystemSpec => A!VerdictIsFinal
<1>1. AP!IInv /\ [SystemNext]_sysVars => [A!Contract!VerdictStep]_(A!Contract!cvars)
  <2>1. AP!IInv /\ [SystemNext]_sysVars => [AP!CP!VerdictStep]_(AP!CP!cvars)
    BY SameSteps, AssumptionsHold, AP!StepIInv, AP!SameData, AP!CP!StepVerdict DEF AP!IInv
  <2> QED
    BY <2>1 DEF AP!CP!VerdictStep, A!Contract!VerdictStep, AP!CP!cvars, A!Contract!cvars
<1> QED
  BY <1>1, SystemIInv, PTL DEF SystemSpec, A!VerdictIsFinal, A!Contract!VerdictIsFinal

-----------------------------------------------------------------------------
(* An exam stays as it is until a decision takes it back.                     *)

\* Published, or reached by a decision since it was.
Standing(t) == tplStatus[t] = "PUBLISHED" \/ t \in takenBack

\* Starts, locks and attempts exist only on such templates.
OnlyOnStanding ==
  /\ \A r \in Reqs : req[r].step \in A!InStart => Standing(req[r].template)
  /\ \A t \in Templates : tplLock[t] # Nil => Standing(t)
  /\ \A a \in Attempts : status[a] # "none" => Standing(template[a])

SInv == TInv /\ AP!IInv /\ OnlyOnStanding

\* Only a decision takes a published template down, and it says so; only a new
\* publication clears that.
LEMMA StandingStays ==
  ASSUME TInv, [TemplateNext]_tplVars
  PROVE  \A t \in Templates : Standing(t) => Standing(t)'
<1> USE DEF Standing
<1>1. ASSUME UNCHANGED <<tplStatus, takenBack>> PROVE \A t \in Templates : Standing(t) => Standing(t)'
  BY <1>1
<1>2. ASSUME NEW r \in Authoring, CreateWrite(r) \/ CloneWrite(r)
      PROVE  \A t \in Templates : Standing(t) => Standing(t)'
  <2>1. /\ edit[r].tpl \in Templates /\ tplStatus[edit[r].tpl] = "none"
        /\ tplStatus' = [tplStatus EXCEPT ![edit[r].tpl] = "PENDING_REVIEW"] /\ takenBack' = takenBack
    BY <1>2 DEF TInv, EditsSound, Creating, CreateWrite, CloneWrite, InsertTemplate, history
  <2> QED
    BY <2>1 DEF TInv, TemplateTypeOK
<1>3. ASSUME NEW r \in Authoring, PublishWrite(r) \/ EditWrite(r)
      PROVE  \A t \in Templates : Standing(t) => Standing(t)'
  BY <1>3, ConditionalUpdate
<1>4. ASSUME NEW m \in Moderators, NEW t \in Templates, NEW approve \in BOOLEAN,
             ModerateTemplate(m, t, approve)
      PROVE  \A u \in Templates : Standing(u) => Standing(u)'
  <2>1. \A u \in Templates \ {t} : tplStatus'[u] = tplStatus[u]
    BY <1>4 DEF ModerateTemplate, TInv, TemplateTypeOK
  <2>2. takenBack \subseteq takenBack' /\ (tplStatus[t] = "PUBLISHED" => t \in takenBack')
    BY <1>4 DEF ModerateTemplate
  <2> QED
    BY <2>1, <2>2
<1> QED
  BY <1>1, <1>2, <1>3, <1>4
  DEF TemplateNext, tplVars, tplRow, history, ModerateQuestion, CreateRead, CloneRead, PublishRead, EditRead,
      ViewQueue, AuthoringAborts

\* A request enters a start, or locks a template, only when the template is live.
LEMMA StartsAreLive ==
  ASSUME AP!IInv, OnlyOnStanding, NEW r \in Reqs, A!Send(r) \/ A!Serve(r) \/ A!Abort(r),
         UNCHANGED <<tplStatus, takenBack>>
  PROVE  /\ \A p \in Reqs : req'[p].step \in A!InStart => Standing(req'[p].template)
         /\ \A t \in Templates : tplLock'[t] # Nil => Standing(t)
<1> DEFINE Goal == /\ \A p \in Reqs : req'[p].step \in A!InStart => Standing(req'[p].template)
                   /\ \A t \in Templates : tplLock'[t] # Nil => Standing(t)
<1> SUFFICES Goal
  BY DEF Goal
<1> HIDE DEF Goal
<1>0. req \in [Reqs -> A!Request] /\ tplLock \in [Templates -> Reqs \cup {Nil}]
  BY DEF AP!IInv, AP!Infra, AP!Request, A!Request, AP!Steps, A!Steps, AP!Sheet, A!Sheet, AP!Row, A!Row,
         AP!Status, A!Status
<1>1. ASSUME NEW s \in Students, NEW t \in Templates, A!StartRead(r, s, t) PROVE Goal
  <2>1. req'[r].template = t /\ Standing(t) /\ tplLock' = tplLock
        /\ \A p \in Reqs \ {r} : req'[p] = req[p]
    BY <1>0, <1>1 DEF A!StartRead, A!Idle, Live, Standing
  <2> QED
    BY <2>1 DEF Goal, OnlyOnStanding
<1>2. CASE A!StartLock(r)
  <2>1. /\ req[r].step = "startTx" /\ req'[r].template = req[r].template
        /\ \A p \in Reqs \ {r} : req'[p] = req[p]
        /\ \A t \in Templates : t # req[r].template => tplLock'[t] = tplLock[t]
    BY <1>0, <1>2 DEF A!StartLock, A!LockTemplate, A!Request
  <2> QED
    BY <2>1 DEF Goal, OnlyOnStanding, A!InStart
<1>3. ASSUME req' = [req EXCEPT ![r] = A!Idle], \A t \in Templates : tplLock'[t] \in {tplLock[t], Nil}
      PROVE  Goal
  BY <1>0, <1>3 DEF Goal, OnlyOnStanding, A!Idle, A!InStart
<1>4. ASSUME req'[r].step \notin A!InStart, \A p \in Reqs \ {r} : req'[p] = req[p], tplLock' = tplLock
      PROVE  Goal
  BY <1>4 DEF Goal, OnlyOnStanding
<1>5. CASE A!StartFlip(r) \/ A!StartDecide(r)
  <2>1. A!StartEnds(r)
    BY <1>5 DEF A!StartFlip, A!StartDecide
  <2>2. req' = [req EXCEPT ![r] = A!Idle] /\ tplLock' = [tplLock EXCEPT ![req[r].template] = Nil]
    BY <2>1 DEF A!StartEnds
  <2> QED
    BY <1>0, <1>3, <2>2
<1>6. CASE A!Abort(r)
  <2>1. /\ req' = [req EXCEPT ![r] = A!Idle]
        /\ tplLock' = [t \in Templates |-> IF tplLock[t] = r THEN Nil ELSE tplLock[t]]
    BY <1>6, Zenon DEF A!Abort
  <2> QED
    BY <1>0, <1>3, <2>1
<1>7. ASSUME NEW next, req' = [req EXCEPT ![r] = next], next.step \notin A!InStart, tplLock' = tplLock
      PROVE  Goal
  BY <1>0, <1>4, <1>7
<1>8. CASE A!AnswerLock(r) \/ A!SubmitLock(r)
  <2>1. PICK next :
           /\ req' = [req EXCEPT ![r] = next] /\ tplLock' = tplLock
           /\ \/ next.step \in {"answerWrite", "submitClaim"}
              \/ next = A!Idle
    <3>1. CASE A!AnswerLock(r)
      <4>1. \/ req' = [req EXCEPT ![r] = [req[r] EXCEPT !.step = "answerWrite"]]
            \/ req' = [req EXCEPT ![r] = A!Idle]
        BY <3>1, Zenon DEF A!AnswerLock
      <4>2. [req[r] EXCEPT !.step = "answerWrite"].step = "answerWrite"
        BY <1>0 DEF A!Request
      <4>3. tplLock' = tplLock
        BY <3>1, Zenon DEF A!AnswerLock
      <4> QED
        BY <4>1, <4>2, <4>3, Zenon
    <3>2. CASE A!SubmitLock(r)
      <4>1. req' = [req EXCEPT ![r] = [req[r] EXCEPT !.step = "submitClaim", !.seen = answers[req[r].attempt]]]
        BY <3>2, Zenon DEF A!SubmitLock
      <4>2. [req[r] EXCEPT !.step = "submitClaim", !.seen = answers[req[r].attempt]].step = "submitClaim"
        BY <1>0 DEF A!Request
      <4>3. tplLock' = tplLock
        BY <3>2, Zenon DEF A!SubmitLock
      <4> QED
        BY <4>1, <4>2, <4>3, Zenon
    <3> QED
      BY <1>8, <3>1, <3>2
  <2> QED
    BY <1>7, <2>1 DEF A!Idle, A!InStart
<1>9. CASE A!AnswerWrite(r) \/ A!SubmitExpire(r) \/ A!SubmitClaim(r) \/ A!GradeClaim(r)
  <2>1. req' = [req EXCEPT ![r] = A!Idle] /\ tplLock' = tplLock
    BY <1>9, Zenon DEF A!AnswerWrite, A!SubmitExpire, A!SubmitClaim, A!GradeClaim
  <2> QED
    BY <1>7, <2>1 DEF A!Idle, A!InStart
<1>10. ASSUME NEW a, NEW q, NEW v, A!AnswerRead(r, a, q, v) PROVE Goal
  <2>1. /\ req' = [req EXCEPT ![r] = [A!Idle EXCEPT !.step = "answerTx", !.attempt = a,
                                                   !.question = q, !.value = v]]
        /\ tplLock' = tplLock
    BY <1>10, Zenon DEF A!AnswerRead
  <2>2. [A!Idle EXCEPT !.step = "answerTx", !.attempt = a, !.question = q, !.value = v].step \notin A!InStart
    BY DEF A!Idle, A!InStart
  <2> QED
    BY <1>7, <2>1, <2>2, Zenon
<1>11. ASSUME NEW a, A!SubmitRead(r, a) PROVE Goal
  <2> DEFINE next == [A!Idle EXCEPT !.attempt = a,
                                    !.step = IF A!Overdue(a, clock) THEN "expireTx" ELSE "submitTx"]
  <2>1. req' = [req EXCEPT ![r] = next] /\ tplLock' = tplLock
    BY <1>11, Zenon DEF A!SubmitRead
  <2>2. next.step \notin A!InStart
    BY DEF A!Idle, A!InStart
  <2> QED
    BY <1>7, <2>1, <2>2, Zenon
<1>12. ASSUME NEW a, NEW graded, NEW ok, A!GradeRead(r, a, graded, ok) PROVE Goal
  <2> DEFINE next == [A!Idle EXCEPT !.step = "gradeTx", !.attempt = a, !.graded = graded,
                                    !.ok = ok, !.seen = answers[a]]
  <2>1. req' = [req EXCEPT ![r] = next] /\ tplLock' = tplLock
    BY <1>12, Zenon DEF A!GradeRead
  <2>2. next.step \notin A!InStart
    BY DEF A!Idle, A!InStart
  <2> QED
    BY <1>7, <2>1, <2>2, Zenon
<1> QED
  BY <1>1, <1>2, <1>5, <1>6, <1>8, <1>9, <1>10, <1>11, <1>12 DEF A!Send, A!Serve, Goal

LEMMA SInvStep ==
  ASSUME SInv, [SystemNext]_sysVars, AP!IInv', TInv'
  PROVE  SInv'
<1> USE DEF SInv, Standing
<1>1. \A t \in Templates : Standing(t) => Standing(t)'
  BY TemplatesStepAlone, StandingStays
<1>2. /\ \A r \in Reqs : req[r].step \in A!InStart => req[r].template \in Templates
      /\ \A a \in Attempts : status[a] # "none" => template[a] \in Templates
  BY DEF AP!IInv, AP!StartKnows, AP!InStart, A!InStart, AP!CP!CInv, AP!CP!TypeOK
<1>3. CASE UNCHANGED attemptVars
  BY <1>1, <1>2, <1>3 DEF attemptVars, OnlyOnStanding
<1>4. CASE AttemptStep
  <2>1. PICK r \in Reqs : A!Send(r) \/ A!Serve(r) \/ A!Abort(r)
    BY <1>4 DEF AttemptStep
  <2>2. UNCHANGED <<tplStatus, takenBack>>
    BY <1>4 DEF AttemptStep, tplVars, tplRow, history
  <2>3. AP!Calm(r)
    BY <2>1, AssumptionsHold, SameHandlers, AP!RequestStepGood DEF AP!Good
  <2>4. ASSUME NEW a \in Attempts, status'[a] # "none" PROVE Standing(template'[a])
    <3>1. CASE status[a] # "none"
      BY <2>3, <3>1 DEF AP!Calm, OnlyOnStanding
    <3>2. CASE status[a] = "none"
      <4>1. tplLock[template'[a]] = r
        BY <2>3, <2>4, <3>2 DEF AP!Calm
      <4>2. template'[a] \in Templates /\ r # Nil
        BY <2>4, ExamSystemAssumption DEF AP!IInv, AP!CP!CInv, AP!CP!TypeOK, A!ExamAttemptsAssumption
      <4> QED
        BY <4>1, <4>2 DEF OnlyOnStanding
    <3> QED
      BY <3>1, <3>2
  <2> QED
    BY <1>1, <2>1, <2>2, <2>4, StartsAreLive DEF OnlyOnStanding
<1> QED
  BY <1>3, <1>4 DEF SystemNext, TemplateStep, TimePasses, sysVars

LEMMA SystemSInv == SystemSpec => []SInv
<1>1. SystemInit => OnlyOnStanding
  BY DEF SystemInit, TemplateInit, A!Init, OnlyOnStanding, A!Idle, A!InStart
<1>2. SInv /\ [SystemNext]_sysVars /\ AP!IInv' /\ TInv' => SInv'
  BY SInvStep
<1>3. SystemSpec => [](TInv /\ AP!IInv)
  BY SystemTInv, SystemIInv, PTL
<1>4. TInv /\ AP!IInv /\ OnlyOnStanding => SInv
  BY DEF SInv
<1> QED
  BY <1>1, <1>2, <1>3, <1>4, PTL DEF SystemSpec

\* However many pages moderate and however often they repeat themselves: as long
\* as no decision has reached it after its publication, the exam of every attempt
\* is published, its present content was approved, its questions were vetted.
THEOREM ExamsStayApproved == SystemSpec => []SatUnderVerdict
<1>1. SInv => SatUnderVerdict
  <2>1. SInv => \A a \in Attempts : status[a] # "none" => template[a] \in Templates
    BY DEF SInv, AP!IInv, AP!CP!CInv, AP!CP!TypeOK
  <2> QED
    BY <2>1 DEF SInv, SatUnderVerdict, OnlyOnStanding, Standing, TInv, VerdictCoversContent,
                BuiltFromVettedQuestions
<1> QED
  BY <1>1, SystemSInv, PTL

\* A template with an attempt is edited only where such a decision came first: no
\* race of start, publication and edit changes an exam under its students.
THEOREM ExamsChangeOnlyWhenTakenBack == SystemSpec => ChangesOnlyWhenTakenBack
<1> DEFINE TakenBackFirst ==
      \A a \in Attempts : status[a] # "none" /\ version'[template[a]] # version[template[a]] =>
        template[a] \in takenBack
<1>1. SInv /\ [SystemNext]_sysVars => [TakenBackFirst]_sysVars
  <2> SUFFICES ASSUME SInv, [SystemNext]_sysVars PROVE TakenBackFirst
    OBVIOUS
  <2>1. \A a \in Attempts : status[a] # "none" => template[a] \in Templates /\ Standing(template[a])
    BY DEF SInv, AP!IInv, AP!CP!CInv, AP!CP!TypeOK, OnlyOnStanding
  <2>2. [PublicationStep]_tplVars
    BY TemplatesStepAlone, PublicationGuarded DEF SInv
  <2> QED
    BY <2>1, <2>2 DEF PublicationStep, Standing, tplVars, tplRow
<1> QED
  BY <1>1, SystemSInv, PTL DEF SystemSpec, ChangesOnlyWhenTakenBack
=============================================================================
