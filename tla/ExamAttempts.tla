---------------------------- MODULE ExamAttempts ----------------------------
(* The attempt handlers of exams.routes.ts, one action per database statement *)
(* that another request can slip past: start, answer, submit, manual grade.   *)
(* PostgreSQL runs them READ COMMITTED; rows are protected only by the locks  *)
(* the handlers take (SELECT ... FOR UPDATE) and by their conditional updates *)
(* (updateMany ... WHERE status = ...).  A statement that must wait for a row *)
(* lock is an action that is not enabled; the writes of a transaction become  *)
(* visible at its last step.  A request refused by a guard changes nothing    *)
(* and is not an action.                                                      *)
EXTENDS ExamData, FiniteSets

CONSTANTS
  Reqs,         \* requests that can be under way at the same time
  Duration,     \* durationMin
  Grace,        \* SUBMIT_GRACE_MS
  MaxClock      \* bound of the model: the clock stops here

ASSUME ExamAttemptsAssumption ==
  /\ Duration \in Nat /\ Grace \in Nat /\ MaxClock \in Nat
  /\ Nil \notin Reqs

VARIABLES
  status, template, student, score, answers,  \* the ExamAttempt and ExamAnswer rows
  notices,    \* notification rows, counted per attempt
  expiresAt,  \* expiresAt[a]: ExamAttempt.expiresAt
  live,       \* the templates a start accepts: PUBLISHED, inside their window
  clock,
  rowLock,    \* rowLock[a]: the request whose transaction locks attempt a
  tplLock,    \* tplLock[t]: the same for the ExamTemplate row
  req         \* req[r]: the step request r is at, and what it has read

dbvars == <<status, template, student, score, answers, notices, expiresAt>>
vars == <<dbvars, live, clock, rowLock, tplLock, req>>

Steps == {"idle", "startTx", "startFlip", "startDecide", "answerTx", "answerWrite",
          "submitTx", "submitClaim", "expireTx", "gradeTx"}
InStart == {"startTx", "startFlip", "startDecide"}
HoldsTemplate == {"startFlip", "startDecide"}
HoldsRow == {"answerWrite", "submitClaim"}

EmptySheet == [q \in Questions |-> NoRow]

\* The local variables of a handler; each handler uses the fields it needs.
Idle == [step |-> "idle", attempt |-> Nil, template |-> Nil, student |-> Nil, now |-> 0,
         found |-> "none", question |-> Nil, value |-> "none",
         seen |-> EmptySheet, graded |-> {}, ok |-> {}]

\* expiresAt + SUBMIT_GRACE_MS < now
Overdue(a, now) == expiresAt[a] + Grace < now

(* The database idioms of the handlers.  A definition named X_Y is X with the *)
(* plausible mistake Y in it; no specification uses one, they serve to show   *)
(* that the properties below would notice.                                    *)

\* SELECT id FROM "ExamTemplate" ... FOR UPDATE: wait for the row, then own it.
LockTemplate_NotLocked(r, t) == UNCHANGED tplLock
LockTemplate(r, t) == tplLock[t] = Nil /\ tplLock' = [tplLock EXCEPT ![t] = r]

\* SELECT id FROM "ExamAttempt" ... FOR UPDATE, and the end of that transaction.
LockAttempt_NotLocked(r, a) == UNCHANGED rowLock
LockAttempt(r, a) == rowLock[a] = Nil /\ rowLock' = [rowLock EXCEPT ![a] = r]

FreeAttempt_Leaked(a) == UNCHANGED rowLock
FreeAttempt(a) == rowLock' = [rowLock EXCEPT ![a] = Nil]

\* updateMany WHERE id = a AND status = from: does it find the row?
Claims_AnyStatus(a, from) == TRUE
Claims(a, from) == status[a] = from

\* The guards of an answer save, read without a lock and again under it.
AcceptsAnswers(a) == status[a] = "IN_PROGRESS" /\ ~Overdue(a, clock)

Init ==
  /\ status = [a \in Attempts |-> "none"]
  /\ template = [a \in Attempts |-> Nil]
  /\ student = [a \in Attempts |-> Nil]
  /\ score = [a \in Attempts |-> NoScore]
  /\ answers = [a \in Attempts |-> EmptySheet]
  /\ notices = [a \in Attempts |-> 0]
  /\ expiresAt = [a \in Attempts |-> 0]
  /\ live = {}
  /\ clock = 0
  /\ rowLock = [a \in Attempts |-> Nil]
  /\ tplLock = [t \in Templates |-> Nil]
  /\ req = [r \in Reqs |-> Idle]

-----------------------------------------------------------------------------
(* POST /exams/templates/:id/start                                            *)

\* Bound of the model: a start begins only while an identifier is left for it.
IdentifierLeft ==
  Cardinality({r \in Reqs : req[r].step \in InStart}) < Cardinality({a \in Attempts : status[a] = "none"})

\* The template is read and its guards checked; expiresAt derives from this now.
StartRead(r, s, t) ==
  /\ req[r].step = "idle"
  /\ t \in live
  /\ IdentifierLeft
  /\ req' = [req EXCEPT ![r] = [Idle EXCEPT !.step = "startTx", !.template = t,
                                            !.student = s, !.now = clock]]
  /\ UNCHANGED <<dbvars, live, clock, rowLock, tplLock>>

Blocking(s, t) == {a \in Attempts : /\ student[a] = s /\ template[a] = t
                                    /\ status[a] \in attemptBlockingStatuses(t)}

\* SELECT ... FOR UPDATE on the template row, then findFirst.
StartLock(r) ==
  LET t == req[r].template  s == req[r].student IN
  /\ req[r].step = "startTx"
  /\ LockTemplate(r, t)
  /\ \/ /\ Blocking(s, t) = {}
        /\ req' = [req EXCEPT ![r] = [@ EXCEPT !.step = "startDecide"]]
     \/ \E a \in Blocking(s, t) :
          req' = [req EXCEPT ![r] = [@ EXCEPT
                    !.attempt = a, !.found = status[a],
                    !.step = IF status[a] = "IN_PROGRESS" /\ Overdue(a, req[r].now)
                             THEN "startFlip" ELSE "startDecide"]]
  /\ UNCHANGED <<dbvars, live, clock, rowLock>>

\* examAttempt.create by request r, together with the flip of row `flipped`.
CreateAttempt(r, a, flipped) ==
  /\ status[a] = "none"
  /\ status' = [b \in Attempts |-> IF b = a THEN "IN_PROGRESS"
                                   ELSE IF b \in flipped THEN "EXPIRED" ELSE status[b]]
  /\ template' = [template EXCEPT ![a] = req[r].template]
  /\ student' = [student EXCEPT ![a] = req[r].student]
  /\ expiresAt' = [expiresAt EXCEPT ![a] = req[r].now + Duration]
  /\ UNCHANGED <<score, answers, notices>>

\* Commit or rollback of a start: the template row is free, the response sent.
StartEnds(r) ==
  /\ tplLock' = [tplLock EXCEPT ![req[r].template] = Nil]
  /\ req' = [req EXCEPT ![r] = Idle]
  /\ UNCHANGED <<live, clock, rowLock>>

\* The overdue attempt is flipped to EXPIRED if it is still IN_PROGRESS (else
\* it is read again), and the start decides on what it then is.
StartFlip(r) ==
  LET t == req[r].template
      a == req[r].attempt
      flipped == IF Claims(a, "IN_PROGRESS") THEN {a} ELSE {}
      found == IF flipped # {} THEN "EXPIRED" ELSE status[a]
  IN
  /\ req[r].step = "startFlip"
  /\ rowLock[a] = Nil
  /\ \/ /\ decideExamStart(t, found, TRUE) = "freshStart"
        /\ \E b \in Attempts : CreateAttempt(r, b, flipped)
     \/ /\ decideExamStart(t, found, TRUE) # "freshStart"
        /\ status' = [b \in Attempts |-> IF b \in flipped THEN "EXPIRED" ELSE status[b]]
        /\ UNCHANGED <<template, student, score, answers, notices, expiresAt>>
  /\ StartEnds(r)

\* Resume, report the earlier attempt, or create the first one.
StartDecide(r) ==
  LET act == decideExamStart(req[r].template, req[r].found, FALSE) IN
  /\ req[r].step = "startDecide"
  /\ \/ /\ act = "freshStart"
        /\ \E a \in Attempts : CreateAttempt(r, a, {})
     \/ /\ act # "freshStart"
        /\ UNCHANGED dbvars
  /\ StartEnds(r)

-----------------------------------------------------------------------------
(* POST /exams/attempts/:id/answer                                            *)

\* The guards on the first, unlocked read.
AnswerRead(r, a, q, v) ==
  /\ req[r].step = "idle"
  /\ AcceptsAnswers(a)
  /\ q \in Paper[template[a]]
  /\ req' = [req EXCEPT ![r] = [Idle EXCEPT !.step = "answerTx", !.attempt = a,
                                            !.question = q, !.value = v]]
  /\ UNCHANGED <<dbvars, live, clock, rowLock, tplLock>>

\* SELECT ... FOR UPDATE on the attempt row, then the same guards again.
Rechecks_Stale(a) == TRUE
Rechecks(a) == AcceptsAnswers(a)

AnswerLock(r) ==
  LET a == req[r].attempt IN
  /\ req[r].step = "answerTx"
  /\ \/ /\ Rechecks(a)
        /\ LockAttempt(r, a)
        /\ req' = [req EXCEPT ![r] = [@ EXCEPT !.step = "answerWrite"]]
     \/ /\ rowLock[a] = Nil /\ ~Rechecks(a)
        /\ req' = [req EXCEPT ![r] = Idle]
        /\ UNCHANGED rowLock
  /\ UNCHANGED <<dbvars, live, clock, tplLock>>

\* The upsert and the commit.
AnswerWrite(r) ==
  LET a == req[r].attempt  q == req[r].question IN
  /\ req[r].step = "answerWrite"
  /\ answers' = [answers EXCEPT ![a][q].val = req[r].value]
  /\ FreeAttempt(a)
  /\ req' = [req EXCEPT ![r] = Idle]
  /\ UNCHANGED <<status, template, student, score, notices, expiresAt, live, clock, tplLock>>

-----------------------------------------------------------------------------
(* POST /exams/attempts/:id/submit                                            *)

\* The first read, inside the grace window or past it.
SubmitRead(r, a) ==
  /\ req[r].step = "idle"
  /\ status[a] = "IN_PROGRESS"
  /\ req' = [req EXCEPT ![r] = [Idle EXCEPT
               !.attempt = a, !.step = IF Overdue(a, clock) THEN "expireTx" ELSE "submitTx"]]
  /\ UNCHANGED <<dbvars, live, clock, rowLock, tplLock>>

\* Past the grace window: the conditional flip to EXPIRED.
SubmitExpire(r) ==
  LET a == req[r].attempt IN
  /\ req[r].step = "expireTx"
  /\ rowLock[a] = Nil
  /\ status' = IF Claims(a, "IN_PROGRESS") THEN [status EXCEPT ![a] = "EXPIRED"] ELSE status
  /\ req' = [req EXCEPT ![r] = Idle]
  /\ UNCHANGED <<template, student, score, answers, notices, expiresAt, live, clock, rowLock, tplLock>>

\* SELECT ... FOR UPDATE on the attempt row; the answers are read under the lock.
SubmitLock(r) ==
  LET a == req[r].attempt IN
  /\ req[r].step = "submitTx"
  /\ LockAttempt(r, a)
  /\ req' = [req EXCEPT ![r] = [@ EXCEPT !.step = "submitClaim", !.seen = answers[a]]]
  /\ UNCHANGED <<dbvars, live, clock, tplLock>>

\* Grading, the conditional claim, the marks, the commit; or, when another
\* submit has claimed the attempt, a rollback.
SubmitClaim(r) ==
  LET a == req[r].attempt
      marked == AutoGraded(template[a], req[r].seen)
  IN
  /\ req[r].step = "submitClaim"
  /\ \/ /\ Claims(a, "IN_PROGRESS")
        /\ status' = [status EXCEPT ![a] = finalStatus(template[a])]
        /\ score' = [score EXCEPT ![a] = TotalAwarded(template[a], marked)]
        /\ answers' = [answers EXCEPT ![a] =
             [q \in Questions |-> IF req[r].seen[q].val # "none"
                                  THEN [val |-> @[q].val, correct |-> marked[q].correct,
                                        awarded |-> marked[q].awarded]
                                  ELSE @[q]]]
        /\ UNCHANGED <<template, student, notices, expiresAt>>
     \/ /\ ~Claims(a, "IN_PROGRESS")
        /\ UNCHANGED dbvars
  /\ FreeAttempt(a)
  /\ req' = [req EXCEPT ![r] = Idle]
  /\ UNCHANGED <<live, clock, tplLock>>

-----------------------------------------------------------------------------
(* POST /exams/attempts/:attemptId/grade                                      *)

\* The attempt and its answers are read, the payload reconciled with them.
GradeRead(r, a, graded, ok) ==
  /\ req[r].step = "idle"
  /\ status[a] = "SUBMITTED"
  /\ reconcileManualGrades(graded, pendingIds(answers[a]))
  /\ req' = [req EXCEPT ![r] = [Idle EXCEPT !.step = "gradeTx", !.attempt = a, !.graded = graded,
                                            !.ok = ok, !.seen = answers[a]]]
  /\ UNCHANGED <<dbvars, live, clock, rowLock, tplLock>>

\* The claim SUBMITTED -> GRADED, the marks and the notification, one commit.
GradeClaim(r) ==
  LET a == req[r].attempt
      marked == ManuallyGraded(req[r].seen, req[r].graded, req[r].ok)
  IN
  /\ req[r].step = "gradeTx"
  /\ rowLock[a] = Nil
  /\ \/ /\ Claims(a, "SUBMITTED")
        /\ status' = [status EXCEPT ![a] = "GRADED"]
        /\ score' = [score EXCEPT ![a] = TotalAwarded(template[a], marked)]
        /\ answers' = [answers EXCEPT ![a] =
             [q \in Questions |-> IF q \in req[r].graded
                                  THEN [val |-> @[q].val, correct |-> marked[q].correct,
                                        awarded |-> marked[q].awarded]
                                  ELSE @[q]]]
        /\ notices' = [notices EXCEPT ![a] = @ + 1]
        /\ UNCHANGED <<template, student, expiresAt>>
     \/ /\ ~Claims(a, "SUBMITTED")
        /\ UNCHANGED dbvars
  /\ req' = [req EXCEPT ![r] = Idle]
  /\ UNCHANGED <<live, clock, rowLock, tplLock>>

-----------------------------------------------------------------------------
(* Everything else                                                            *)

\* The process dies, or Prisma times the transaction out, before the commit.
Abort(r) ==
  /\ req[r].step # "idle"
  /\ rowLock' = [a \in Attempts |-> IF rowLock[a] = r THEN Nil ELSE rowLock[a]]
  /\ tplLock' = [t \in Templates |-> IF tplLock[t] = r THEN Nil ELSE tplLock[t]]
  /\ req' = [req EXCEPT ![r] = Idle]
  /\ UNCHANGED <<dbvars, live, clock>>

\* A template is published, taken down, or its window is edited.
TemplateChange ==
  /\ live' \in SUBSET Templates
  /\ UNCHANGED <<dbvars, clock, rowLock, tplLock, req>>

\* Time passes; it may open or close a window.
Tick ==
  /\ clock < MaxClock
  /\ clock' = clock + 1
  /\ live' \in SUBSET Templates
  /\ UNCHANGED <<dbvars, rowLock, tplLock, req>>

\* A user sends a request.
Send(r) ==
  \/ \E s \in Students, t \in Templates : StartRead(r, s, t)
  \/ \E a \in Attempts :
       \/ \E q \in Questions, v \in {"right", "wrong"} : AnswerRead(r, a, q, v)
       \/ SubmitRead(r, a)
       \/ \E graded \in SUBSET Questions : \E ok \in SUBSET graded : GradeRead(r, a, graded, ok)

\* The server works on a request.
Serve(r) ==
  \/ StartLock(r) \/ StartFlip(r) \/ StartDecide(r)
  \/ AnswerLock(r) \/ AnswerWrite(r)
  \/ SubmitExpire(r) \/ SubmitLock(r) \/ SubmitClaim(r)
  \/ GradeClaim(r)

Next ==
  \/ \E r \in Reqs : Send(r) \/ Serve(r) \/ Abort(r)
  \/ TemplateChange
  \/ Tick

Spec == Init /\ [][Next]_vars

\* The process serves each request, and PostgreSQL queues the waiters of a row
\* lock, so a request whose next statement can run again and again runs it.
\* Users, moderators and the clock owe nothing.
FairSpec == Spec /\ \A r \in Reqs : SF_vars(Serve(r))

-----------------------------------------------------------------------------
(* Properties                                                                 *)

Request == [step : Steps, attempt : Attempts \cup {Nil}, template : Templates \cup {Nil},
            student : Students \cup {Nil}, now : Nat, found : Status,
            question : Questions \cup {Nil}, value : {"none", "right", "wrong"},
            seen : Sheet, graded : SUBSET Questions, ok : SUBSET Questions]

\* The handlers, locks and conditional updates add up to the atomic steps of the
\* contract: no interleaving of requests shows anything else in the database.
Contract == INSTANCE ExamContract
ImplementsContract == Contract!Spec

\* Every row, lock and request has the shape its declaration gives it.
TypeOK ==
  /\ Contract!TypeOK
  /\ expiresAt \in [Attempts -> Nat]
  /\ live \subseteq Templates
  /\ clock \in Nat
  /\ rowLock \in [Attempts -> Reqs \cup {Nil}]
  /\ tplLock \in [Templates -> Reqs \cup {Nil}]
  /\ req \in [Reqs -> Request]

\* What the contract guarantees, stated of the rows the handlers write; the
\* definitions and what they say about the code are in ExamContract.

\* One attempt per graded exam, one live attempt per practice exam.
OneAttempt == Contract!OneAttempt
\* No answer is saved behind the grader, none is scored unread.
MarksMatchAnswers == Contract!MarksMatchAnswers
\* Score, marks and status of a handed-in attempt agree.
ScoreIsSumOfMarks == Contract!ScoreIsSumOfMarks
\* EXPIRED rows carry no score and no mark.
ExpiredIsNeverGraded == Contract!ExpiredIsNeverGraded
\* One notification per manually graded attempt.
OneNotice == Contract!OneNotice
\* GRADED and EXPIRED are final, SUBMITTED only becomes GRADED.
VerdictIsFinal == Contract!VerdictIsFinal

\* No request waits for ever: the row locks are always given back.
RequestsEnd == \A r \in Reqs : req[r].step # "idle" ~> req[r].step = "idle"

\* What holds of the locks at every moment, whatever is scheduled: a locked row is
\* in the hands of the request whose next commit gives it back, and of the requests
\* that wait for each other's rows there is always one that waits for none: a start
\* locks the template and then the attempt, the others the attempt alone.
WaitsFor(r, p) ==
  \/ req[r].step = "startTx" /\ tplLock[req[r].template] = p
  \/ /\ req[r].step \in {"startFlip", "answerTx", "submitTx", "expireTx", "gradeTx"}
     /\ rowLock[req[r].attempt] = p

LocksAreInHand ==
  /\ \A a \in Attempts : rowLock[a] # Nil =>
       req[rowLock[a]].step \in HoldsRow /\ req[rowLock[a]].attempt = a
  /\ \A t \in Templates : tplLock[t] # Nil =>
       req[tplLock[t]].step \in HoldsTemplate /\ req[tplLock[t]].template = t
NoRingOfWaiters ==
  \A R \in (SUBSET Reqs) \ {{}} : \E r \in R : \A p \in R : ~WaitsFor(r, p)
=============================================================================
