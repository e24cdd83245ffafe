------------------------- MODULE ExamAttemptsProofs -------------------------
(* The attempt handlers implement the contract of the exam engine, for any    *)
(* number of requests, students, templates, questions and attempts; hence     *)
(* they keep its promises.                                                    *)
EXTENDS ExamAttempts, TLAPS

CP == INSTANCE ExamContractProofs

\* The operators of ExamData, seen through the instance, are the same operators.
LEMMA SameData ==
  /\ CP!ExamDataAssumption
  /\ CP!Status = Status
  /\ CP!Sheet = Sheet
  /\ \A t, sheet : CP!TotalAwarded(t, sheet) = TotalAwarded(t, sheet)
  /\ \A q, row : CP!gradeExamAnswer(q, row) = gradeExamAnswer(q, row)
  /\ \A t, sheet : CP!AutoGraded(t, sheet) = AutoGraded(t, sheet)
  /\ \A t : CP!finalStatus(t) = finalStatus(t)
  /\ \A sheet : CP!pendingIds(sheet) = pendingIds(sheet)
  /\ \A sheet, graded, ok : CP!ManuallyGraded(sheet, graded, ok) = ManuallyGraded(sheet, graded, ok)
<1>1. CP!ExamDataAssumption
  BY ExamDataAssumption DEF CP!ExamDataAssumption
<1>2. CP!Status = Status /\ CP!Sheet = Sheet
  BY DEF CP!Status, Status, CP!Sheet, Sheet, CP!Row, Row
<1>3. \A t, sheet : CP!TotalAwarded(t, sheet) = TotalAwarded(t, sheet)
  BY DEF CP!TotalAwarded, TotalAwarded, CP!MapThenSumSet, MapThenSumSet, CP!MapThenFoldSet, MapThenFoldSet
<1>4. \A q, row : CP!gradeExamAnswer(q, row) = gradeExamAnswer(q, row)
  BY DEF CP!gradeExamAnswer, gradeExamAnswer
<1>5. \A t, sheet : CP!AutoGraded(t, sheet) = AutoGraded(t, sheet)
  BY <1>4 DEF CP!AutoGraded, AutoGraded
<1>6. /\ \A t : CP!finalStatus(t) = finalStatus(t)
      /\ \A sheet : CP!pendingIds(sheet) = pendingIds(sheet)
  BY DEF CP!finalStatus, finalStatus, CP!pendingIds, pendingIds
<1>7. \A sheet, graded, ok : CP!ManuallyGraded(sheet, graded, ok) = ManuallyGraded(sheet, graded, ok)
  BY DEF CP!ManuallyGraded, ManuallyGraded
<1> QED BY <1>1, <1>2, <1>3, <1>4, <1>5, <1>6, <1>7

-----------------------------------------------------------------------------
(* The inductive invariant.                                                   *)

Infra ==
  /\ expiresAt \in [Attempts -> Nat]
  /\ live \subseteq Templates
  /\ clock \in Nat
  /\ rowLock \in [Attempts -> Reqs \cup {Nil}]
  /\ tplLock \in [Templates -> Reqs \cup {Nil}]
  /\ req \in [Reqs -> Request]

OnAttempt == {"startFlip", "answerTx", "answerWrite", "submitTx", "submitClaim", "expireTx", "gradeTx"}

\* What a start knows while it holds the template row: no attempt but the one
\* it found can block it.
StartKnows(r) ==
  LET t == req[r].template IN
  /\ req[r].step \in InStart => t \in Templates /\ req[r].student \in Students
  /\ req[r].step = "startTx" => req[r].attempt = Nil /\ req[r].found = "none"
  /\ req[r].step \in HoldsTemplate =>
       /\ tplLock[t] = r
       /\ \A b \in Blocking(req[r].student, t) : b = req[r].attempt
  /\ req[r].step = "startDecide" =>
       /\ req[r].found = "none" => req[r].attempt = Nil
       /\ req[r].found # "none" => req[r].found \in attemptBlockingStatuses(t)
  /\ req[r].step = "startFlip" =>
       student[req[r].attempt] = req[r].student /\ template[req[r].attempt] = t

\* What a request on an attempt knows: what it read is still what is stored,
\* for as long as its next write can succeed.
AttemptKnows(r) ==
  LET a == req[r].attempt IN
  /\ req[r].step \in OnAttempt => a \in Attempts /\ status[a] # "none"
  /\ req[r].step \in HoldsRow => rowLock[a] = r
  /\ req[r].step \in {"answerTx", "answerWrite"} =>
       /\ req[r].question \in Questions /\ req[r].question \in Paper[template[a]]
       /\ req[r].value \in {"right", "wrong"}
  /\ req[r].step = "answerWrite" => status[a] = "IN_PROGRESS"
  /\ req[r].step = "submitClaim" => req[r].seen = answers[a]
  /\ req[r].step = "gradeTx" =>
       /\ status[a] \in {"SUBMITTED", "GRADED"}
       /\ status[a] = "SUBMITTED" => req[r].seen = answers[a]
       /\ req[r].graded = pendingIds(req[r].seen)

IInv == /\ CP!CInv
        /\ Infra
        /\ \A r \in Reqs : StartKnows(r) /\ AttemptKnows(r)

-----------------------------------------------------------------------------
(* One request's step, as the others see it.                                  *)

\* The rows of other requests' transactions are left alone, attempts only move
\* forward, and only the holder of a template row adds attempts to it.
Calm(r) ==
  \A a \in Attempts :
    /\ status[a] # "none" =>
         status'[a] # "none" /\ template'[a] = template[a] /\ student'[a] = student[a]
    /\ status[a] # "none" /\ rowLock[a] \in Reqs \ {r} =>
         status'[a] = status[a] /\ answers'[a] = answers[a]
    /\ status[a] \in {"SUBMITTED", "GRADED"} =>
         /\ status'[a] \in {"SUBMITTED", "GRADED"}
         /\ status'[a] = "SUBMITTED" => status[a] = "SUBMITTED" /\ answers'[a] = answers[a]
    /\ status[a] = "none" /\ status'[a] # "none" =>
         status'[a] = "IN_PROGRESS" /\ tplLock[template'[a]] = r
    /\ status[a] # "none" /\ status'[a] = "IN_PROGRESS" => status[a] = "IN_PROGRESS"

Keeps(r) ==
  \A p \in Reqs \ {r} :
    /\ req'[p] = req[p]
    /\ \A a \in Attempts : rowLock[a] = p => rowLock'[a] = p
    /\ \A t \in Templates : tplLock[t] = p => tplLock'[t] = p

\* What a request knows survives a calm step of any other one.
LEMMA Frame ==
  ASSUME IInv, Infra', CP!TypeOK', NEW r \in Reqs, Calm(r), Keeps(r), NEW p \in Reqs \ {r}
  PROVE  StartKnows(p)' /\ AttemptKnows(p)'
<1> USE DEF IInv
<1>1. /\ req'[p] = req[p] /\ req[p] \in Request /\ p \in Reqs
      /\ StartKnows(p) /\ AttemptKnows(p)
      /\ \A a \in Attempts : rowLock[a] = p => rowLock'[a] = p
      /\ \A t \in Templates : tplLock[t] = p => tplLock'[t] = p
  BY DEF Keeps, Infra
<1>2. StartKnows(p)'
  <2>1. ASSUME req[p].step \in HoldsTemplate, NEW b \in Attempts,
               student'[b] = req[p].student, template'[b] = req[p].template,
               status'[b] \in attemptBlockingStatuses(req[p].template)
        PROVE  b = req[p].attempt
    <3>1. req[p].template \in Templates /\ tplLock[req[p].template] = p
      BY <1>1, <2>1 DEF StartKnows, HoldsTemplate, InStart
    <3>2. status[b] # "none"
      BY <2>1, <3>1 DEF Calm, attemptBlockingStatuses, Status
    <3>3. student[b] = req[p].student /\ template[b] = req[p].template
      BY <2>1, <3>2 DEF Calm
    <3>4. status[b] \in attemptBlockingStatuses(req[p].template)
      BY <2>1, <3>2 DEF Calm, attemptBlockingStatuses, CP!CInv, CP!TypeOK, CP!Status, Status
    <3> QED BY <1>1, <2>1, <3>3, <3>4 DEF StartKnows, Blocking
  <2>2. req[p].step = "startFlip" => req[p].attempt \in Attempts /\ status[req[p].attempt] # "none"
    BY <1>1 DEF AttemptKnows, OnAttempt
  <2>3. req[p].step \in HoldsTemplate =>
          \A b \in Blocking(req[p].student, req[p].template)' : b = req[p].attempt
    BY <1>1, <2>1 DEF Blocking
  <2> QED BY <1>1, <2>2, <2>3 DEF StartKnows, Calm, HoldsTemplate, InStart
<1>3. AttemptKnows(p)'
  <2> DEFINE a == req[p].attempt
  <2>1. CASE req[p].step \notin OnAttempt
    BY <1>1, <2>1 DEF AttemptKnows, OnAttempt, HoldsRow
  <2>2. CASE req[p].step \in OnAttempt
    <3>1. a \in Attempts /\ status[a] # "none"
      BY <1>1, <2>2 DEF AttemptKnows
    <3>2. status'[a] # "none" /\ template'[a] = template[a]
      BY <3>1 DEF Calm
    <3>3. req[p].step \in HoldsRow => rowLock[a] = p /\ status'[a] = status[a] /\ answers'[a] = answers[a]
      BY <1>1, <3>1 DEF AttemptKnows, Calm
    <3>4. req[p].step = "gradeTx" =>
            /\ status'[a] \in {"SUBMITTED", "GRADED"}
            /\ status'[a] = "SUBMITTED" => req[p].seen = answers'[a]
      BY <1>1, <3>1 DEF AttemptKnows, Calm
    <3> HIDE DEF a
    <3>5. a = req[p].attempt
      BY DEF a
    <3> QED BY <1>1, <3>1, <3>2, <3>3, <3>4, <3>5 DEF AttemptKnows, HoldsRow
  <2> QED BY <2>1, <2>2
<1> QED BY <1>2, <1>3

-----------------------------------------------------------------------------
(* What one request's step must establish, and the two easy halves of it.     *)

Good(r) ==
  /\ Infra' /\ Calm(r) /\ Keeps(r)
  /\ (StartKnows(r) /\ AttemptKnows(r))'
  /\ [CP!Next]_(CP!cvars)

\* Reads and locks leave the rows alone.
LEMMA QuietStep ==
  ASSUME NEW r, UNCHANGED dbvars
  PROVE  Calm(r) /\ [CP!Next]_(CP!cvars)
BY DEF dbvars, Calm, CP!cvars

\* A request that has ended knows nothing.
LEMMA IdleKnows ==
  ASSUME NEW r, req'[r] = Idle
  PROVE  (StartKnows(r) /\ AttemptKnows(r))'
BY DEF StartKnows, AttemptKnows, Idle, InStart, HoldsTemplate, OnAttempt, HoldsRow

LEMMA IdleTyped == Idle \in Request
BY DEF Idle, Request, Steps, Status, Sheet, EmptySheet, NoRow, Row

\* A handler replaces the local variables of its own request only.
LEMMA ReqUpdate ==
  ASSUME Infra, NEW r \in Reqs, NEW x \in Request, req' = [req EXCEPT ![r] = x]
  PROVE  /\ req' \in [Reqs -> Request]
         /\ req'[r] = x
         /\ \A p \in Reqs \ {r} : req'[p] = req[p]
BY DEF Infra

-----------------------------------------------------------------------------
(* Start                                                                      *)

LEMMA StartReadGood ==
  ASSUME IInv, NEW r \in Reqs, NEW s \in Students, NEW t \in Templates, StartRead(r, s, t)
  PROVE  Good(r)
<1> USE DEF IInv
<1> DEFINE x == [Idle EXCEPT !.step = "startTx", !.template = t, !.student = s, !.now = clock]
<1>1. x \in Request
  BY IdleTyped DEF Request, Idle, Steps, Infra
<1>2. /\ x.step = "startTx" /\ x.template = t /\ x.student = s
      /\ x.attempt = Nil /\ x.found = "none"
      /\ req' = [req EXCEPT ![r] = x]
  BY DEF StartRead, Idle
<1> HIDE DEF x
<1>3. /\ req' \in [Reqs -> Request] /\ req'[r] = x
      /\ \A p \in Reqs \ {r} : req'[p] = req[p]
  BY <1>1, <1>2, ReqUpdate
<1>4. Infra' /\ Keeps(r)
  BY <1>3 DEF StartRead, Infra, dbvars, Keeps
<1>5. Calm(r) /\ [CP!Next]_(CP!cvars)
  BY QuietStep DEF StartRead
<1>6. (StartKnows(r) /\ AttemptKnows(r))'
  BY <1>2, <1>3 DEF StartKnows, AttemptKnows, InStart, HoldsTemplate, OnAttempt, HoldsRow
<1> QED BY <1>4, <1>5, <1>6 DEF Good

\* At most one attempt can block a start: this is OneAttempt, read backwards.
LEMMA OneBlocking ==
  ASSUME CP!CInv, NEW s, NEW t, NEW a \in Blocking(s, t), NEW b \in Blocking(s, t)
  PROVE  a = b
BY DEF CP!CInv, CP!OneAttempt, Blocking, attemptBlockingStatuses, Status

LEMMA StartLockGood ==
  ASSUME IInv, NEW r \in Reqs, StartLock(r)
  PROVE  Good(r)
<1> USE DEF IInv
<1>1. PICK t \in Templates, s \in Students :
        /\ req[r] \in Request /\ req[r].step = "startTx"
        /\ req[r].template = t /\ req[r].student = s
  BY DEF StartLock, StartKnows, InStart, Infra
<1>2. /\ tplLock[t] = Nil /\ tplLock' = [tplLock EXCEPT ![t] = r]
      /\ UNCHANGED <<dbvars, live, clock, rowLock>>
  BY <1>1 DEF StartLock, LockTemplate
<1> DEFINE Found(x) ==
        /\ req' = [req EXCEPT ![r] = x]
        /\ x.template = t /\ x.student = s
        /\ x.step \in {"startFlip", "startDecide"}
        /\ \A b \in Blocking(s, t) : b = x.attempt
        /\ x.step = "startDecide" =>
             /\ x.found = "none" => x.attempt = Nil
             /\ x.found # "none" => x.found \in attemptBlockingStatuses(t)
        /\ x.step = "startFlip" =>
             /\ x.attempt \in Attempts /\ status[x.attempt] # "none"
             /\ student[x.attempt] = s /\ template[x.attempt] = t
<1>3. PICK x \in Request : Found(x)
  <2>1. CASE Blocking(s, t) = {} /\ req' = [req EXCEPT ![r] = [req[r] EXCEPT !.step = "startDecide"]]
    <3> DEFINE x == [req[r] EXCEPT !.step = "startDecide"]
    <3>1. x \in Request /\ x.step = "startDecide" /\ x.template = t /\ x.student = s
          /\ x.found = req[r].found /\ x.attempt = req[r].attempt
      BY <1>1 DEF Request, Steps
    <3>2. x.attempt = Nil /\ x.found = "none"
      BY <1>1, <3>1 DEF StartKnows
    <3> HIDE DEF x
    <3> QED BY <2>1, <3>1, <3>2 DEF x
  <2>2. ASSUME NEW a \in Blocking(s, t),
               req' = [req EXCEPT ![r] = [req[r] EXCEPT
                         !.attempt = a, !.found = status[a],
                         !.step = IF status[a] = "IN_PROGRESS" /\ Overdue(a, req[r].now)
                                  THEN "startFlip" ELSE "startDecide"]]
        PROVE  \E x \in Request :
                 /\ req' = [req EXCEPT ![r] = x]
                 /\ x.template = t /\ x.student = s
                 /\ x.step \in {"startFlip", "startDecide"}
                 /\ x.attempt = a /\ x.found = status[a]
    <3> DEFINE st == IF status[a] = "IN_PROGRESS" /\ Overdue(a, req[r].now)
                     THEN "startFlip" ELSE "startDecide"
               x == [req[r] EXCEPT !.attempt = a, !.found = status[a], !.step = st]
    <3>1. st \in {"startFlip", "startDecide"}
      OBVIOUS
    <3>2. a \in Attempts /\ status[a] \in Status
      BY SameData DEF Blocking, CP!CInv, CP!TypeOK
    <3>3. req' = [req EXCEPT ![r] = x]
      BY <2>2
    <3> HIDE DEF st
    <3>4. /\ x \in Request /\ x.template = t /\ x.student = s /\ x.step = st
          /\ x.attempt = a /\ x.found = status[a]
      BY <1>1, <3>1, <3>2 DEF Request, Steps
    <3> QED BY <3>1, <3>3, <3>4
  <2>3. ASSUME NEW a \in Blocking(s, t)
        PROVE  /\ \A b \in Blocking(s, t) : b = a
               /\ a \in Attempts /\ status[a] # "none" /\ status[a] \in attemptBlockingStatuses(t)
               /\ student[a] = s /\ template[a] = t
    BY <2>3, OneBlocking DEF Blocking, attemptBlockingStatuses
  <2>4. ASSUME NEW a \in Blocking(s, t),
               req' = [req EXCEPT ![r] = [req[r] EXCEPT
                         !.attempt = a, !.found = status[a],
                         !.step = IF status[a] = "IN_PROGRESS" /\ Overdue(a, req[r].now)
                                  THEN "startFlip" ELSE "startDecide"]]
        PROVE  \E x \in Request : Found(x)
    <3>1. PICK x \in Request :
                 /\ req' = [req EXCEPT ![r] = x]
                 /\ x.template = t /\ x.student = s
                 /\ x.step \in {"startFlip", "startDecide"}
                 /\ x.attempt = a /\ x.found = status[a]
      BY <2>2, <2>4
    <3>2. Found(x)
      BY <2>3, <3>1
    <3> QED BY <3>2
  <2> HIDE DEF Found
  <2> QED BY <1>1, <2>1, <2>4 DEF StartLock
<1>4. /\ req' \in [Reqs -> Request] /\ req'[r] = x
      /\ \A p \in Reqs \ {r} : req'[p] = req[p]
  BY <1>3, ReqUpdate
<1>5. Infra' /\ Keeps(r)
  BY <1>1, <1>2, <1>4, ExamAttemptsAssumption DEF Infra, dbvars, Keeps
<1>6. Calm(r) /\ [CP!Next]_(CP!cvars)
  BY <1>2, QuietStep
<1>7. StartKnows(r)'
  <2>1. tplLock'[t] = r
    BY <1>1, <1>2 DEF Infra
  <2>2. Blocking(s, t)' = Blocking(s, t)
    BY <1>2 DEF Blocking, dbvars
  <2> QED BY <1>1, <1>2, <1>3, <1>4, <2>1, <2>2 DEF StartKnows, InStart, HoldsTemplate, dbvars
<1>8. AttemptKnows(r)'
  BY <1>2, <1>3, <1>4 DEF AttemptKnows, OnAttempt, HoldsRow, dbvars
<1> QED BY <1>5, <1>6, <1>7, <1>8 DEF Good

LEMMA StartEndsGood ==
  ASSUME IInv, NEW r \in Reqs, req[r].step \in HoldsTemplate, StartEnds(r),
         expiresAt' \in [Attempts -> Nat]
  PROVE  Infra' /\ Keeps(r) /\ (StartKnows(r) /\ AttemptKnows(r))'
<1> USE DEF IInv
<1>1. req[r].template \in Templates /\ tplLock[req[r].template] = r
  BY DEF StartKnows, HoldsTemplate, InStart
<1>2. /\ req' \in [Reqs -> Request] /\ req'[r] = Idle
      /\ \A p \in Reqs \ {r} : req'[p] = req[p]
  BY IdleTyped, ReqUpdate DEF StartEnds
<1>3. Infra' /\ Keeps(r)
  BY <1>1, <1>2 DEF StartEnds, Infra, Keeps
<1> QED BY <1>2, <1>3, IdleKnows

\* Under the template row's lock, a create that expires the student's live
\* attempts is the contract's Open.
LEMMA CreateIsOpen ==
  ASSUME IInv, NEW r \in Reqs, req[r].step \in HoldsTemplate,
         NEW a \in Attempts, NEW flipped, CreateAttempt(r, a, flipped),
         NEW s, NEW t, req[r].student = s, req[r].template = t,
         t \notin Practice => CP!Of(s, t) = {},
         flipped = {b \in CP!Of(s, t) : status[b] = "IN_PROGRESS"},
         \A b \in flipped : rowLock[b] = Nil
  PROVE  /\ expiresAt' \in [Attempts -> Nat]
         /\ Calm(r)
         /\ CP!Next
<1> USE DEF IInv
<1>1. s \in Students /\ t \in Templates /\ tplLock[t] = r
  BY DEF StartKnows, HoldsTemplate, InStart
<1>2. expiresAt' \in [Attempts -> Nat]
  BY ExamAttemptsAssumption DEF CreateAttempt, Infra, Request
<1>3. CP!Open(a, s, t)
  BY DEF CreateAttempt, CP!Open
<1>4. Calm(r)
  <2>1. \A b \in flipped : b \in Attempts /\ status[b] = "IN_PROGRESS" /\ rowLock[b] = Nil
    BY DEF CP!Of
  <2> QED BY <1>1, <2>1, ExamAttemptsAssumption DEF CreateAttempt, Calm, CP!CInv, CP!TypeOK
<1> QED BY <1>1, <1>2, <1>3, <1>4 DEF CP!Next

LEMMA StartFlipGood ==
  ASSUME IInv, NEW r \in Reqs, StartFlip(r)
  PROVE  Good(r)
<1> USE DEF IInv
<1>1. PICK a \in Attempts, t \in Templates, s \in Students :
        /\ req[r].step = "startFlip" /\ req[r].attempt = a
        /\ req[r].template = t /\ req[r].student = s
        /\ status[a] # "none" /\ student[a] = s /\ template[a] = t
        /\ rowLock[a] = Nil
        /\ \A b \in Blocking(s, t) : b = a
  BY DEF StartFlip, StartKnows, AttemptKnows, InStart, HoldsTemplate, OnAttempt
<1> DEFINE flipped == IF status[a] = "IN_PROGRESS" THEN {a} ELSE {}
           found == IF flipped # {} THEN "EXPIRED" ELSE status[a]
<1>2. /\ found \in Status \ {"none", "IN_PROGRESS"}
      /\ decideExamStart(t, found, TRUE) = "freshStart" => t \in Practice
  BY <1>1, SameData DEF decideExamStart, CP!CInv, CP!TypeOK, Status
<1>3. flipped \subseteq Attempts /\ \A b \in flipped : rowLock[b] = Nil
  BY <1>1
<1>4. StartEnds(r) /\ req[r].step \in HoldsTemplate
  BY <1>1 DEF StartFlip, HoldsTemplate
<1>5. CASE decideExamStart(t, found, TRUE) = "freshStart" /\ \E b \in Attempts : CreateAttempt(r, b, flipped)
  <2>1. t \in Practice
    BY <1>2, <1>5
  <2>2. flipped = {b \in CP!Of(s, t) : status[b] = "IN_PROGRESS"}
    BY <1>1, <2>1 DEF CP!Of, Blocking, attemptBlockingStatuses
  <2> HIDE DEF flipped, found
  <2>3. expiresAt' \in [Attempts -> Nat] /\ Calm(r) /\ CP!Next
    BY <1>1, <1>3, <1>4, <1>5, <2>1, <2>2, CreateIsOpen
  <2> QED BY <1>4, <2>3, StartEndsGood DEF Good
<1>6. CASE /\ status' = [b \in Attempts |-> IF b \in flipped THEN "EXPIRED" ELSE status[b]]
           /\ UNCHANGED <<template, student, score, answers, notices, expiresAt>>
  <2>1. Calm(r)
    BY <1>1, <1>6, ExamAttemptsAssumption DEF Calm, CP!CInv, CP!TypeOK
  <2>2. [CP!Next]_(CP!cvars)
    <3>1. CASE status[a] = "IN_PROGRESS"
      <4>1. CP!Expire(a)
        BY <1>6, <3>1 DEF CP!Expire, CP!CInv, CP!TypeOK
      <4> QED BY <4>1 DEF CP!Next
    <3>2. CASE status[a] # "IN_PROGRESS"
      BY <1>6, <3>2 DEF CP!cvars, CP!CInv, CP!TypeOK
    <3> QED BY <3>1, <3>2
  <2>3. expiresAt' \in [Attempts -> Nat]
    BY <1>6 DEF Infra
  <2> QED BY <1>4, <2>1, <2>2, <2>3, StartEndsGood DEF Good
<1> QED BY <1>1, <1>5, <1>6 DEF StartFlip, Claims

LEMMA StartDecideGood ==
  ASSUME IInv, NEW r \in Reqs, StartDecide(r)
  PROVE  Good(r)
<1> USE DEF IInv
<1>1. StartEnds(r) /\ req[r].step = "startDecide" /\ req[r].step \in HoldsTemplate
  BY DEF StartDecide, HoldsTemplate
<1>2. PICK t \in Templates, s \in Students :
        /\ req[r].template = t /\ req[r].student = s
        /\ req[r].found = "none" => Blocking(s, t) = {}
        /\ req[r].found # "none" => req[r].found \in attemptBlockingStatuses(t)
  BY <1>1, ExamDataAssumption DEF StartKnows, InStart, Blocking
<1>3. CASE decideExamStart(t, req[r].found, FALSE) = "freshStart" /\ \E a \in Attempts : CreateAttempt(r, a, {})
  <2>1. req[r].found = "none"
    BY <1>2, <1>3 DEF decideExamStart, attemptBlockingStatuses
  <2>2. {} = {b \in CP!Of(s, t) : status[b] = "IN_PROGRESS"}
    BY <1>2, <2>1 DEF CP!Of, Blocking, attemptBlockingStatuses, Status
  <2>3. t \notin Practice => CP!Of(s, t) = {}
    BY <1>2, <2>1, SameData DEF CP!Of, Blocking, attemptBlockingStatuses, CP!CInv, CP!TypeOK
  <2>4. expiresAt' \in [Attempts -> Nat] /\ Calm(r) /\ CP!Next
    BY <1>1, <1>2, <1>3, <2>2, <2>3, CreateIsOpen
  <2> QED BY <1>1, <2>4, StartEndsGood DEF Good
<1>4. CASE UNCHANGED dbvars
  <2>1. expiresAt' \in [Attempts -> Nat]
    BY <1>4 DEF dbvars, Infra
  <2> QED BY <1>1, <1>4, <2>1, QuietStep, StartEndsGood DEF Good
<1> QED BY <1>2, <1>3, <1>4 DEF StartDecide

-----------------------------------------------------------------------------
(* Answer                                                                     *)

\* A request ends on attempt a, giving back the row if it held it.
LEMMA RequestEnds ==
  ASSUME IInv, NEW r \in Reqs, NEW a \in Attempts, req' = [req EXCEPT ![r] = Idle],
         UNCHANGED <<expiresAt, live, clock, tplLock>>,
         \/ UNCHANGED rowLock
         \/ FreeAttempt(a) /\ rowLock[a] = r
  PROVE  Infra' /\ Keeps(r) /\ (StartKnows(r) /\ AttemptKnows(r))'
<1> USE DEF IInv
<1>1. /\ req' \in [Reqs -> Request] /\ req'[r] = Idle
      /\ \A p \in Reqs \ {r} : req'[p] = req[p]
  BY IdleTyped, ReqUpdate
<1>2. Infra' /\ Keeps(r)
  BY <1>1 DEF FreeAttempt, Infra, Keeps
<1> QED BY <1>1, <1>2, IdleKnows

LEMMA AnswerReadGood ==
  ASSUME IInv, NEW r \in Reqs, NEW a \in Attempts, NEW q \in Questions, NEW v \in {"right", "wrong"},
         AnswerRead(r, a, q, v)
  PROVE  Good(r)
<1> USE DEF IInv
<1> DEFINE x == [Idle EXCEPT !.step = "answerTx", !.attempt = a, !.question = q, !.value = v]
<1>1. /\ x \in Request /\ x.step = "answerTx" /\ x.attempt = a /\ x.question = q /\ x.value = v
      /\ req' = [req EXCEPT ![r] = x]
  BY IdleTyped DEF AnswerRead, Request, Idle, Steps
<1> HIDE DEF x
<1>2. /\ req' \in [Reqs -> Request] /\ req'[r] = x
      /\ \A p \in Reqs \ {r} : req'[p] = req[p]
  BY <1>1, ReqUpdate
<1>3. Infra' /\ Keeps(r)
  BY <1>2 DEF AnswerRead, Infra, dbvars, Keeps
<1>4. Calm(r) /\ [CP!Next]_(CP!cvars)
  BY QuietStep DEF AnswerRead
<1>5. (StartKnows(r) /\ AttemptKnows(r))'
  BY <1>1, <1>2 DEF AnswerRead, AcceptsAnswers, StartKnows, AttemptKnows, InStart, HoldsTemplate,
                    OnAttempt, HoldsRow, dbvars
<1> QED BY <1>3, <1>4, <1>5 DEF Good

LEMMA AnswerLockGood ==
  ASSUME IInv, NEW r \in Reqs, AnswerLock(r)
  PROVE  Good(r)
<1> USE DEF IInv
<1>1. PICK a \in Attempts :
        /\ req[r] \in Request /\ req[r].step = "answerTx" /\ req[r].attempt = a
        /\ UNCHANGED <<dbvars, live, clock, tplLock>>
  BY DEF AnswerLock, AttemptKnows, OnAttempt, Infra
<1>2. Calm(r) /\ [CP!Next]_(CP!cvars)
  BY <1>1, QuietStep
<1>3. CASE /\ AcceptsAnswers(a) /\ LockAttempt(r, a)
           /\ req' = [req EXCEPT ![r] = [req[r] EXCEPT !.step = "answerWrite"]]
  <2> DEFINE x == [req[r] EXCEPT !.step = "answerWrite"]
  <2>1. /\ x \in Request /\ x.step = "answerWrite" /\ x.attempt = a
        /\ x.question = req[r].question /\ x.value = req[r].value
        /\ req' = [req EXCEPT ![r] = x]
    BY <1>1, <1>3 DEF Request, Steps
  <2> HIDE DEF x
  <2>2. /\ req' \in [Reqs -> Request] /\ req'[r] = x
        /\ \A p \in Reqs \ {r} : req'[p] = req[p]
    BY <2>1, ReqUpdate
  <2>3. Infra' /\ Keeps(r) /\ rowLock'[a] = r
    BY <1>1, <1>3, <2>2, ExamAttemptsAssumption DEF LockAttempt, Infra, dbvars, Keeps
  <2>4. (StartKnows(r) /\ AttemptKnows(r))'
    BY <1>1, <1>3, <2>1, <2>2, <2>3 DEF AcceptsAnswers, StartKnows, AttemptKnows, InStart, HoldsTemplate,
                                        OnAttempt, HoldsRow, dbvars
  <2> QED BY <1>2, <2>3, <2>4 DEF Good
<1>4. CASE req' = [req EXCEPT ![r] = Idle] /\ UNCHANGED rowLock
  BY <1>1, <1>2, <1>4, RequestEnds DEF Good, dbvars
<1> QED BY <1>1, <1>3, <1>4 DEF AnswerLock, Rechecks

LEMMA AnswerWriteGood ==
  ASSUME IInv, NEW r \in Reqs, AnswerWrite(r)
  PROVE  Good(r)
<1> USE DEF IInv
<1>1. PICK a \in Attempts, q \in Questions, v \in {"right", "wrong"} :
        /\ req[r].step = "answerWrite" /\ req[r].attempt = a
        /\ req[r].question = q /\ req[r].value = v /\ q \in Paper[template[a]]
        /\ status[a] = "IN_PROGRESS" /\ rowLock[a] = r
  BY DEF AnswerWrite, AttemptKnows, OnAttempt, HoldsRow
<1>2. /\ answers' = [answers EXCEPT ![a][q].val = v]
      /\ FreeAttempt(a) /\ req' = [req EXCEPT ![r] = Idle]
      /\ UNCHANGED <<status, template, student, score, notices, expiresAt, live, clock, tplLock>>
  BY <1>1 DEF AnswerWrite
<1>3. CP!Next
  <2>1. CP!Save(a, q, v)
    BY <1>1, <1>2 DEF CP!Save
  <2> QED BY <2>1 DEF CP!Next
<1>4. Calm(r)
  BY <1>1, <1>2 DEF Calm, CP!CInv, CP!TypeOK
<1> QED BY <1>1, <1>2, <1>3, <1>4, RequestEnds DEF Good

-----------------------------------------------------------------------------
(* Submit                                                                     *)

LEMMA SubmitReadGood ==
  ASSUME IInv, NEW r \in Reqs, NEW a \in Attempts, SubmitRead(r, a)
  PROVE  Good(r)
<1> USE DEF IInv
<1> DEFINE st == IF Overdue(a, clock) THEN "expireTx" ELSE "submitTx"
           x == [Idle EXCEPT !.attempt = a, !.step = st]
<1>1. req' = [req EXCEPT ![r] = x] /\ st \in {"expireTx", "submitTx"} /\ status[a] = "IN_PROGRESS"
  BY DEF SubmitRead
<1> HIDE DEF st
<1>2. x \in Request /\ x.step = st /\ x.attempt = a
  BY <1>1, IdleTyped DEF Request, Idle, Steps
<1> HIDE DEF x
<1>3. /\ req' \in [Reqs -> Request] /\ req'[r] = x
      /\ \A p \in Reqs \ {r} : req'[p] = req[p]
  BY <1>1, <1>2, ReqUpdate
<1>4. Infra' /\ Keeps(r)
  BY <1>3 DEF SubmitRead, Infra, dbvars, Keeps
<1>5. Calm(r) /\ [CP!Next]_(CP!cvars)
  BY QuietStep DEF SubmitRead
<1>6. (StartKnows(r) /\ AttemptKnows(r))'
  BY <1>1, <1>2, <1>3 DEF SubmitRead, StartKnows, AttemptKnows, InStart, HoldsTemplate,
                          OnAttempt, HoldsRow, dbvars
<1> QED BY <1>4, <1>5, <1>6 DEF Good

LEMMA SubmitExpireGood ==
  ASSUME IInv, NEW r \in Reqs, SubmitExpire(r)
  PROVE  Good(r)
<1> USE DEF IInv
<1>1. PICK a \in Attempts :
        /\ req[r].step = "expireTx" /\ req[r].attempt = a /\ rowLock[a] = Nil
        /\ status' = IF status[a] = "IN_PROGRESS" THEN [status EXCEPT ![a] = "EXPIRED"] ELSE status
        /\ req' = [req EXCEPT ![r] = Idle]
        /\ UNCHANGED <<template, student, score, answers, notices, expiresAt, live, clock, rowLock, tplLock>>
  BY DEF SubmitExpire, Claims, AttemptKnows, OnAttempt
<1>2. Calm(r)
  BY <1>1, ExamAttemptsAssumption DEF Calm, CP!CInv, CP!TypeOK
<1>3. [CP!Next]_(CP!cvars)
  <2>1. CASE status[a] = "IN_PROGRESS"
    <3>1. CP!Expire(a)
      BY <1>1, <2>1 DEF CP!Expire
    <3> QED BY <3>1 DEF CP!Next
  <2>2. CASE status[a] # "IN_PROGRESS"
    BY <1>1, <2>2 DEF CP!cvars
  <2> QED BY <2>1, <2>2
<1> QED BY <1>1, <1>2, <1>3, RequestEnds DEF Good

LEMMA SubmitLockGood ==
  ASSUME IInv, NEW r \in Reqs, SubmitLock(r)
  PROVE  Good(r)
<1> USE DEF IInv
<1>1. PICK a \in Attempts :
        /\ req[r] \in Request /\ req[r].step = "submitTx" /\ req[r].attempt = a
        /\ status[a] # "none" /\ answers[a] \in Sheet
        /\ rowLock[a] = Nil /\ rowLock' = [rowLock EXCEPT ![a] = r]
        /\ req' = [req EXCEPT ![r] = [req[r] EXCEPT !.step = "submitClaim", !.seen = answers[a]]]
        /\ UNCHANGED <<dbvars, live, clock, tplLock>>
  BY SameData DEF SubmitLock, LockAttempt, AttemptKnows, OnAttempt, Infra, CP!CInv, CP!TypeOK
<1> DEFINE x == [req[r] EXCEPT !.step = "submitClaim", !.seen = answers[a]]
<1>2. x \in Request /\ x.step = "submitClaim" /\ x.attempt = a /\ x.seen = answers[a]
  BY <1>1 DEF Request, Steps
<1>3. req' = [req EXCEPT ![r] = x]
  BY <1>1
<1> HIDE DEF x
<1>4. /\ req' \in [Reqs -> Request] /\ req'[r] = x
      /\ \A p \in Reqs \ {r} : req'[p] = req[p]
  BY <1>2, <1>3, ReqUpdate
<1>5. Infra' /\ Keeps(r) /\ rowLock'[a] = r
  BY <1>1, <1>4, ExamAttemptsAssumption DEF Infra, dbvars, Keeps
<1>6. Calm(r) /\ [CP!Next]_(CP!cvars)
  BY <1>1, QuietStep
<1>7. (StartKnows(r) /\ AttemptKnows(r))'
  BY <1>1, <1>2, <1>4, <1>5 DEF StartKnows, AttemptKnows, InStart, HoldsTemplate, OnAttempt, HoldsRow, dbvars
<1> QED BY <1>5, <1>6, <1>7 DEF Good

LEMMA SubmitClaimGood ==
  ASSUME IInv, NEW r \in Reqs, SubmitClaim(r)
  PROVE  Good(r)
<1> USE DEF IInv
<1>1. PICK a \in Attempts :
        /\ req[r].step = "submitClaim" /\ req[r].attempt = a /\ status[a] # "none"
        /\ rowLock[a] = r /\ req[r].seen = answers[a]
        /\ FreeAttempt(a) /\ req' = [req EXCEPT ![r] = Idle]
        /\ UNCHANGED <<live, clock, tplLock>>
  BY DEF SubmitClaim, AttemptKnows, OnAttempt, HoldsRow
<1> DEFINE marked == AutoGraded(template[a], answers[a])
           written == [q \in Questions |-> IF answers[a][q].val # "none"
                                           THEN [val |-> answers[a][q].val, correct |-> marked[q].correct,
                                                 awarded |-> marked[q].awarded]
                                           ELSE answers[a][q]]
<1>2. CASE /\ status[a] = "IN_PROGRESS"
           /\ status' = [status EXCEPT ![a] = finalStatus(template[a])]
           /\ score' = [score EXCEPT ![a] = TotalAwarded(template[a], marked)]
           /\ answers' = [answers EXCEPT ![a] = written]
           /\ UNCHANGED <<template, student, notices, expiresAt>>
  <2>1. written = marked
    <3>1. ASSUME NEW q \in Questions PROVE written[q] = marked[q]
      <4>1. CASE answers[a][q].val = "none"
        BY <4>1 DEF AutoGraded
      <4>2. CASE answers[a][q].val # "none"
        <5>1. q \in Paper[template[a]]
          BY <4>2 DEF CP!CInv, CP!OnPaper
        <5> QED BY <4>2, <5>1 DEF AutoGraded, gradeExamAnswer
      <4> QED BY <4>1, <4>2
    <3> QED BY <3>1 DEF AutoGraded
  <2> HIDE DEF written, marked
  <2>2. answers'[a] = marked
    BY <1>2, <2>1 DEF CP!CInv, CP!TypeOK
  <2>3. CP!HandIn(a)
    <3>1. answers' = [answers EXCEPT ![a] = CP!AutoGraded(template[a], answers[a])]
      BY <1>2, <2>1, SameData DEF marked
    <3>2. score' = [score EXCEPT ![a] = CP!TotalAwarded(template[a], answers'[a])]
      BY <1>2, <2>2, SameData
    <3>3. status' = [status EXCEPT ![a] = CP!finalStatus(template[a])]
      BY <1>2, SameData
    <3> QED BY <1>2, <3>1, <3>2, <3>3 DEF CP!HandIn
  <2>4. CP!Next
    BY <2>3 DEF CP!Next
  <2>5. Calm(r)
    BY <1>1, <1>2 DEF Calm, finalStatus, CP!CInv, CP!TypeOK
  <2> QED BY <1>1, <1>2, <2>4, <2>5, RequestEnds DEF Good
<1>3. CASE UNCHANGED dbvars
  <2>1. Calm(r) /\ [CP!Next]_(CP!cvars)
    BY <1>3, QuietStep
  <2> QED BY <1>1, <1>3, <2>1, RequestEnds DEF Good, dbvars
<1> QED BY <1>1, <1>2, <1>3 DEF SubmitClaim, Claims

-----------------------------------------------------------------------------
(* Manual grade                                                               *)

LEMMA GradeReadGood ==
  ASSUME IInv, NEW r \in Reqs, NEW a \in Attempts, NEW graded \in SUBSET Questions,
         NEW ok \in SUBSET graded, GradeRead(r, a, graded, ok)
  PROVE  Good(r)
<1> USE DEF IInv
<1> DEFINE x == [Idle EXCEPT !.step = "gradeTx", !.attempt = a, !.graded = graded,
                             !.ok = ok, !.seen = answers[a]]
<1>1. /\ status[a] = "SUBMITTED" /\ graded = pendingIds(answers[a]) /\ answers[a] \in Sheet
      /\ ok \in SUBSET Questions /\ req' = [req EXCEPT ![r] = x]
  BY SameData DEF GradeRead, reconcileManualGrades, CP!CInv, CP!TypeOK
<1>2. /\ x \in Request /\ x.step = "gradeTx" /\ x.attempt = a
      /\ x.graded = graded /\ x.seen = answers[a]
  BY <1>1, IdleTyped DEF Request, Idle, Steps
<1> HIDE DEF x
<1>3. /\ req' \in [Reqs -> Request] /\ req'[r] = x
      /\ \A p \in Reqs \ {r} : req'[p] = req[p]
  BY <1>1, <1>2, ReqUpdate
<1>4. Infra' /\ Keeps(r)
  BY <1>3 DEF GradeRead, Infra, dbvars, Keeps
<1>5. Calm(r) /\ [CP!Next]_(CP!cvars)
  BY QuietStep DEF GradeRead
<1>6. (StartKnows(r) /\ AttemptKnows(r))'
  BY <1>1, <1>2, <1>3 DEF GradeRead, StartKnows, AttemptKnows, InStart, HoldsTemplate,
                          OnAttempt, HoldsRow, dbvars
<1> QED BY <1>4, <1>5, <1>6 DEF Good

LEMMA GradeClaimGood ==
  ASSUME IInv, NEW r \in Reqs, GradeClaim(r)
  PROVE  Good(r)
<1> USE DEF IInv
<1>1. PICK a \in Attempts, ok \in SUBSET Questions :
        /\ req[r].step = "gradeTx" /\ req[r].attempt = a /\ req[r].ok = ok
        /\ rowLock[a] = Nil
        /\ status[a] = "SUBMITTED" => req[r].seen = answers[a]
        /\ req[r].graded = pendingIds(req[r].seen)
        /\ req' = [req EXCEPT ![r] = Idle]
        /\ UNCHANGED <<live, clock, rowLock, tplLock>>
  BY DEF GradeClaim, AttemptKnows, OnAttempt, Infra, Request
<1> DEFINE pending == pendingIds(answers[a])
           marked == ManuallyGraded(answers[a], pending, ok)
           written == [q \in Questions |-> IF q \in pending
                                           THEN [val |-> answers[a][q].val, correct |-> marked[q].correct,
                                                 awarded |-> marked[q].awarded]
                                           ELSE answers[a][q]]
<1>2. CASE /\ status[a] = "SUBMITTED"
           /\ status' = [status EXCEPT ![a] = "GRADED"]
           /\ score' = [score EXCEPT ![a] = TotalAwarded(template[a], marked)]
           /\ answers' = [answers EXCEPT ![a] = written]
           /\ notices' = [notices EXCEPT ![a] = @ + 1]
           /\ UNCHANGED <<template, student, expiresAt>>
  <2>1. written = marked
    BY DEF ManuallyGraded
  <2> HIDE DEF written, marked
  <2>2. answers'[a] = marked
    BY <1>2, <2>1 DEF CP!CInv, CP!TypeOK
  <2>3. CP!Finalize(a, ok)
    <3>1. answers' = [answers EXCEPT ![a] = CP!ManuallyGraded(answers[a], CP!pendingIds(answers[a]), ok)]
      BY <1>2, <2>1, SameData DEF marked
    <3>2. score' = [score EXCEPT ![a] = CP!TotalAwarded(template[a], answers'[a])]
      BY <1>2, <2>2, SameData
    <3> QED BY <1>2, <3>1, <3>2 DEF CP!Finalize
  <2>4. CP!Next
    BY <2>3, SameData DEF CP!Next
  <2>5. Calm(r)
    BY <1>1, <1>2, ExamAttemptsAssumption DEF Calm, CP!CInv, CP!TypeOK
  <2> QED BY <1>1, <1>2, <2>4, <2>5, RequestEnds DEF Good
<1>3. CASE UNCHANGED dbvars
  <2>1. Calm(r) /\ [CP!Next]_(CP!cvars)
    BY <1>3, QuietStep
  <2> QED BY <1>1, <1>3, <2>1, RequestEnds DEF Good, dbvars
<1> QED BY <1>1, <1>2, <1>3 DEF GradeClaim, Claims

-----------------------------------------------------------------------------
(* Everything else                                                            *)

LEMMA AbortGood ==
  ASSUME IInv, NEW r \in Reqs, Abort(r)
  PROVE  Good(r)
<1> USE DEF IInv
<1>1. /\ req' \in [Reqs -> Request] /\ req'[r] = Idle
      /\ \A p \in Reqs \ {r} : req'[p] = req[p]
  BY IdleTyped, ReqUpdate DEF Abort
<1>2. Infra' /\ Keeps(r)
  BY <1>1 DEF Abort, Infra, dbvars, Keeps
<1>3. Calm(r) /\ [CP!Next]_(CP!cvars)
  BY QuietStep DEF Abort
<1> QED BY <1>1, <1>2, <1>3, IdleKnows DEF Good

\* A step of the environment touches no row, no lock and no request.
LEMMA EnvironmentStep ==
  ASSUME IInv, TemplateChange \/ Tick \/ UNCHANGED vars
  PROVE  Infra' /\ (\A r \in Reqs : StartKnows(r) /\ AttemptKnows(r))' /\ [CP!Next]_(CP!cvars)
<1> USE DEF IInv
<1>1. UNCHANGED <<dbvars, rowLock, tplLock, req>>
  BY DEF TemplateChange, Tick, vars
<1>2. Infra'
  BY <1>1 DEF TemplateChange, Tick, vars, Infra, dbvars
<1>3. ASSUME NEW r \in Reqs PROVE StartKnows(r)' /\ AttemptKnows(r)'
  BY <1>1 DEF StartKnows, AttemptKnows, Blocking, dbvars
<1>4. [CP!Next]_(CP!cvars)
  BY <1>1 DEF CP!cvars, dbvars
<1> QED BY <1>2, <1>3, <1>4

LEMMA RequestStepGood ==
  ASSUME IInv, NEW r \in Reqs, Send(r) \/ Serve(r) \/ Abort(r)
  PROVE  Good(r)
BY StartReadGood, StartLockGood, StartFlipGood, StartDecideGood, AnswerReadGood, AnswerLockGood,
   AnswerWriteGood, SubmitReadGood, SubmitExpireGood, SubmitLockGood, SubmitClaimGood,
   GradeReadGood, GradeClaimGood, AbortGood
   DEF Send, Serve

LEMMA InitIInv == Init => CP!Init /\ IInv
<1> SUFFICES ASSUME Init PROVE CP!Init /\ IInv
  OBVIOUS
<1>1. CP!Init
  BY DEF Init, CP!Init, EmptySheet, CP!NoRow, NoRow, NoScore, CP!NoScore
<1>2. CP!CInv
  BY <1>1, SameData, CP!InitCInv
<1>3. Infra
  BY IdleTyped DEF Init, Infra
<1>4. \A r \in Reqs : StartKnows(r) /\ AttemptKnows(r)
  BY DEF Init, StartKnows, AttemptKnows, Idle, InStart, HoldsTemplate, OnAttempt, HoldsRow
<1> QED BY <1>1, <1>2, <1>3, <1>4 DEF IInv

\* Every step of the handlers is a step of the contract, or changes no row.
LEMMA StepIInv == IInv /\ [Next]_vars => IInv' /\ [CP!Next]_(CP!cvars)
<1> SUFFICES ASSUME IInv, [Next]_vars PROVE IInv' /\ [CP!Next]_(CP!cvars)
  OBVIOUS
<1>1. [CP!Next]_(CP!cvars) => CP!CInv'
  BY SameData, CP!StepCInv DEF IInv
<1>2. CASE TemplateChange \/ Tick \/ UNCHANGED vars
  BY <1>1, <1>2, EnvironmentStep DEF IInv
<1>3. ASSUME NEW r \in Reqs, Send(r) \/ Serve(r) \/ Abort(r)
      PROVE  IInv' /\ [CP!Next]_(CP!cvars)
  <2>1. Good(r)
    BY <1>3, RequestStepGood
  <2>2. CP!CInv'
    BY <1>1, <2>1 DEF Good
  <2>3. ASSUME NEW p \in Reqs \ {r} PROVE StartKnows(p)' /\ AttemptKnows(p)'
    BY <2>1, <2>2, Frame DEF Good, CP!CInv
  <2> QED BY <2>1, <2>2, <2>3 DEF Good, IInv
<1> QED BY <1>2, <1>3 DEF Next

\* The operators of ExamData, as ExamAttempts sees them through Contract.
LEMMA SameDataInContract ==
  /\ \A t, sheet : Contract!TotalAwarded(t, sheet) = TotalAwarded(t, sheet)
  /\ \A t, sheet : Contract!AutoGraded(t, sheet) = AutoGraded(t, sheet)
  /\ \A q, row : Contract!gradeExamAnswer(q, row) = gradeExamAnswer(q, row)
  /\ \A t : Contract!finalStatus(t) = finalStatus(t)
  /\ \A sheet : Contract!pendingIds(sheet) = pendingIds(sheet)
  /\ \A sheet, graded, ok : Contract!ManuallyGraded(sheet, graded, ok) = ManuallyGraded(sheet, graded, ok)
<1>1. \A t, sheet : Contract!TotalAwarded(t, sheet) = TotalAwarded(t, sheet)
  BY DEF Contract!TotalAwarded, TotalAwarded, Contract!MapThenSumSet, MapThenSumSet,
         Contract!MapThenFoldSet, MapThenFoldSet
<1>2. \A q, row : Contract!gradeExamAnswer(q, row) = gradeExamAnswer(q, row)
  BY DEF Contract!gradeExamAnswer, gradeExamAnswer
<1>3. \A t, sheet : Contract!AutoGraded(t, sheet) = AutoGraded(t, sheet)
  BY <1>2 DEF Contract!AutoGraded, AutoGraded
<1>4. /\ \A t : Contract!finalStatus(t) = finalStatus(t)
      /\ \A sheet : Contract!pendingIds(sheet) = pendingIds(sheet)
  BY DEF Contract!finalStatus, finalStatus, Contract!pendingIds, pendingIds
<1>5. \A sheet, graded, ok : Contract!ManuallyGraded(sheet, graded, ok) = ManuallyGraded(sheet, graded, ok)
  BY DEF Contract!ManuallyGraded, ManuallyGraded
<1> QED BY <1>1, <1>2, <1>3, <1>4, <1>5

-----------------------------------------------------------------------------
\* At every moment of every execution, what a request holds and has read agrees
\* with the rows: locks exclude, snapshots taken under a lock are current.
THEOREM Invariance == Spec => []IInv
BY InitIInv, StepIInv, PTL DEF Spec

\* Rows, locks and requests always have the shape of their declarations.
THEOREM TypeCorrect == Spec => []TypeOK
<1>1. IInv => TypeOK
  BY DEF IInv, Infra, TypeOK, CP!CInv, CP!TypeOK, Contract!TypeOK, CP!Status, Contract!Status,
         CP!Sheet, Contract!Sheet, CP!Row, Contract!Row
<1> QED BY <1>1, Invariance, PTL

\* The handlers implement the contract: whatever requests, crashes and timeouts
\* interleave, the rows only ever change by its atomic steps.
THEOREM Refinement == Spec => ImplementsContract
<1>1. CP!Init => Contract!Init
  BY DEF CP!Init, Contract!Init, CP!NoRow, Contract!NoRow, CP!NoScore, Contract!NoScore
<1>2. [CP!Next]_(CP!cvars) => [Contract!Next]_(Contract!cvars)
  <2>1. ASSUME NEW a, NEW s, NEW t, CP!Open(a, s, t) PROVE Contract!Open(a, s, t)
    BY <2>1 DEF CP!Open, Contract!Open, CP!Of, Contract!Of
  <2>2. ASSUME NEW a, NEW q, NEW v, CP!Save(a, q, v) PROVE Contract!Save(a, q, v)
    BY <2>2 DEF CP!Save, Contract!Save
  <2>3. ASSUME NEW a, CP!HandIn(a) PROVE Contract!HandIn(a)
    BY <2>3, SameData, SameDataInContract DEF CP!HandIn, Contract!HandIn
  <2>4. ASSUME NEW a, CP!Expire(a) PROVE Contract!Expire(a)
    BY <2>4 DEF CP!Expire, Contract!Expire
  <2>5. ASSUME NEW a, NEW ok, CP!Finalize(a, ok) PROVE Contract!Finalize(a, ok)
    BY <2>5, SameData, SameDataInContract DEF CP!Finalize, Contract!Finalize
  <2> QED BY <2>1, <2>2, <2>3, <2>4, <2>5 DEF CP!Next, Contract!Next, CP!cvars, Contract!cvars
<1> QED BY <1>1, <1>2, InitIInv, StepIInv, Invariance, PTL DEF Spec, ImplementsContract, Contract!Spec

\* Whatever races, one attempt per graded exam and one live practice attempt.
THEOREM NeverTwoAttempts == Spec => []OneAttempt
<1>1. IInv => OneAttempt
  BY DEF IInv, CP!CInv, CP!OneAttempt, OneAttempt, Contract!OneAttempt
<1> QED BY <1>1, Invariance, PTL

\* No saved answer is lost to the grader and none changes behind it.
THEOREM NoLostAnswer == Spec => []MarksMatchAnswers
<1>1. IInv => MarksMatchAnswers
  BY SameData, SameDataInContract
     DEF IInv, CP!CInv, CP!MarksMatchAnswers, MarksMatchAnswers, Contract!MarksMatchAnswers
<1> QED BY <1>1, Invariance, PTL

\* The stored score is the sum of the stored marks; GRADED leaves none pending.
THEOREM ScoreConsistent == Spec => []ScoreIsSumOfMarks
<1>1. IInv => ScoreIsSumOfMarks
  BY SameData, SameDataInContract
     DEF IInv, CP!CInv, CP!ScoreIsSumOfMarks, ScoreIsSumOfMarks, Contract!ScoreIsSumOfMarks
<1> QED BY <1>1, Invariance, PTL

\* One notification per manually graded attempt, none for any other.
THEOREM NotifiedOnce == Spec => []OneNotice
<1>1. IInv => OneNotice
  BY SameData, SameDataInContract DEF IInv, CP!CInv, CP!OneNotice, OneNotice, Contract!OneNotice
<1> QED BY <1>1, Invariance, PTL

\* An expired attempt carries no score and no mark.
THEOREM ExpiredStaysBlank == Spec => []ExpiredIsNeverGraded
<1>1. IInv => ExpiredIsNeverGraded
  BY DEF IInv, CP!CInv, CP!Unmarked, ExpiredIsNeverGraded, Contract!ExpiredIsNeverGraded,
         CP!NoScore, Contract!NoScore
<1> QED BY <1>1, Invariance, PTL

\* No step of any handler revises a verdict.
THEOREM VerdictStands == Spec => VerdictIsFinal
<1>1. IInv /\ [CP!Next]_(CP!cvars) => [Contract!VerdictStep]_(Contract!cvars)
  <2>1. IInv /\ [CP!Next]_(CP!cvars) => [CP!VerdictStep]_(CP!cvars)
    BY SameData, CP!StepVerdict DEF IInv
  <2> QED BY <2>1 DEF CP!VerdictStep, Contract!VerdictStep, CP!cvars, Contract!cvars
<1> QED BY <1>1, StepIInv, Invariance, PTL DEF Spec, VerdictIsFinal, Contract!VerdictIsFinal

-----------------------------------------------------------------------------
(* The row locks.                                                             *)

\* A step of request r hands over no lock but its own, and after it r is where
\* the locks it then has put it.
LEMMA HandsOver ==
  ASSUME Infra, LocksAreInHand, NEW r \in Reqs,
         \A p \in Reqs \ {r} : req'[p] = req[p],
         \A a \in Attempts : rowLock'[a] \in {Nil, rowLock[a], r},
         \A t \in Templates : tplLock'[t] \in {Nil, tplLock[t], r},
         \A a \in Attempts : rowLock'[a] = r => req'[r].step \in HoldsRow /\ req'[r].attempt = a,
         \A t \in Templates : tplLock'[t] = r => req'[r].step \in HoldsTemplate /\ req'[r].template = t
  PROVE  LocksAreInHand'
  BY ExamAttemptsAssumption DEF LocksAreInHand, Infra

LEMMA SendInHand ==
  ASSUME Infra, LocksAreInHand, NEW r \in Reqs, Send(r)
  PROVE  LocksAreInHand'
<1>1. /\ UNCHANGED <<rowLock, tplLock>> /\ req[r].step = "idle"
      /\ \A p \in Reqs \ {r} : req'[p] = req[p]
  BY DEF Send, StartRead, AnswerRead, SubmitRead, GradeRead, Infra
<1>2. /\ \A a \in Attempts : rowLock[a] # r
      /\ \A t \in Templates : tplLock[t] # r
  BY <1>1, ExamAttemptsAssumption DEF LocksAreInHand, HoldsRow, HoldsTemplate
<1> QED BY <1>1, <1>2, HandsOver

LEMMA ServeInHand ==
  ASSUME Infra, LocksAreInHand, NEW r \in Reqs, Serve(r)
  PROVE  LocksAreInHand'
<1>0. /\ \A a \in Attempts : rowLock[a] = r => req[r].step \in HoldsRow /\ req[r].attempt = a
      /\ \A t \in Templates : tplLock[t] = r => req[r].step \in HoldsTemplate /\ req[r].template = t
  BY ExamAttemptsAssumption DEF LocksAreInHand
<1> USE DEF HoldsRow, HoldsTemplate
<1>1. CASE StartLock(r)
  <2>1. /\ req'[r].step \in HoldsTemplate /\ req'[r].template = req[r].template
        /\ \A p \in Reqs \ {r} : req'[p] = req[p]
        /\ rowLock' = rowLock /\ tplLock' = [tplLock EXCEPT ![req[r].template] = r]
        /\ req[r].step = "startTx"
    <3>1. req \in [Reqs -> Request]
      BY DEF Infra
    <3>2. ASSUME req' = [req EXCEPT ![r] = [@ EXCEPT !.step = "startDecide"]]
          PROVE  /\ req'[r].step \in HoldsTemplate /\ req'[r].template = req[r].template
                 /\ \A p \in Reqs \ {r} : req'[p] = req[p]
      BY <3>1, <3>2 DEF Request
    <3>3. ASSUME NEW a \in Blocking(req[r].student, req[r].template),
                 req' = [req EXCEPT ![r] = [@ EXCEPT
                           !.attempt = a, !.found = status[a],
                           !.step = IF status[a] = "IN_PROGRESS" /\ Overdue(a, req[r].now)
                                    THEN "startFlip" ELSE "startDecide"]]
          PROVE  /\ req'[r].step \in HoldsTemplate /\ req'[r].template = req[r].template
                 /\ \A p \in Reqs \ {r} : req'[p] = req[p]
      BY <3>1, <3>3 DEF Request
    <3>4. req[r].step = "startTx" /\ rowLock' = rowLock /\ tplLock' = [tplLock EXCEPT ![req[r].template] = r]
      BY <1>1 DEF StartLock, LockTemplate
    <3> QED BY <1>1, <3>2, <3>3, <3>4 DEF StartLock
  <2>2. \A a \in Attempts : rowLock'[a] # r /\ rowLock'[a] = rowLock[a]
    BY <1>0, <2>1
  <2>3. \A t \in Templates : /\ tplLock'[t] \in {tplLock[t], r}
                            /\ tplLock'[t] = r => t = req'[r].template
    BY <1>0, <2>1 DEF Infra
  <2> QED BY <2>1, <2>2, <2>3, HandsOver
<1>2. CASE StartFlip(r) \/ StartDecide(r)
  <2>1. /\ \A p \in Reqs \ {r} : req'[p] = req[p]
        /\ rowLock' = rowLock /\ tplLock' = [tplLock EXCEPT ![req[r].template] = Nil]
        /\ req[r].step \in HoldsTemplate
    BY <1>2 DEF StartFlip, StartDecide, StartEnds, Infra
  <2>2. \A a \in Attempts : rowLock'[a] # r
    BY <1>0, <2>1
  <2>3. \A t \in Templates : tplLock'[t] # r /\ tplLock'[t] \in {Nil, tplLock[t]}
    BY <1>0, <2>1, ExamAttemptsAssumption DEF Infra
  <2> QED BY <2>1, <2>2, <2>3, HandsOver
<1>3. CASE AnswerLock(r) \/ SubmitLock(r)
  <2>1. /\ req[r].step \in {"answerTx", "submitTx"} /\ tplLock' = tplLock
        /\ \A p \in Reqs \ {r} : req'[p] = req[p]
        /\ \/ /\ req'[r].step \in HoldsRow /\ req'[r].attempt = req[r].attempt
              /\ rowLock' = [rowLock EXCEPT ![req[r].attempt] = r]
           \/ rowLock' = rowLock
    <3>1. req \in [Reqs -> Request]
      BY DEF Infra
    <3>2. CASE AnswerLock(r)
      BY <3>1, <3>2 DEF AnswerLock, LockAttempt, Request
    <3>3. CASE SubmitLock(r)
      BY <3>1, <3>3 DEF SubmitLock, LockAttempt, Request
    <3> QED BY <1>3, <3>2, <3>3
  <2>2. \A t \in Templates : tplLock'[t] # r /\ tplLock'[t] = tplLock[t]
    BY <1>0, <2>1
  <2>3. \A a \in Attempts : rowLock'[a] \in {rowLock[a], r}
    BY <2>1 DEF Infra
  <2>4. \A a \in Attempts : rowLock'[a] = r => req'[r].step \in HoldsRow /\ req'[r].attempt = a
    BY <1>0, <2>1 DEF Infra
  <2> QED BY <2>1, <2>2, <2>3, <2>4, HandsOver
<1>4. CASE AnswerWrite(r) \/ SubmitClaim(r)
  <2>1. /\ \A p \in Reqs \ {r} : req'[p] = req[p]
        /\ tplLock' = tplLock /\ rowLock' = [rowLock EXCEPT ![req[r].attempt] = Nil]
        /\ req[r].step \in HoldsRow
    BY <1>4 DEF AnswerWrite, SubmitClaim, FreeAttempt, Infra
  <2>2. \A t \in Templates : tplLock'[t] # r
    BY <1>0, <2>1
  <2>3. \A a \in Attempts : rowLock'[a] # r /\ rowLock'[a] \in {Nil, rowLock[a]}
    BY <1>0, <2>1, ExamAttemptsAssumption DEF Infra
  <2> QED BY <2>1, <2>2, <2>3, HandsOver
<1>5. CASE SubmitExpire(r) \/ GradeClaim(r)
  <2>1. /\ req[r].step \in {"expireTx", "gradeTx"} /\ UNCHANGED <<rowLock, tplLock>>
        /\ \A p \in Reqs \ {r} : req'[p] = req[p]
    BY <1>5 DEF SubmitExpire, GradeClaim, Infra
  <2> QED BY <1>0, <2>1, HandsOver
<1> QED BY <1>1, <1>2, <1>3, <1>4, <1>5 DEF Serve

LEMMA StepInHand == Infra /\ LocksAreInHand /\ [Next]_vars => LocksAreInHand'
<1> SUFFICES ASSUME Infra, LocksAreInHand, [Next]_vars PROVE LocksAreInHand'
  OBVIOUS
<1>1. CASE TemplateChange \/ Tick \/ UNCHANGED vars
  BY <1>1 DEF TemplateChange, Tick, vars, LocksAreInHand
<1>2. ASSUME NEW r \in Reqs, Send(r) \/ Serve(r) PROVE LocksAreInHand'
  BY <1>2, SendInHand, ServeInHand
<1>3. ASSUME NEW r \in Reqs, Abort(r) PROVE LocksAreInHand'
  <2>1. /\ \A p \in Reqs \ {r} : req'[p] = req[p]
        /\ \A a \in Attempts : rowLock'[a] # r /\ rowLock'[a] \in {Nil, rowLock[a]}
        /\ \A t \in Templates : tplLock'[t] # r /\ tplLock'[t] \in {Nil, tplLock[t]}
    BY <1>3, ExamAttemptsAssumption DEF Abort, Infra
  <2> QED BY <2>1, HandsOver
<1> QED BY <1>1, <1>2, <1>3 DEF Next

\* Whoever holds an attempt waits for nobody, and whoever holds a template waits
\* for an attempt at most.
LEMMA SomebodyGoes == ASSUME IInv, LocksAreInHand PROVE NoRingOfWaiters
<1> SUFFICES ASSUME NEW R \in (SUBSET Reqs) \ {{}} PROVE \E r \in R : \A p \in R : ~WaitsFor(r, p)
  BY DEF NoRingOfWaiters
<1>0. /\ \A r \in Reqs : req[r].step = "startTx" => req[r].template \in Templates
      /\ \A r \in Reqs : req[r].step \in OnAttempt => req[r].attempt \in Attempts
  BY DEF IInv, StartKnows, AttemptKnows, InStart
<1>1. ASSUME NEW r \in Reqs, NEW p \in Reqs, WaitsFor(r, p)
      PROVE  /\ req[p].step \in HoldsRow \/ (req[p].step \in HoldsTemplate /\ req[r].step = "startTx")
             /\ req[r].step \notin HoldsRow
  BY <1>0, <1>1, ExamAttemptsAssumption DEF WaitsFor, LocksAreInHand, OnAttempt, HoldsRow
<1>2. CASE \E r \in R : req[r].step \in HoldsRow
  BY <1>1, <1>2
<1>3. CASE /\ \A r \in R : req[r].step \notin HoldsRow
           /\ \E r \in R : req[r].step \in HoldsTemplate
  BY <1>1, <1>3 DEF HoldsTemplate
<1>4. CASE \A r \in R : req[r].step \notin HoldsRow \cup HoldsTemplate
  BY <1>1, <1>4
<1> QED BY <1>2, <1>3, <1>4

\* No row lock outlives the request that took it, and requests never wait for each
\* other in a ring: start (template, then attempt) and the handlers that lock the
\* attempt alone.
THEOREM LocksComeBack == Spec => [](LocksAreInHand /\ NoRingOfWaiters)
<1>1. Init => LocksAreInHand
  BY DEF Init, LocksAreInHand
<1>2. IInv => Infra
  BY DEF IInv
<1>3. IInv /\ LocksAreInHand => NoRingOfWaiters
  BY SomebodyGoes
<1> QED BY <1>1, <1>2, <1>3, StepInHand, Invariance, PTL DEF Spec
=============================================================================
