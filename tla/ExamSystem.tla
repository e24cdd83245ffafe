----------------------------- MODULE ExamSystem -----------------------------
(* The exam engine: templates (ExamTemplates) and attempts (ExamAttempts) on  *)
(* one database and one clock.  A start reads the template's status and its   *)
(* window and then locks its row; every write to that row waits for the lock. *)
EXTENDS ExamTemplates

CONSTANTS Attempts, Students, Practice, Manual, Points, Reqs, Duration, Grace, MaxClock

VARIABLES status, template, student, score, answers, notices, expiresAt, clock,
          rowLock, tplLock, req

\* The checks of a start, in its order: PUBLISHED, openAt, closeAt.
Live_AnyStatus(now) == {t \in Templates : tplStatus[t] # "none"}
Live(now) ==
  {t \in Templates : /\ tplStatus[t] = "PUBLISHED"
                     /\ openAt[t] # Nil => ~(openAt[t] > now)
                     /\ closeAt[t] # Nil => ~(closeAt[t] < now)}

A == INSTANCE ExamAttempts WITH live <- Live(clock)

ASSUME ExamSystemAssumption == A!ExamDataAssumption /\ A!ExamAttemptsAssumption

attemptVars == <<status, template, student, score, answers, notices, expiresAt,
                 rowLock, tplLock, req>>
sysVars == <<tplVars, attemptVars, clock>>

SystemInit ==
  /\ TemplateInit
  /\ A!Init

\* An UPDATE of a template row waits for the start that has it locked.
RowsWritten == {t \in Templates : \/ tplStatus'[t] # tplStatus[t]
                                  \/ version'[t] # version[t]
                                  \/ moderatedBy'[t] # moderatedBy[t]}
TemplateStep ==
  /\ TemplateNext
  /\ \A t \in RowsWritten : tplLock[t] = Nil
  /\ UNCHANGED <<attemptVars, clock>>

AttemptStep ==
  /\ UNCHANGED <<tplVars, clock>>
  /\ \E r \in Reqs : A!Send(r) \/ A!Serve(r) \/ A!Abort(r)

TimePasses ==
  /\ clock < MaxClock
  /\ clock' = clock + 1
  /\ UNCHANGED <<tplVars, attemptVars>>

SystemNext == TemplateStep \/ AttemptStep \/ TimePasses

SystemSpec == SystemInit /\ [][SystemNext]_sysVars

-----------------------------------------------------------------------------
(* Properties                                                                 *)

\* What ExamAttempts assumes of the templates is what ExamTemplates does: the
\* two together implement ExamAttempts, and with it the contract.
ImplementsAttempts == A!Spec

\* The template of every attempt is published, on a verdict given to the content
\* it has now and built from vetted questions, however the start raced with the
\* authors, the publishers and any number of moderation pages.  Only one thing
\* undoes it: a decision that reaches the exam after its publication, for the
\* moderation asks for no status (exams.routes.ts:792); and publishing the exam
\* again mends that.
SatUnderVerdict ==
  \A a \in Attempts : status[a] # "none" /\ template[a] \notin takenBack =>
    LET t == template[a] IN
    /\ tplStatus[t] = "PUBLISHED"
    /\ verdictOn[t] = version[t]
    /\ Paper[t] \subseteq wasApproved

\* An exam with an attempt is edited only after such a decision.
ChangesOnlyWhenTakenBack ==
  [][\A a \in Attempts : status[a] # "none" /\ version'[template[a]] # version[template[a]] =>
       template[a] \in takenBack]_sysVars

\* "A published exam has attempts against it; editing it mid-flight would change
\* the exam under the students": no template with an attempt is ever edited.
ExamNeverChanges ==
  [][\A a \in Attempts : status[a] # "none" => version'[template[a]] = version[template[a]]]_sysVars
=============================================================================
