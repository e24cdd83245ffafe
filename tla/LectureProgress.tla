---------------------------- MODULE LectureProgress ----------------------------
(* What a course offering knows of its students' watching: the watch rows the *)
(* player's ticks write (learning.routes.ts), the attendance they earn on the *)
(* day, and the progress of the enrolment computed from them, against the     *)
(* registrar dropping and enrolling students (enrollments.routes.ts), the     *)
(* author adding and deleting lectures, the teacher's roll call and the       *)
(* automatic mark of a live session.  The writes of a tick's transaction      *)
(* become visible at its last step, WatchCommit.                              *)
EXTENDS Integers, FiniteSets, Learners

CONSTANTS
  Lectures,
  duration,   \* duration[l]: Lecture.durationSec
  Seconds,    \* the clock values a player reports
  Posts       \* ticks that can be under way at the same time

ASSUME ProgressAssumption ==
  /\ IsFiniteSet(Lectures)
  /\ duration \in [Lectures -> Nat]
  /\ Seconds \subseteq Nat
  /\ Nil \notin Lectures

VARIABLES
  lectures,   \* the lectures the offering has
  enrolled,   \* the students with an Enrollment row
  watch,      \* watch[l][s]: the WatchEvent row; sec = -1 when there is none
  progress,   \* progress[s]: the counts Enrollment.progressPct was computed from
  session,    \* whether today's AttendanceSession exists
  marks,      \* marks[s]: today's AttendanceRecord: "none", "auto" or "teacher"
  post        \* post[p]: the step of tick p, what it is about and what it will write

watchRows == <<lectures, enrolled, watch, progress, session, marks>>
watchVars == <<watchRows, post>>

WatchRow == [sec : Nat \cup {-1}, done : BOOLEAN]
Unwatched == [sec |-> -1, done |-> FALSE]
NoProgress == [done |-> 0, of |-> 0]
Tick(step, s, l, row, opens, marks_, counts) ==
  [step |-> step, student |-> s, lecture |-> l,
   row |-> row, opens |-> opens, marks |-> marks_, counts |-> counts]
NoTick == Tick("idle", Nil, Nil, Unwatched, FALSE, FALSE, NoProgress)

Idle(p) == post[p].step = "idle"
InTransaction(p) == post[p].step \in {"attend", "count", "commit"}

WatchInit ==
  /\ lectures \in SUBSET Lectures
  /\ enrolled = Students
  /\ watch = [l \in Lectures |-> [s \in Students |-> Unwatched]]
  /\ progress = [s \in Students |-> NoProgress]
  /\ session \in BOOLEAN
  /\ marks \in [Students -> {"none", "auto"}]
  /\ \A s \in Students : ~session => marks[s] = "none"
  /\ post = [p \in Posts |-> NoTick]

-----------------------------------------------------------------------------
(* Pure parts of the handler                                                  *)

watchProgressCompletes(watched, total, length) ==
  /\ total > 0
  /\ length > 0
  /\ watched * 100 >= (IF total < length THEN total ELSE length) * 95

\* The clamp to the reported length, and the high-water mark.
clampWatchedSec_Delta(prior, incoming, total) == incoming - prior
clampWatchedSec(prior, incoming, total) ==
  LET bounded == IF total > 0 /\ incoming > total THEN total ELSE incoming
  IN IF prior > bounded THEN prior ELSE bounded

\* The row the tick writes over the row it read.
NextRow(prior, watched, total, claimed, length) ==
  LET sec == clampWatchedSec(prior.sec, watched, total)
  IN [sec |-> sec,
      done |-> prior.done \/ (claimed /\ watchProgressCompletes(sec, total, length))]

Completed(s) == {l \in lectures : watch[l][s].done}

-----------------------------------------------------------------------------
(* POST /lectures/:id/watch                                                   *)

\* The lecture exists and the student is enrolled.
WatchRead(p, s, l) ==
  /\ Idle(p)
  /\ l \in lectures
  /\ s \in enrolled
  /\ post' = [post EXCEPT ![p] = Tick("lock", s, l, Unwatched, FALSE, FALSE, NoProgress)]
  /\ UNCHANGED watchRows

\* SELECT id FROM "Lecture" ... FOR UPDATE waits for the tick that has the row.
LectureFree_NotLocked(l) == TRUE
LectureFree(l) == \A p \in Posts : post[p].lecture = l => ~InTransaction(p)

\* The prior row is read under the lock.  A tick that completes nothing has only
\* its row to write.  (A lecture deleted since WatchRead fails the insert: Abort.)
WatchLock(p, watched, total, claimed) ==
  LET s == post[p].student  l == post[p].lecture
      row == NextRow(watch[l][s], watched, total, claimed, duration[l])
      step == IF row.done /\ ~watch[l][s].done THEN "attend" ELSE "commit"
  IN
  /\ post[p].step = "lock"
  /\ l \in lectures
  /\ LectureFree(l)
  /\ post' = [post EXCEPT ![p] = Tick(step, s, l, row, FALSE, FALSE, NoProgress)]
  /\ UNCHANGED watchRows

\* The upserts with an empty update: each looks for its row and inserts it when
\* there is none, and an insert waits for another insert of the same key.
SessionFree == \A p \in Posts : ~post[p].opens
MarkFree_NotUnique(s) == TRUE
MarkFree(s) == \A p \in Posts : post[p].student = s => ~post[p].marks

WatchAttend(p) ==
  LET s == post[p].student IN
  /\ post[p].step = "attend"
  /\ session \/ SessionFree
  /\ marks[s] # "none" \/ MarkFree(s)
  /\ post' = [post EXCEPT ![p] =
       Tick("count", s, post[p].lecture, post[p].row, ~session, marks[s] = "none", NoProgress)]
  /\ UNCHANGED watchRows

\* lecture.count and watchEvent.count see what is committed, and the own row.
WatchCount(p) ==
  LET s == post[p].student  l == post[p].lecture
      counts == [done |-> Cardinality(Completed(s) \cup {l}), of |-> Cardinality(lectures)]
  IN
  /\ post[p].step = "count"
  /\ post' = [post EXCEPT ![p] =
       Tick("commit", s, l, post[p].row, post[p].opens, post[p].marks, counts)]
  /\ UNCHANGED watchRows

\* enrollment.updateMany, which finds no row of a student dropped since the
\* read, and may find a later one, and the commit.
WatchCommit(p) ==
  LET s == post[p].student  l == post[p].lecture IN
  /\ post[p].step = "commit"
  /\ watch' = [watch EXCEPT ![l][s] = post[p].row]
  /\ progress' = IF post[p].counts = NoProgress \/ s \notin enrolled THEN progress
                 ELSE [progress EXCEPT ![s] = post[p].counts]
  /\ session' = (session \/ post[p].opens)
  /\ marks' = IF post[p].marks THEN [marks EXCEPT ![s] = "auto"] ELSE marks
  /\ post' = [post EXCEPT ![p] = NoTick]
  /\ UNCHANGED <<lectures, enrolled>>

\* A statement fails, or the process goes down: rollback.
WatchAbort(p) ==
  /\ ~Idle(p)
  /\ post' = [post EXCEPT ![p] = NoTick]
  /\ UNCHANGED watchRows

-----------------------------------------------------------------------------
(* The other writers                                                          *)

\* POST /offerings/:id/lectures: a fresh id, which no tick knows.
CreateLecture(l) ==
  /\ l \notin lectures
  /\ \A p \in Posts : post[p].lecture # l
  /\ lectures' = lectures \cup {l}
  /\ UNCHANGED <<enrolled, watch, progress, session, marks, post>>

\* DELETE /lectures/:id, refused (409, and the foreign key behind it) once a
\* student has watched; the delete waits for the tick that has the row.
Unseen_Unchecked(l) == TRUE
Unseen(l) == \A s \in Students : watch[l][s].sec = -1

DeleteLecture(l) ==
  /\ l \in lectures
  /\ LectureFree(l)
  /\ Unseen(l)
  /\ lectures' = lectures \ {l}
  /\ UNCHANGED <<enrolled, watch, progress, session, marks, post>>

\* DELETE /enrollments/:id, a hard delete that leaves the watch rows, and
\* POST /enrollments, a new row with progressPct 0.
DropStudent(s) ==
  /\ s \in enrolled
  /\ enrolled' = enrolled \ {s}
  /\ progress' = [progress EXCEPT ![s] = NoProgress]
  /\ UNCHANGED <<lectures, watch, session, marks, post>>

EnrolAgain(s) ==
  /\ s \notin enrolled
  /\ enrolled' = enrolled \cup {s}
  /\ UNCHANGED <<lectures, watch, progress, session, marks, post>>

\* POST .../attendance: the records of the day are replaced by the roll.  A
\* record a tick is inserting makes the roll's own insert fail.  Who is enrolled
\* is read before: a student may be dropped in between (and so for a join).
RollCall(roll) ==
  /\ session \/ SessionFree
  /\ \A s \in roll : MarkFree(s)
  /\ session' = TRUE
  /\ marks' = [s \in Students |-> IF s \in roll THEN "teacher" ELSE "none"]
  /\ UNCHANGED <<lectures, enrolled, watch, progress, post>>

\* POST /live/sessions/:id/join
JoinLive(s) ==
  /\ session \/ SessionFree
  /\ marks[s] = "none"
  /\ MarkFree(s)
  /\ session' = TRUE
  /\ marks' = [marks EXCEPT ![s] = "auto"]
  /\ UNCHANGED <<lectures, enrolled, watch, progress, post>>

WatchNext ==
  \/ \E p \in Posts :
       \/ \E s \in Students, l \in Lectures : WatchRead(p, s, l)
       \/ \E watched, total \in Seconds, claimed \in BOOLEAN : WatchLock(p, watched, total, claimed)
       \/ WatchAttend(p)
       \/ WatchCount(p)
       \/ WatchCommit(p)
       \/ WatchAbort(p)
  \/ \E l \in Lectures : CreateLecture(l) \/ DeleteLecture(l)
  \/ \E roll \in SUBSET Students : RollCall(roll)
  \/ \E s \in Students : JoinLive(s) \/ DropStudent(s) \/ EnrolAgain(s)

WatchSpec == WatchInit /\ [][WatchNext]_watchVars

-----------------------------------------------------------------------------
(* Properties                                                                 *)

\* The type invariant of the rows and of the ticks.
WatchTypeOK ==
  /\ lectures \subseteq Lectures /\ enrolled \subseteq Students
  /\ watch \in [Lectures -> [Students -> WatchRow]]
  /\ progress \in [Students -> [done : Nat, of : Nat]]
  /\ session \in BOOLEAN
  /\ marks \in [Students -> {"none", "auto", "teacher"}]
  /\ post \in [Posts -> [step : {"idle", "lock", "attend", "count", "commit"},
                         student : Students \cup {Nil}, lecture : Lectures \cup {Nil}, row : WatchRow,
                         opens : BOOLEAN, marks : BOOLEAN, counts : [done : Nat, of : Nat]]]

\* The high-water mark of a lecture never rewinds and a completed lecture stays
\* completed, however the ticks of one student interleave (learning.routes.ts:
\* "two racing ticks could read the same prior row").
WatchNeverRewinds ==
  [][\A l \in Lectures, s \in Students :
       /\ watch[l][s].sec <= watch'[l][s].sec
       /\ watch[l][s].done => watch'[l][s].done]_watchVars

\* An enrolment is never credited with more lectures than the student has
\* completed in the offering as it stands: ticks only add, and the author can
\* not delete what has been watched.
ProgressIsEarned ==
  \A s \in Students : progress[s].done <= Cardinality(Completed(s))

\* An automatic mark never replaces the teacher's, whatever the order of the
\* roll call, the tick and the join ("don't overwrite if a teacher has already
\* marked something").
TeacherMarkStands ==
  [][\A s \in Students : marks[s] = "teacher" => marks'[s] # "auto"]_watchVars

\* What a tick waits for: the lecture's row, then the unique keys of the day's
\* session and of its mark, which another has inserted and not committed.
TickWaitsFor(p, q) ==
  \/ post[p].step = "lock" /\ InTransaction(q) /\ post[q].lecture = post[p].lecture
  \/ /\ post[p].step = "attend"
     /\ \/ ~session /\ post[q].opens
        \/ /\ marks[post[p].student] = "none"
           /\ post[q].marks /\ post[q].student = post[p].student

\* However many ticks of one class wait, one of them waits for none of the others.
TicksDoNotRing ==
  \A P \in (SUBSET Posts) \ {{}} : \E p \in P : \A q \in P : ~TickWaitsFor(p, q)
=============================================================================
