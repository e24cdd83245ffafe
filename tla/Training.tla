------------------------------- MODULE Training -------------------------------
(* A user's training: completing a lesson records it, credits its points, and  *)
(* with the last lesson of a track completes the track, which credits points,  *)
(* a badge and a certificate (training.routes.ts).  All of it is one           *)
(* transaction under the lock of the enrollment in that track; its writes      *)
(* become visible at its last step.  No row of the model is about two users.   *)
EXTENDS Integers, FiniteSets

CONSTANTS
  Tracks, Lessons,
  trackOf,      \* trackOf[l]: the track of lesson l
  Completions,  \* requests that can be under way at the same time
  NoLesson

ASSUME TrainingAssumption ==
  /\ trackOf \in [Lessons -> Tracks]
  /\ NoLesson \notin Lessons

VARIABLES
  enrollment,    \* enrollment[k]: "none", "open" or "completed" (completedAt)
  lessonsDone,      \* the lessons with a LessonProgress row
  lessonPoints,  \* lessonPoints[l]: the lesson_completed entries of the ledger
  trackAwards,   \* trackAwards[k]: the track_completed entries, with badge and certificate
  firstStep,     \* the user has the first-step badge
  completion     \* completion[r]: the step of request r, what it is to commit

awards == <<enrollment, lessonsDone, lessonPoints, trackAwards, firstStep>>
trainingVars == <<awards, completion>>

LessonsOf(k) == {l \in Lessons : trackOf[l] = k}

\* done: what the enrollment row said when it was read; new, whole, first: the
\* lesson, the track and the first-step badge are awarded by this transaction.
NotCompleting == [step |-> "idle", lesson |-> NoLesson, done |-> FALSE,
                  new |-> FALSE, whole |-> FALSE, first |-> FALSE]

TrainingInit ==
  /\ enrollment = [k \in Tracks |-> "none"]
  /\ lessonsDone = {}
  /\ lessonPoints = [l \in Lessons |-> 0]
  /\ trackAwards = [k \in Tracks |-> 0]
  /\ firstStep = FALSE
  /\ completion = [r \in Completions |-> NotCompleting]

Track(r) == trackOf[completion[r].lesson]

\* The transactions that hold the row of an enrollment.
LocksEnrollment(p, k) == completion[p].step \in {"milestones", "commit"} /\ Track(p) = k
EnrollmentFree_NotLocked(k) == TRUE
EnrollmentFree(k) == \A p \in Completions : ~LocksEnrollment(p, k)

\* POST /training/tracks/:slug/enroll
EnrollInTrack(k) ==
  /\ enrollment[k] = "none"
  /\ EnrollmentFree(k)
  /\ enrollment' = [enrollment EXCEPT ![k] = "open"]
  /\ UNCHANGED <<lessonsDone, lessonPoints, trackAwards, firstStep, completion>>

\* POST /training/lessons/:lessonId/complete, the quiz answered: the enrollment
\* is found or made.  What is read of it may be older than the lock.
CompleteRead(r, l) ==
  /\ completion[r].step = "idle"
  /\ completion' = [completion EXCEPT ![r] =
       [NotCompleting EXCEPT !.step = "lock", !.lesson = l, !.done = enrollment[trackOf[l]] = "completed"]]
  /\ UNCHANGED awards

\* completesTrack, on the rows as they are under the lock.
CompletesTrack(r) ==
  /\ LessonsOf(Track(r)) \subseteq lessonsDone \cup {completion[r].lesson}
  /\ ~completion[r].done

\* updateMany WHERE completedAt IS NULL.
ClaimsTrack(r) == enrollment[Track(r)] # "completed"

\* FOR UPDATE, the lesson's row if it has none, the count, the claim.
CompleteLock(r) ==
  /\ completion[r].step = "lock"
  /\ EnrollmentFree(Track(r))
  /\ completion' = [completion EXCEPT
       ![r].step = "milestones",
       ![r].new = completion[r].lesson \notin lessonsDone,
       ![r].whole = CompletesTrack(r) /\ ClaimsTrack(r)]
  /\ UNCHANGED awards

\* earnedMilestoneBadges counts the lessons of all tracks, which this lock does
\* not cover; awardBadgeBySlug then looks for the badge and inserts it.
EarnsFirstStep(r) ==
  /\ Cardinality(lessonsDone \cup {completion[r].lesson}) = 1
  /\ ~firstStep

CompleteMilestones(r) ==
  /\ completion[r].step = "milestones"
  /\ completion' = [completion EXCEPT ![r].step = "commit", ![r].first = EarnsFirstStep(r)]
  /\ UNCHANGED awards

\* The commit.  The primary key of UserBadge refuses a second first-step badge,
\* and the whole completion is rolled back with it (Fails).
CompleteCommit(r) ==
  LET q == completion[r]  k == Track(r) IN
  /\ q.step = "commit"
  /\ q.first => ~firstStep
  /\ enrollment' = [enrollment EXCEPT ![k] = IF q.whole \/ @ = "completed" THEN "completed" ELSE "open"]
  /\ lessonsDone' = lessonsDone \cup {q.lesson}
  /\ lessonPoints' = IF q.new THEN [lessonPoints EXCEPT ![q.lesson] = @ + 1] ELSE lessonPoints
  /\ trackAwards' = IF q.whole THEN [trackAwards EXCEPT ![k] = @ + 1] ELSE trackAwards
  /\ firstStep' = (firstStep \/ q.first)
  /\ completion' = [completion EXCEPT ![r] = NotCompleting]

\* A conflict on the badge, a crash or a timeout before the commit.
CompleteFails(r) ==
  /\ completion[r].step # "idle"
  /\ completion' = [completion EXCEPT ![r] = NotCompleting]
  /\ UNCHANGED awards

TrainingNext ==
  \/ \E k \in Tracks : EnrollInTrack(k)
  \/ \E r \in Completions :
       \/ \E l \in Lessons : CompleteRead(r, l)
       \/ CompleteLock(r) \/ CompleteMilestones(r) \/ CompleteCommit(r) \/ CompleteFails(r)

TrainingSpec == TrainingInit /\ [][TrainingNext]_trainingVars

-----------------------------------------------------------------------------
(* Properties                                                                 *)

TrainingTypeOK ==
  /\ enrollment \in [Tracks -> {"none", "open", "completed"}]
  /\ lessonsDone \subseteq Lessons
  /\ lessonPoints \in [Lessons -> Nat]
  /\ trackAwards \in [Tracks -> Nat]
  /\ firstStep \in BOOLEAN
  /\ completion \in [Completions ->
       [step : {"idle", "lock", "milestones", "commit"}, lesson : Lessons \cup {NoLesson},
        done : BOOLEAN, new : BOOLEAN, whole : BOOLEAN, first : BOOLEAN]]

\* A track is completed exactly when each of its lessons is, and is then awarded
\* once; a lesson's points are credited once; who has completed a lesson has the
\* first-step badge: whatever completions, of one track or two, run together.
AwardsMatchProgress ==
  /\ \A k \in Tracks :
       /\ trackAwards[k] = IF enrollment[k] = "completed" THEN 1 ELSE 0
       /\ LessonsOf(k) # {} => (enrollment[k] = "completed" <=> LessonsOf(k) \subseteq lessonsDone)
  /\ \A l \in Lessons : lessonPoints[l] = IF l \in lessonsDone THEN 1 ELSE 0
  /\ lessonsDone # {} => firstStep

\* The lock of the enrollment makes a completion one step, with all it earns,
\* however completions of one track or several interleave.
AwardsContract == INSTANCE Awards
ImplementsAwards == AwardsContract!Spec
=============================================================================
