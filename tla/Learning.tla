------------------------------- MODULE Learning -------------------------------
(* A learner's rows, at study and on campus, and the queue on his phone: parts *)
(* that share the students and write no row of each other.                     *)
EXTENDS LectureProgress, Mastery, Training, Submissions, AnswerQueue,
        Papers, Competitions, Events

LearningSpec ==
  /\ WatchSpec /\ MasterySpec /\ TrainingSpec /\ SubmissionsSpec /\ QueueSpec
  /\ PapersSpec /\ CompetitionsSpec /\ EventsSpec

\* Every row, every request and the queue have the shape of their declarations.
LearningTypeOK ==
  /\ WatchTypeOK /\ MasteryTypeOK /\ TrainingTypeOK /\ SubmissionsTypeOK /\ QueueTypeOK
  /\ PapersTypeOK /\ CompetitionsTypeOK /\ EventsTypeOK
=============================================================================
