------------------------------ MODULE MCLearning ------------------------------
(* Small instances of Learning: LectureProgress, Mastery, Training,           *)
(* Submissions, AnswerQueue, Papers, Competitions and Events.                 *)
EXTENDS Learning, TLC

CONSTANTS k2, k3, q1, c1, n1, t1, t2

\* Lectures of two seconds, reported as nothing or as all of it.
MCDuration == [l \in Lectures |-> 2]
MCSeconds == {0, 2}

\* k2 carries no concept, the other checkpoints are of c1.
MCConceptOf == [k \in Checkpoints |-> IF k = k2 THEN Nil ELSE c1]

\* A track of one lesson and a track of the others.
MCTrackOf == [l \in Lessons |-> IF l = n1 THEN t1 ELSE t2]

\* Bound: the answers are of one student, whoever it is.  No row of the model is
\* about two students.
Answering == {s \in Students :
  \/ \E k \in Checkpoints : saved[s][k] # "none"
  \/ \E c \in Concepts : mastery[s][c] # NoRow
  \/ \E a \in Answers : answer[a].student = s}
OneAnswers == Cardinality(Answering) <= 1

\* Bound: k2, which counts for no concept, is answered beside one checkpoint that does.
Asked(k) == (\E s \in Students : saved[s][k] # "none") \/ (\E a \in Answers : answer[a].checkpoint = k)
TwoAsked == ~(Asked(k2) /\ Asked(k3))

\* Bound: while a student is dropped, no other student has been seen.  No row of
\* the model depends on the enrolment of two students.
DroppedAlone ==
  enrolled # Students =>
    \A s \in enrolled :
      /\ marks[s] = "none"
      /\ \A l \in Lectures : watch[l][s] = Unwatched
      /\ \A p \in Posts : post[p].student # s

\* Bound: MaxTaps taps of q1, or one of it beside one of another question.
TapsOfTwo == \A q \in Questions \ {q1} : tapped[q] # 0 => tapped[q] = 1 /\ tapped[q1] <= 1

\* No two of them write a variable of each other, so that what is said of one
\* needs only a state the others start in.
WatchRests == WatchInit /\ lectures = {} /\ ~session
QueueRests == QueueInit /\ online
studyVars == <<masteryVars, trainingVars, submissionVars>>
campusVars == <<paperVars, competitionVars, eventVars>>
StudyRests == MasteryInit /\ TrainingInit /\ SubmissionsInit
CampusRests == PapersInit /\ CompetitionsInit /\ EventsInit
MCInit ==
  /\ StudyRests /\ CampusRests
  /\ (WatchInit /\ QueueRests) \/ (WatchRests /\ QueueInit)

Study ==
  \/ /\ TrainingInit /\ SubmissionsInit /\ MasteryNext /\ OneAnswers' /\ TwoAsked'
     /\ UNCHANGED <<trainingVars, submissionVars>>
  \/ /\ MasteryInit /\ SubmissionsInit /\ TrainingNext
     /\ UNCHANGED <<masteryVars, submissionVars>>
  \/ /\ MasteryInit /\ TrainingInit /\ SubmissionsNext
     /\ UNCHANGED <<masteryVars, trainingVars>>
Campus ==
  \/ /\ CompetitionsInit /\ EventsInit /\ PapersNext
     /\ UNCHANGED <<competitionVars, eventVars>>
  \/ /\ PapersInit /\ EventsInit /\ CompetitionsNext
     /\ UNCHANGED <<paperVars, eventVars>>
  \/ /\ PapersInit /\ CompetitionsInit /\ EventsNext
     /\ UNCHANGED <<paperVars, competitionVars>>
MCNext ==
  \/ /\ StudyRests /\ CampusRests /\ QueueRests /\ WatchNext /\ DroppedAlone'
     /\ UNCHANGED <<studyVars, campusVars, queueVars>>
  \/ /\ StudyRests /\ CampusRests /\ WatchRests /\ QueueNext /\ TapsOfTwo'
     /\ UNCHANGED <<studyVars, campusVars, watchVars>>
  \/ /\ WatchRests /\ QueueRests /\ CampusRests /\ Study
     /\ UNCHANGED <<watchVars, queueVars, campusVars>>
  \/ /\ WatchRests /\ QueueRests /\ StudyRests /\ Campus
     /\ UNCHANGED <<watchVars, queueVars, studyVars>>
MCSpec ==
  MCInit /\ [][MCNext]_<<watchVars, studyVars, queueVars, campusVars>>

Symmetric ==
  UNION {Permutations(S) : S \in {Students, Posts, Lectures}}
=============================================================================
