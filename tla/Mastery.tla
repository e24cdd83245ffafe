-------------------------------- MODULE Mastery --------------------------------
(* The checkpoints of a lecture and what their answers say of the student's   *)
(* mastery of a concept (learning.routes.ts).  The handler has no transaction *)
(* and takes no lock: one action per statement, any of them may be the last.  *)
EXTENDS Integers, FiniteSets, Learners

CONSTANTS
  Checkpoints, Concepts,
  conceptOf,            \* conceptOf[k]: the concept of checkpoint k, or Nil
  MASTERY_ATTEMPT_CAP,
  Answers               \* answers that can be under way at the same time

ASSUME MasteryAssumption ==
  /\ conceptOf \in [Checkpoints -> Concepts \cup {Nil}]
  /\ MASTERY_ATTEMPT_CAP \in Nat \ {0}
  /\ IsFiniteSet(Answers)
  /\ Nil \notin Concepts /\ Nil \notin Checkpoints

VARIABLES
  mastery,   \* mastery[s][c]: the StudentMastery row; no attempts, no row
  saved,     \* saved[s][k]: the CheckpointAnswer row: "none", "right" or "wrong"
  answer,    \* answer[a]: the step of answer a, what it is about, the row it read
  counted,   \* history: the answers under way that went into the counters
  vouched    \* history: vouched[s]: the checkpoints whose saved answer had done so

tally == <<counted, vouched>>
masteryVars == <<mastery, saved, answer, tally>>

Ratio(n, d) == [num |-> n, den |-> d]
MasteryRow(n, right, level) == [attempts |-> n, correct |-> right, level |-> level]
NoRow == MasteryRow(0, 0, Ratio(0, 1))
Answer(step, s, k, right, row) ==
  [step |-> step, student |-> s, checkpoint |-> k, right |-> right, row |-> row]
NoAnswer == Answer("idle", Nil, Nil, FALSE, NoRow)

MasteryInit ==
  /\ mastery = [s \in Students |-> [c \in Concepts |-> NoRow]]
  /\ saved = [s \in Students |-> [k \in Checkpoints |-> "none"]]
  /\ answer = [a \in Answers |-> NoAnswer]
  /\ counted = {}
  /\ vouched = [s \in Students |-> {}]

-----------------------------------------------------------------------------

\* decideMasteryUpdate: a missing row counts, then up to the cap.
StillCounts_OffByOne(row) == row.attempts <= MASTERY_ATTEMPT_CAP
StillCounts_RowOnly(row) == row.attempts \in 1 .. MASTERY_ATTEMPT_CAP - 1
StillCounts(row) == row.attempts < MASTERY_ATTEMPT_CAP

\* The upsert: creates the row, or increments it as it is now, whatever was read.
Counted_FromRead(row, seen, right) ==
  IF row.attempts = 0 THEN MasteryRow(1, right, Ratio(right, 1))
  ELSE MasteryRow(seen.attempts + 1, seen.correct + right, row.level)
Counted(row, seen, right) ==
  IF row.attempts = 0 THEN MasteryRow(1, right, Ratio(right, 1))
  ELSE MasteryRow(row.attempts + 1, row.correct + right, row.level)

Step(a, step) ==
  answer' = [answer EXCEPT ![a] =
    Answer(step, answer[a].student, answer[a].checkpoint, answer[a].right, answer[a].row)]

\* POST /lectures/:lid/checkpoints/:cid/answer: graded, and for a checkpoint of
\* a concept the mastery row is read.
AnswerPosted(a, s, k, right) ==
  LET c == conceptOf[k] IN
  /\ answer[a].step = "idle"
  /\ answer' = [answer EXCEPT ![a] =
       IF c = Nil THEN Answer("save", s, k, right, NoRow)
       ELSE Answer(IF StillCounts(mastery[s][c]) THEN "count" ELSE "save",
                   s, k, right, mastery[s][c])]
  /\ UNCHANGED <<mastery, saved, tally>>

AnswerCounted(a) ==
  LET s == answer[a].student  c == conceptOf[answer[a].checkpoint]
      right == IF answer[a].right THEN 1 ELSE 0
  IN
  /\ answer[a].step = "count"
  /\ mastery' = [mastery EXCEPT ![s] =
       [mastery[s] EXCEPT ![c] = Counted(mastery[s][c], answer[a].row, right)]]
  /\ Step(a, "refresh")
  /\ counted' = counted \cup {a}
  /\ UNCHANGED <<saved, vouched>>

\* The post-increment row is read back...
RowRefreshed(a) ==
  LET s == answer[a].student  k == answer[a].checkpoint IN
  /\ answer[a].step = "refresh"
  /\ answer' = [answer EXCEPT ![a] =
       Answer("level", s, k, answer[a].right, mastery[s][conceptOf[k]])]
  /\ UNCHANGED <<mastery, saved, tally>>

\* ... and the level written from it.
LevelWritten(a) ==
  LET s == answer[a].student  c == conceptOf[answer[a].checkpoint]
      row == mastery[s][c]  fresh == answer[a].row
  IN
  /\ answer[a].step = "level"
  /\ mastery' = [mastery EXCEPT ![s] = [mastery[s] EXCEPT ![c] =
       MasteryRow(row.attempts, row.correct, Ratio(fresh.correct, fresh.attempts))]]
  /\ Step(a, "save")
  /\ UNCHANGED <<saved, tally>>

\* checkpointAnswer.upsert: the last answer is the one remembered.
AnswerSaved(a) ==
  LET s == answer[a].student  k == answer[a].checkpoint IN
  /\ answer[a].step = "save"
  /\ saved' = [saved EXCEPT ![s] =
       [saved[s] EXCEPT ![k] = IF answer[a].right THEN "right" ELSE "wrong"]]
  /\ vouched' = [vouched EXCEPT ![s] = IF a \in counted THEN @ \cup {k} ELSE @ \ {k}]
  /\ counted' = counted \ {a}
  /\ answer' = [answer EXCEPT ![a] = NoAnswer]
  /\ UNCHANGED mastery

\* A statement fails, or the process goes down, and what was written stays.
AnswerFails(a) ==
  /\ answer[a].step # "idle"
  /\ answer' = [answer EXCEPT ![a] = NoAnswer]
  /\ counted' = counted \ {a}
  /\ UNCHANGED <<mastery, saved, vouched>>

MasteryNext == \E a \in Answers :
  \/ \E s \in Students, k \in Checkpoints, right \in BOOLEAN : AnswerPosted(a, s, k, right)
  \/ AnswerCounted(a)
  \/ RowRefreshed(a)
  \/ LevelWritten(a)
  \/ AnswerSaved(a)
  \/ AnswerFails(a)

MasterySpec == MasteryInit /\ [][MasteryNext]_masteryVars

-----------------------------------------------------------------------------
(* Properties                                                                 *)

MasteryRowType == [attempts : Nat, correct : Nat, level : [num : Nat, den : Nat \ {0}]]

\* The type invariant.
MasteryTypeOK ==
  /\ mastery \in [Students -> [Concepts -> MasteryRowType]]
  /\ saved \in [Students -> [Checkpoints -> {"none", "right", "wrong"}]]
  /\ answer \in [Answers -> [step : {"idle", "count", "refresh", "level", "save"},
                             student : Students \cup {Nil}, checkpoint : Checkpoints \cup {Nil},
                             right : BOOLEAN, row : MasteryRowType]]
  /\ counted \subseteq Answers
  /\ vouched \in [Students -> SUBSET Checkpoints]

\* The cap is read without a lock, and answers that race past it overshoot it by
\* one each: n answers at a time leave at most MASTERY_ATTEMPT_CAP + n - 1.
OvershootIsBounded ==
  \A s \in Students, c \in Concepts :
    mastery[s][c].attempts <= MASTERY_ATTEMPT_CAP + Cardinality(Answers) - 1

\* The level is the ratio of some of the answers counted: no answer counts in
\* the level that the row has lost, right or wrong ("Atomic increment ... instead
\* of a read-modify-write, which lost concurrent answers").
LevelIsOfCountedAnswers ==
  \A s \in Students, c \in Concepts :
    LET row == mastery[s][c] IN
    row.attempts > 0 =>
      /\ row.level.num <= row.correct
      /\ row.level.den - row.level.num <= row.attempts - row.correct

\* An answer that is saved, so that the student is not asked again, has gone into
\* the counters itself, unless its concept stands at the cap, past which the code
\* saves without counting; and the counters have room for all that did.  No
\* transaction joins the rows: it is the order of the writes, and the increment
\* of the row as it is, that give this.
SavedIsCounted ==
  /\ \A s \in Students, k \in Checkpoints :
       saved[s][k] # "none" /\ conceptOf[k] # Nil =>
         k \in vouched[s] \/ mastery[s][conceptOf[k]].attempts >= MASTERY_ATTEMPT_CAP
  /\ \A s \in Students, c \in Concepts :
       Cardinality({k \in vouched[s] : conceptOf[k] = c}) <= mastery[s][c].attempts
=============================================================================
