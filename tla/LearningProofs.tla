---------------------------- MODULE LearningProofs ----------------------------
(* What holds of checkpoint answers, lecture progress, training tracks,       *)
(* submissions, papers, competitions and events for any number of students,   *)
(* lectures, concepts, lessons, tracks, papers, members and requests.         *)
EXTENDS Learning, AnswerQueueProofs, FiniteSetTheorems, TLAPS

-----------------------------------------------------------------------------
(* Mastery                                                                    *)

\* The answers that have read a row below the cap and not counted yet.
Uncounted(s, c) ==
  {a \in Answers : /\ answer[a].step = "count"
                   /\ answer[a].student = s
                   /\ conceptOf[answer[a].checkpoint] = c}

\* The level of a row is of some of its answers.
OfCounted(level, row) ==
  /\ level.num <= level.den
  /\ level.num <= row.correct
  /\ level.den - level.num <= row.attempts - row.correct

SoundRow(row) ==
  /\ row.correct <= row.attempts
  /\ row.attempts > 0 => OfCounted(row.level, row)

\* What an answer under way relies on.
Relies(a) ==
  LET x == answer[a]  c == conceptOf[x.checkpoint] IN
  /\ x.step # "idle" => x.student \in Students /\ x.checkpoint \in Checkpoints
  /\ x.step \in {"count", "refresh", "level"} => c \in Concepts
  /\ x.step \in {"refresh", "level"} => mastery[x.student][c].attempts > 0 /\ a \in counted
  /\ x.step = "save" /\ c # Nil =>
       a \in counted \/ mastery[x.student][c].attempts >= MASTERY_ATTEMPT_CAP
  /\ x.step = "level" =>
       x.row.attempts > 0 /\ OfCounted(Ratio(x.row.correct, x.row.attempts), mastery[x.student][c])

\* A saved answer has counted itself, unless its concept is at the cap.
SavedCounts ==
  \A s \in Students, k \in Checkpoints :
    saved[s][k] # "none" /\ conceptOf[k] # Nil =>
      k \in vouched[s] \/ mastery[s][conceptOf[k]].attempts >= MASTERY_ATTEMPT_CAP

\* The answers a row has counted, those that are saved and those under way, are
\* not more than its attempts.
Vouched(s, c) == {k \in vouched[s] : conceptOf[k] = c}
InHand(s, c) == {a \in counted : answer[a].student = s /\ conceptOf[answer[a].checkpoint] = c}
Tallied ==
  /\ \A s \in Students : IsFiniteSet(vouched[s])
  /\ \A a \in counted : /\ answer[a].step \in {"refresh", "level", "save"}
                         /\ conceptOf[answer[a].checkpoint] \in Concepts
  /\ \A s \in Students, c \in Concepts :
       Cardinality(Vouched(s, c)) + Cardinality(InHand(s, c)) <= mastery[s][c].attempts

MInv ==
  /\ MasteryTypeOK
  /\ \A s \in Students, c \in Concepts : SoundRow(mastery[s][c])
  /\ \A a \in Answers : Relies(a)
  /\ SavedCounts /\ Tallied
  /\ \A s \in Students, c \in Concepts :
       mastery[s][c].attempts + Cardinality(Uncounted(s, c))
         <= MASTERY_ATTEMPT_CAP + Cardinality(Answers) - 1

LEMMA UncountedIsFinite ==
  ASSUME NEW s, NEW c
  PROVE  /\ IsFiniteSet(Uncounted(s, c)) /\ Cardinality(Uncounted(s, c)) \in Nat
         /\ Cardinality(Uncounted(s, c)) <= Cardinality(Answers)
         /\ Cardinality(Answers) \in Nat
  BY MasteryAssumption, FS_Subset, FS_CardinalityType DEF Uncounted

LEMMA TallyIsFinite ==
  ASSUME MasteryTypeOK, Tallied, NEW s \in Students, NEW c
  PROVE  /\ IsFiniteSet(Vouched(s, c)) /\ Cardinality(Vouched(s, c)) \in Nat
         /\ IsFiniteSet(InHand(s, c)) /\ Cardinality(InHand(s, c)) \in Nat
<1>1. Vouched(s, c) \subseteq vouched[s] /\ InHand(s, c) \subseteq Answers
  BY DEF Vouched, InHand, MasteryTypeOK
<1>2. IsFiniteSet(vouched[s]) /\ IsFiniteSet(Answers)
  BY MasteryAssumption DEF Tallied
<1> QED
  BY <1>1, <1>2, FS_Subset, FS_CardinalityType

\* Steps that count and save nothing leave the tally as it is.
LEMMA TallyStays ==
  ASSUME MInv, NEW a \in Answers, UNCHANGED tally,
         \A s \in Students, c \in Concepts : mastery'[s][c].attempts = mastery[s][c].attempts,
         \A b \in Answers \ {a} : answer'[b] = answer[b],
         a \in counted =>
           /\ answer'[a].step \in {"refresh", "level", "save"}
           /\ answer'[a].student = answer[a].student /\ answer'[a].checkpoint = answer[a].checkpoint
  PROVE  Tallied'
<1>1. counted \subseteq Answers /\ counted' = counted /\ vouched' = vouched
  BY DEF MInv, MasteryTypeOK, tally
<1>2. ASSUME NEW s \in Students, NEW c \in Concepts
      PROVE  Vouched(s, c)' = Vouched(s, c) /\ InHand(s, c)' = InHand(s, c)
  BY <1>1 DEF Vouched, InHand
<1>3. \A b \in counted : /\ answer'[b].step \in {"refresh", "level", "save"}
                         /\ conceptOf[answer'[b].checkpoint] \in Concepts
  BY <1>1 DEF MInv, Tallied
<1>4. \A s \in Students, c \in Concepts :
        Cardinality(Vouched(s, c)) + Cardinality(InHand(s, c)) <= mastery[s][c].attempts
  BY DEF MInv, Tallied
<1>5. \A s \in Students : IsFiniteSet(vouched[s])
  BY DEF MInv, Tallied
<1> QED
  BY <1>1, <1>2, <1>3, <1>4, <1>5 DEF Tallied

LEMMA InitMInv == MasteryInit => MInv
<1> SUFFICES ASSUME MasteryInit PROVE MInv
  OBVIOUS
<1> USE MasteryAssumption DEF MasteryInit
<1>1. MasteryTypeOK
  BY DEF MasteryTypeOK, MasteryRowType, NoRow, MasteryRow, Ratio, NoAnswer, Answer
<1>2. \A s \in Students, c \in Concepts : SoundRow(mastery[s][c])
  BY DEF SoundRow, OfCounted, NoRow, MasteryRow, Ratio
<1>3. \A a \in Answers : Relies(a)
  BY DEF Relies, NoAnswer, Answer
<1>4. SavedCounts
  BY DEF SavedCounts
<1>6. Tallied
  <2>1. ASSUME NEW s \in Students, NEW c \in Concepts
        PROVE  Cardinality(Vouched(s, c)) + Cardinality(InHand(s, c)) <= mastery[s][c].attempts
    <3>1. Vouched(s, c) = {} /\ InHand(s, c) = {} /\ mastery[s][c].attempts = 0
      BY DEF Vouched, InHand, NoRow, MasteryRow
    <3> QED
      BY <3>1, FS_EmptySet
  <2> QED
    BY <2>1, FS_EmptySet DEF Tallied
<1>5. ASSUME NEW s \in Students, NEW c \in Concepts
      PROVE  mastery[s][c].attempts + Cardinality(Uncounted(s, c))
               <= MASTERY_ATTEMPT_CAP + Cardinality(Answers) - 1
  <2>1. Uncounted(s, c) = {}
    BY DEF Uncounted, NoAnswer, Answer
  <2>2. mastery[s][c].attempts = 0
    BY DEF NoRow, MasteryRow
  <2>3. Cardinality(Uncounted(s, c)) = 0
    BY <2>1, FS_EmptySet
  <2>4. Cardinality(Answers) \in Nat
    BY UncountedIsFinite
  <2> HIDE DEF MasteryInit
  <2> QED
    BY <2>2, <2>3, <2>4
<1> QED
  BY <1>1, <1>2, <1>3, <1>4, <1>5, <1>6 DEF MInv

\* A row only moves on: no attempt is lost, right or wrong.
Grows(row, next) ==
  /\ row.attempts <= next.attempts
  /\ row.correct <= next.correct
  /\ row.attempts - row.correct <= next.attempts - next.correct

\* Answers other than a keep what they rely on while the rows grow.
LEMMA OthersRely ==
  ASSUME MInv, MasteryTypeOK', NEW a \in Answers,
         \A s \in Students, c \in Concepts : Grows(mastery[s][c], mastery'[s][c]),
         \A b \in Answers \ {a} : answer'[b] = answer[b] /\ (b \in counted => b \in counted')
  PROVE  \A b \in Answers \ {a} : Relies(b)'
<1> SUFFICES ASSUME NEW b \in Answers \ {a} PROVE Relies(b)'
  OBVIOUS
<1>1. PICK s, c : s = answer[b].student /\ c = conceptOf[answer[b].checkpoint]
  OBVIOUS
<1>2. answer'[b] = answer[b] /\ Relies(b) /\ (b \in counted => b \in counted')
  BY DEF MInv
<1>3. CASE s \in Students /\ c \in Concepts
  <2>1. /\ mastery[s][c] \in MasteryRowType /\ mastery'[s][c] \in MasteryRowType
        /\ Grows(mastery[s][c], mastery'[s][c])
        /\ answer[b].row \in MasteryRowType
    BY <1>3 DEF MInv, MasteryTypeOK
  <2> QED
    BY <1>1, <1>2, <2>1, MasteryAssumption DEF Relies, Grows, OfCounted, Ratio, MasteryRowType
<1>4. CASE ~(s \in Students /\ c \in Concepts)
  BY <1>1, <1>2, <1>4, MasteryAssumption DEF Relies
<1> QED
  BY <1>3, <1>4

\* A step of answer a that counts nothing new.
LEMMA NothingCounted ==
  ASSUME MInv, MasteryTypeOK', NEW a \in Answers, Relies(a)', SavedCounts', Tallied',
         answer'[a].step # "count",
         \A s \in Students, c \in Concepts :
           SoundRow(mastery'[s][c]) /\ Grows(mastery[s][c], mastery'[s][c])
           /\ mastery'[s][c].attempts = mastery[s][c].attempts,
         \A b \in Answers \ {a} : answer'[b] = answer[b] /\ (b \in counted => b \in counted')
  PROVE  MInv'
<1>1. \A b \in Answers : Relies(b)'
  BY OthersRely
<1>2. ASSUME NEW s \in Students, NEW c \in Concepts
      PROVE  mastery'[s][c].attempts + Cardinality(Uncounted(s, c)')
               <= MASTERY_ATTEMPT_CAP + Cardinality(Answers) - 1
  <2>1. Uncounted(s, c)' \subseteq Uncounted(s, c)
    BY DEF Uncounted
  <2>2. /\ Cardinality(Uncounted(s, c)') <= Cardinality(Uncounted(s, c))
        /\ Cardinality(Uncounted(s, c)') \in Nat /\ Cardinality(Uncounted(s, c)) \in Nat
    BY <2>1, UncountedIsFinite, FS_Subset, FS_CardinalityType
  <2>3. mastery[s][c].attempts \in Nat
    BY DEF MInv, MasteryTypeOK, MasteryRowType
  <2> QED
    BY <2>2, <2>3, UncountedIsFinite, MasteryAssumption DEF MInv
<1> QED
  BY <1>1, <1>2 DEF MInv

LEMMA PostedKeeps ==
  ASSUME MInv, NEW a \in Answers, NEW s \in Students, NEW k \in Checkpoints,
         NEW right \in BOOLEAN, AnswerPosted(a, s, k, right)
  PROVE  MInv'
<1> USE MasteryAssumption, LearnersAssumption
<1> DEFINE c == conceptOf[k]
<1>1. /\ UNCHANGED <<mastery, saved, counted, vouched>>
      /\ \A b \in Answers \ {a} : answer'[b] = answer[b]
  BY DEF AnswerPosted, MInv, MasteryTypeOK, tally
<1>0. Tallied'
  <2>1. a \notin counted
    BY DEF AnswerPosted, MInv, Tallied
  <2> QED
    BY <1>1, <2>1, TallyStays DEF tally
<1>2. ASSUME NEW d \in Students, NEW e \in Concepts
      PROVE  /\ mastery[d][e] \in MasteryRowType
             /\ SoundRow(mastery[d][e]) /\ Grows(mastery[d][e], mastery[d][e])
  BY DEF MInv, MasteryTypeOK, MasteryRowType, Grows
<1>3. CASE c # Nil /\ StillCounts(mastery[s][c])
  <2>1. c \in Concepts /\ mastery[s][c] \in MasteryRowType
    BY <1>2, <1>3
  <2>2. answer' = [answer EXCEPT ![a] = Answer("count", s, k, right, mastery[s][c])]
    BY <1>3 DEF AnswerPosted
  <2>3. MasteryTypeOK'
    <3>1. Answer("count", s, k, right, mastery[s][c]) \in
            [step : {"idle", "count", "refresh", "level", "save"},
             student : Students \cup {Nil}, checkpoint : Checkpoints \cup {Nil},
             right : BOOLEAN, row : MasteryRowType]
      BY <2>1 DEF Answer
    <3> QED
      BY <1>1, <2>2, <3>1 DEF MInv, MasteryTypeOK
  <2>4. Relies(a)'
    BY <2>1, <2>2 DEF Relies, Answer, MInv, MasteryTypeOK
  <2>5. \A b \in Answers : Relies(b)'
    BY <1>1, <1>2, <2>3, <2>4, OthersRely
  <2>6. ASSUME NEW d \in Students, NEW e \in Concepts
        PROVE  mastery[d][e].attempts + Cardinality(Uncounted(d, e)')
                 <= MASTERY_ATTEMPT_CAP + Cardinality(Answers) - 1
    <3>1. CASE d = s /\ e = c
      <4>1. mastery[d][e].attempts \in Nat /\ mastery[d][e].attempts < MASTERY_ATTEMPT_CAP
        BY <1>2, <1>3, <3>1 DEF StillCounts, MasteryRowType
      <4>2. /\ Cardinality(Uncounted(d, e)') \in Nat /\ Cardinality(Answers) \in Nat
            /\ Cardinality(Uncounted(d, e)') <= Cardinality(Answers)
        BY UncountedIsFinite, FS_Subset, FS_CardinalityType DEF Uncounted
      <4> QED
        BY <4>1, <4>2
    <3>2. CASE ~(d = s /\ e = c)
      <4>1. Uncounted(d, e)' \subseteq Uncounted(d, e)
        BY <1>1, <2>2, <3>2 DEF Uncounted, Answer, MInv, MasteryTypeOK
      <4>2. /\ Cardinality(Uncounted(d, e)') <= Cardinality(Uncounted(d, e))
            /\ Cardinality(Uncounted(d, e)') \in Nat /\ Cardinality(Uncounted(d, e)) \in Nat
        BY <4>1, UncountedIsFinite, FS_Subset, FS_CardinalityType
      <4> QED
        BY <1>2, <4>2, UncountedIsFinite DEF MInv, MasteryRowType
    <3> QED
      BY <3>1, <3>2
  <2> QED
    BY <1>0, <1>1, <1>2, <2>3, <2>5, <2>6 DEF MInv, SavedCounts
<1>4. CASE ~(c # Nil /\ StillCounts(mastery[s][c]))
  <2>1. PICK row \in MasteryRowType :
          answer' = [answer EXCEPT ![a] = Answer("save", s, k, right, row)]
    <3>1. NoRow \in MasteryRowType
      BY DEF NoRow, MasteryRow, MasteryRowType, Ratio
    <3> QED
      BY <1>2, <1>4, <3>1 DEF AnswerPosted
  <2>2. MasteryTypeOK'
    <3>1. Answer("save", s, k, right, row) \in
            [step : {"idle", "count", "refresh", "level", "save"},
             student : Students \cup {Nil}, checkpoint : Checkpoints \cup {Nil},
             right : BOOLEAN, row : MasteryRowType]
      BY DEF Answer
    <3> QED
      BY <1>1, <2>1, <3>1 DEF MInv, MasteryTypeOK
  <2>3. Relies(a)'
    <3>1. c # Nil => mastery[s][c].attempts >= MASTERY_ATTEMPT_CAP
      BY <1>2, <1>4 DEF StillCounts, MasteryRowType
    <3> QED
      BY <1>1, <2>1, <3>1 DEF Relies, Answer, MInv, MasteryTypeOK
  <2>4. answer'[a].step # "count"
    BY <2>1 DEF Answer, MInv, MasteryTypeOK
  <2> QED
    BY <1>0, <1>1, <1>2, <2>2, <2>3, <2>4, NothingCounted DEF MInv, SavedCounts
<1> QED
  BY <1>3, <1>4

LEMMA CountedKeeps ==
  ASSUME MInv, NEW a \in Answers, AnswerCounted(a)
  PROVE  MInv'
<1> USE MasteryAssumption, LearnersAssumption
<1>0. PICK s, k, c, right :
        /\ s = answer[a].student /\ k = answer[a].checkpoint /\ c = conceptOf[k]
        /\ right = IF answer[a].right THEN 1 ELSE 0
  OBVIOUS
<1>1. s \in Students /\ k \in Checkpoints /\ c \in Concepts /\ right \in {0, 1}
      /\ mastery[s][c] \in MasteryRowType /\ SoundRow(mastery[s][c]) /\ answer[a].step = "count"
  BY <1>0 DEF AnswerCounted, MInv, Relies, MasteryTypeOK
<1>2. PICK next : next = Counted(mastery[s][c], answer[a].row, right)
  OBVIOUS
<1>3. /\ next \in MasteryRowType /\ SoundRow(next) /\ Grows(mastery[s][c], next)
      /\ next.attempts = mastery[s][c].attempts + 1
  BY <1>1, <1>2 DEF Counted, MasteryRow, MasteryRowType, Ratio, SoundRow, OfCounted, Grows
<1>4. /\ mastery' = [mastery EXCEPT ![s] = [mastery[s] EXCEPT ![c] = next]]
      /\ saved' = saved /\ counted' = counted \cup {a} /\ vouched' = vouched
      /\ answer' = [answer EXCEPT ![a] =
           Answer("refresh", s, k, answer[a].right, answer[a].row)]
  BY <1>0, <1>2 DEF AnswerCounted, Step
<1>5. MasteryTypeOK'
  <2>1. Answer("refresh", s, k, answer[a].right, answer[a].row) \in
          [step : {"idle", "count", "refresh", "level", "save"},
           student : Students \cup {Nil}, checkpoint : Checkpoints \cup {Nil},
           right : BOOLEAN, row : MasteryRowType]
    BY <1>1 DEF Answer, MInv, MasteryTypeOK
  <2>2. mastery' \in [Students -> [Concepts -> MasteryRowType]]
    BY <1>1, <1>3, <1>4 DEF MInv, MasteryTypeOK
  <2> QED
    BY <1>4, <2>1, <2>2 DEF MInv, MasteryTypeOK
<1>6. ASSUME NEW d \in Students, NEW e \in Concepts
      PROVE  /\ mastery'[d][e] = IF d = s /\ e = c THEN next ELSE mastery[d][e]
             /\ SoundRow(mastery'[d][e]) /\ Grows(mastery[d][e], mastery'[d][e])
             /\ mastery[d][e] \in MasteryRowType
  <2>1. mastery'[d][e] = IF d = s /\ e = c THEN next ELSE mastery[d][e]
    BY <1>4 DEF MInv, MasteryTypeOK
  <2>2. mastery[d][e] \in MasteryRowType /\ SoundRow(mastery[d][e])
    BY DEF MInv, MasteryTypeOK
  <2>3. Grows(mastery[d][e], mastery[d][e])
    BY <2>2 DEF Grows, MasteryRowType
  <2> QED
    BY <1>3, <2>1, <2>2, <2>3
<1>7. Relies(a)'
  <2>1. answer'[a] = Answer("refresh", s, k, answer[a].right, answer[a].row)
    BY <1>4 DEF MInv, MasteryTypeOK
  <2>2. mastery'[s][c].attempts > 0
    BY <1>1, <1>3, <1>6 DEF MasteryRowType
  <2> QED
    BY <1>0, <1>1, <1>4, <2>1, <2>2 DEF Relies, Answer
<1>8. \A b \in Answers \ {a} : answer'[b] = answer[b]
  BY <1>4 DEF MInv, MasteryTypeOK
<1>9. \A b \in Answers : Relies(b)'
  BY <1>4, <1>5, <1>6, <1>7, <1>8, OthersRely
<1>10. SavedCounts'
  <2> SUFFICES ASSUME NEW d \in Students, NEW m \in Checkpoints,
                      saved[d][m] # "none", conceptOf[m] # Nil, m \notin vouched[d]
               PROVE  mastery'[d][conceptOf[m]].attempts >= MASTERY_ATTEMPT_CAP
    BY <1>4 DEF SavedCounts
  <2>1. conceptOf[m] \in Concepts /\ mastery[d][conceptOf[m]].attempts >= MASTERY_ATTEMPT_CAP
    BY DEF MInv, SavedCounts
  <2> QED
    BY <1>3, <1>6, <2>1 DEF MasteryRowType, Grows
<1>12. Tallied'
  <2>1. a \notin counted
    BY <1>1 DEF MInv, Tallied
  <2>2. ASSUME NEW d \in Students, NEW e \in Concepts
        PROVE  Cardinality(Vouched(d, e)') + Cardinality(InHand(d, e)') <= mastery'[d][e].attempts
    <3>0. counted \subseteq Answers
      BY DEF MInv, MasteryTypeOK
    <3>3. answer'[a] = Answer("refresh", s, k, answer[a].right, answer[a].row)
      BY <1>4 DEF MInv, MasteryTypeOK
    <3>1. /\ Vouched(d, e)' = Vouched(d, e)
          /\ InHand(d, e)' = IF d = s /\ e = c THEN InHand(d, e) \cup {a} ELSE InHand(d, e)
      BY <1>0, <1>4, <1>8, <2>1, <3>0, <3>3 DEF Vouched, InHand, Answer
    <3>2. /\ IsFiniteSet(InHand(d, e)) /\ Cardinality(InHand(d, e)) \in Nat
          /\ Cardinality(Vouched(d, e)) \in Nat /\ a \notin InHand(d, e)
      BY <2>1, TallyIsFinite DEF MInv, InHand
    <3>4. Cardinality(InHand(d, e) \cup {a}) = Cardinality(InHand(d, e)) + 1
      BY <3>2, FS_AddElement
    <3>5. Cardinality(Vouched(d, e)) + Cardinality(InHand(d, e)) <= mastery[d][e].attempts
      BY DEF MInv, Tallied
    <3>6. mastery'[d][e].attempts =
            IF d = s /\ e = c THEN mastery[d][e].attempts + 1 ELSE mastery[d][e].attempts
      BY <1>3, <1>6
    <3>7. mastery[d][e].attempts \in Nat
      BY <1>6 DEF MasteryRowType
    <3> QED
      BY <3>1, <3>2, <3>4, <3>5, <3>6, <3>7
  <2>3. /\ answer'[a].step = "refresh" /\ conceptOf[answer'[a].checkpoint] \in Concepts
    BY <1>0, <1>1, <1>4 DEF Answer, MInv, MasteryTypeOK
  <2>4. \A b \in counted' : /\ answer'[b].step \in {"refresh", "level", "save"}
                            /\ conceptOf[answer'[b].checkpoint] \in Concepts
    BY <1>4, <1>8, <2>3 DEF MInv, Tallied, MasteryTypeOK
  <2> QED
    BY <1>4, <2>2, <2>4 DEF MInv, Tallied
<1>11. ASSUME NEW d \in Students, NEW e \in Concepts
       PROVE  mastery'[d][e].attempts + Cardinality(Uncounted(d, e)')
                <= MASTERY_ATTEMPT_CAP + Cardinality(Answers) - 1
  <2>1. Uncounted(d, e)' = Uncounted(d, e) \ {a}
    BY <1>4, <1>8 DEF Uncounted, Answer, MInv, MasteryTypeOK
  <2>2. /\ Cardinality(Uncounted(d, e)) \in Nat /\ IsFiniteSet(Uncounted(d, e))
        /\ Cardinality(Answers) \in Nat
        /\ Cardinality(Uncounted(d, e) \ {a}) =
             IF a \in Uncounted(d, e) THEN Cardinality(Uncounted(d, e)) - 1
             ELSE Cardinality(Uncounted(d, e))
    BY UncountedIsFinite, FS_RemoveElement
  <2>3. a \in Uncounted(d, e) <=> (d = s /\ e = c)
    BY <1>0, <1>1 DEF Uncounted
  <2>4. mastery[d][e].attempts + Cardinality(Uncounted(d, e))
          <= MASTERY_ATTEMPT_CAP + Cardinality(Answers) - 1
    BY DEF MInv
  <2>5. mastery'[d][e].attempts =
          IF d = s /\ e = c THEN mastery[d][e].attempts + 1 ELSE mastery[d][e].attempts
    BY <1>3, <1>6
  <2>6. mastery[d][e].attempts \in Nat
    BY <1>6 DEF MasteryRowType
  <2> QED
    BY <2>1, <2>2, <2>3, <2>4, <2>5, <2>6
<1> QED
  BY <1>5, <1>6, <1>9, <1>10, <1>11, <1>12 DEF MInv

LEMMA LevelKeeps ==
  ASSUME MInv, NEW a \in Answers, LevelWritten(a)
  PROVE  MInv'
<1> USE MasteryAssumption, LearnersAssumption
<1>0. PICK s, k, c, row, fresh :
        /\ s = answer[a].student /\ k = answer[a].checkpoint /\ c = conceptOf[k]
        /\ row = mastery[s][c] /\ fresh = answer[a].row
  OBVIOUS
<1>1. /\ s \in Students /\ k \in Checkpoints /\ c \in Concepts
      /\ row \in MasteryRowType /\ fresh \in MasteryRowType /\ SoundRow(row) /\ row.attempts > 0
      /\ fresh.attempts > 0 /\ OfCounted(Ratio(fresh.correct, fresh.attempts), row)
  BY <1>0 DEF LevelWritten, MInv, Relies, MasteryTypeOK
<1>2. PICK next :
        next = MasteryRow(row.attempts, row.correct, Ratio(fresh.correct, fresh.attempts))
  OBVIOUS
<1>3. /\ next \in MasteryRowType /\ SoundRow(next) /\ Grows(row, next)
      /\ next.attempts = row.attempts
  BY <1>1, <1>2 DEF MasteryRow, MasteryRowType, Ratio, SoundRow, OfCounted, Grows
<1>4. /\ mastery' = [mastery EXCEPT ![s] = [mastery[s] EXCEPT ![c] = next]]
      /\ saved' = saved /\ counted' = counted /\ vouched' = vouched
      /\ answer' = [answer EXCEPT ![a] = Answer("save", s, k, answer[a].right, fresh)]
  BY <1>0, <1>2 DEF LevelWritten, Step, tally
<1>5. MasteryTypeOK'
  <2>1. Answer("save", s, k, answer[a].right, fresh) \in
          [step : {"idle", "count", "refresh", "level", "save"},
           student : Students \cup {Nil}, checkpoint : Checkpoints \cup {Nil},
           right : BOOLEAN, row : MasteryRowType]
    BY <1>1 DEF Answer, MInv, MasteryTypeOK
  <2>2. mastery' \in [Students -> [Concepts -> MasteryRowType]]
    BY <1>1, <1>3, <1>4 DEF MInv, MasteryTypeOK
  <2> QED
    BY <1>4, <2>1, <2>2 DEF MInv, MasteryTypeOK
<1>6. ASSUME NEW d \in Students, NEW e \in Concepts
      PROVE  SoundRow(mastery'[d][e]) /\ Grows(mastery[d][e], mastery'[d][e])
             /\ mastery'[d][e].attempts = mastery[d][e].attempts
  <2>1. mastery'[d][e] = IF d = s /\ e = c THEN next ELSE mastery[d][e]
    BY <1>4 DEF MInv, MasteryTypeOK
  <2>2. mastery[d][e] \in MasteryRowType /\ SoundRow(mastery[d][e])
    BY DEF MInv, MasteryTypeOK
  <2>3. Grows(mastery[d][e], mastery[d][e])
    BY <2>2 DEF Grows, MasteryRowType
  <2> QED
    BY <1>0, <1>3, <2>1, <2>2, <2>3
<1>7. answer'[a] = Answer("save", s, k, answer[a].right, fresh)
      /\ \A b \in Answers \ {a} : answer'[b] = answer[b]
  BY <1>4 DEF MInv, MasteryTypeOK
<1>8. Relies(a)'
  <2>1. a \in counted'
    BY <1>4 DEF LevelWritten, MInv, Relies
  <2> QED
    BY <1>0, <1>1, <1>7, <2>1 DEF Relies, Answer
<1>9. SavedCounts'
  <2> SUFFICES ASSUME NEW d \in Students, NEW m \in Checkpoints,
                      saved[d][m] # "none", conceptOf[m] # Nil, m \notin vouched[d]
               PROVE  mastery'[d][conceptOf[m]].attempts >= MASTERY_ATTEMPT_CAP
    BY <1>4 DEF SavedCounts
  <2>1. conceptOf[m] \in Concepts /\ mastery[d][conceptOf[m]].attempts >= MASTERY_ATTEMPT_CAP
    BY DEF MInv, SavedCounts
  <2> QED
    BY <1>6, <2>1
<1>11. Tallied'
  BY <1>0, <1>4, <1>6, <1>7, TallyStays DEF Answer, tally
<1>10. answer'[a].step # "count"
  BY <1>7 DEF Answer
<1> QED
  BY <1>4, <1>5, <1>6, <1>7, <1>8, <1>9, <1>10, <1>11, NothingCounted

\* An answer that ends leaves its count, and any saved one it replaces goes too.
LEMMA LetGo ==
  ASSUME MInv, NEW a \in Answers, counted' = counted \ {a}, mastery' = mastery,
         \A s \in Students : vouched'[s] \subseteq vouched[s],
         \A b \in Answers \ {a} : answer'[b] = answer[b]
  PROVE  Tallied'
<1>0. counted \subseteq Answers
  BY DEF MInv, MasteryTypeOK
<1>1. ASSUME NEW s \in Students, NEW c \in Concepts
      PROVE  Cardinality(Vouched(s, c)') + Cardinality(InHand(s, c)') <= mastery[s][c].attempts
  <2>1. Vouched(s, c)' \subseteq Vouched(s, c) /\ InHand(s, c)' \subseteq InHand(s, c)
    BY <1>0 DEF Vouched, InHand
  <2>2. /\ IsFiniteSet(InHand(s, c)) /\ Cardinality(InHand(s, c)) \in Nat
        /\ IsFiniteSet(Vouched(s, c)) /\ Cardinality(Vouched(s, c)) \in Nat
    BY TallyIsFinite DEF MInv
  <2>3. /\ Cardinality(Vouched(s, c)') <= Cardinality(Vouched(s, c))
        /\ Cardinality(InHand(s, c)') <= Cardinality(InHand(s, c))
        /\ Cardinality(Vouched(s, c)') \in Nat /\ Cardinality(InHand(s, c)') \in Nat
    BY <2>1, <2>2, FS_Subset, FS_CardinalityType
  <2>4. Cardinality(Vouched(s, c)) + Cardinality(InHand(s, c)) <= mastery[s][c].attempts
        /\ mastery[s][c].attempts \in Nat
    BY DEF MInv, Tallied, MasteryTypeOK, MasteryRowType
  <2> QED
    BY <2>2, <2>3, <2>4
<1>2. \A s \in Students : IsFiniteSet(vouched'[s])
  BY FS_Subset DEF MInv, Tallied
<1>3. \A b \in counted' : /\ answer'[b].step \in {"refresh", "level", "save"}
                          /\ conceptOf[answer'[b].checkpoint] \in Concepts
  BY <1>0 DEF MInv, Tallied
<1> QED
  BY <1>1, <1>2, <1>3 DEF Tallied

\* An answer that counted and is saved moves from the ones under way to the saved.
LEMMA Vouches ==
  ASSUME MInv, NEW a \in Answers, a \in counted, counted' = counted \ {a}, mastery' = mastery,
         NEW s \in Students, s = answer[a].student, NEW k \in Checkpoints, k = answer[a].checkpoint,
         vouched' = [vouched EXCEPT ![s] = IF a \in counted THEN vouched[s] \cup {k} ELSE vouched[s] \ {k}],
         \A b \in Answers \ {a} : answer'[b] = answer[b]
  PROVE  Tallied'
<1>0. counted \subseteq Answers /\ conceptOf[k] \in Concepts
  BY DEF MInv, MasteryTypeOK, Tallied
<1>1. \A d \in Students : vouched'[d] = IF d = s THEN vouched[d] \cup {k} ELSE vouched[d]
  BY DEF MInv, MasteryTypeOK
<1>2. ASSUME NEW d \in Students, NEW c \in Concepts
      PROVE  Cardinality(Vouched(d, c)') + Cardinality(InHand(d, c)') <= mastery[d][c].attempts
  <2>1. /\ IsFiniteSet(InHand(d, c)) /\ Cardinality(InHand(d, c)) \in Nat
        /\ IsFiniteSet(Vouched(d, c)) /\ Cardinality(Vouched(d, c)) \in Nat
    BY TallyIsFinite DEF MInv
  <2>2. Cardinality(Vouched(d, c)) + Cardinality(InHand(d, c)) <= mastery[d][c].attempts
        /\ mastery[d][c].attempts \in Nat
    BY DEF MInv, Tallied, MasteryTypeOK, MasteryRowType
  <2>3. CASE d = s /\ c = conceptOf[k]
    <3>1. /\ Vouched(d, c)' = Vouched(d, c) \cup {k}
          /\ InHand(d, c)' = InHand(d, c) \ {a} /\ a \in InHand(d, c)
      BY <1>0, <1>1, <2>3 DEF Vouched, InHand
    <3>2. Cardinality(InHand(d, c) \ {a}) = Cardinality(InHand(d, c)) - 1
      BY <2>1, <3>1, FS_RemoveElement
    <3>3. /\ Cardinality(Vouched(d, c) \cup {k}) \in {Cardinality(Vouched(d, c)), Cardinality(Vouched(d, c)) + 1}
      BY <2>1, FS_AddElement
    <3> QED
      BY <2>1, <2>2, <3>1, <3>2, <3>3
  <2>4. CASE ~(d = s /\ c = conceptOf[k])
    <3>1. Vouched(d, c)' = Vouched(d, c) /\ InHand(d, c)' = InHand(d, c)
      BY <1>0, <1>1, <2>4 DEF Vouched, InHand
    <3> QED
      BY <2>2, <3>1
  <2> QED
    BY <2>3, <2>4
<1>3. ASSUME NEW d \in Students PROVE IsFiniteSet(vouched'[d])
  <2>1. IsFiniteSet(vouched[d])
    BY DEF MInv, Tallied
  <2>2. IsFiniteSet(vouched[d] \cup {k})
    BY <2>1, FS_AddElement
  <2> QED
    BY <1>1, <2>1, <2>2
<1>4. \A b \in counted' : /\ answer'[b].step \in {"refresh", "level", "save"}
                          /\ conceptOf[answer'[b].checkpoint] \in Concepts
  BY <1>0 DEF MInv, Tallied
<1> QED
  BY <1>2, <1>3, <1>4 DEF Tallied

LEMMA OtherStepsKeep ==
  ASSUME MInv, NEW a \in Answers, RowRefreshed(a) \/ AnswerSaved(a) \/ AnswerFails(a)
  PROVE  MInv'
<1> USE MasteryAssumption, LearnersAssumption
<1>0. PICK s, k, c :
        s = answer[a].student /\ k = answer[a].checkpoint /\ c = conceptOf[k]
  OBVIOUS
<1>1. /\ mastery' = mastery
      /\ \A b \in Answers \ {a} : answer'[b] = answer[b]
  BY DEF RowRefreshed, AnswerSaved, AnswerFails, MInv, MasteryTypeOK
<1>2. ASSUME NEW d \in Students, NEW e \in Concepts
      PROVE  /\ mastery[d][e] \in MasteryRowType
             /\ SoundRow(mastery[d][e]) /\ Grows(mastery[d][e], mastery[d][e])
  BY DEF MInv, MasteryTypeOK, MasteryRowType, Grows
<1>3. CASE RowRefreshed(a)
  <2>1. PICK new : new = Answer("level", s, k, answer[a].right, mastery[s][c])
    OBVIOUS
  <2>2. /\ saved' = saved /\ answer'[a] = new /\ answer' = [answer EXCEPT ![a] = new]
        /\ s \in Students /\ k \in Checkpoints /\ c \in Concepts
        /\ mastery[s][c].attempts > 0 /\ a \in counted /\ UNCHANGED <<counted, vouched>>
    BY <1>0, <1>3, <2>1 DEF RowRefreshed, MInv, MasteryTypeOK, Relies, tally
  <2>3. MasteryTypeOK'
    <3>1. new \in [step : {"idle", "count", "refresh", "level", "save"},
                   student : Students \cup {Nil}, checkpoint : Checkpoints \cup {Nil},
                   right : BOOLEAN, row : MasteryRowType]
      BY <1>2, <2>1, <2>2 DEF Answer, MInv, MasteryTypeOK
    <3> QED
      BY <1>1, <2>2, <3>1 DEF MInv, MasteryTypeOK
  <2>4. Relies(a)'
    <3>1. OfCounted(Ratio(mastery[s][c].correct, mastery[s][c].attempts), mastery[s][c])
      BY <1>2, <2>2 DEF SoundRow, OfCounted, Ratio, MasteryRowType
    <3>2. /\ new.step = "level" /\ new.student = s /\ new.checkpoint = k
          /\ new.row = mastery[s][c]
      BY <2>1 DEF Answer
    <3>3. OfCounted(Ratio(new.row.correct, new.row.attempts), mastery[s][c]) /\ new.row.attempts > 0
      BY <2>2, <3>1, <3>2
    <3>4. a \in counted' /\ mastery'[s][c].attempts > 0
      BY <1>1, <2>2
    <3>5. /\ answer'[a].step = "level" /\ answer'[a].student = s /\ answer'[a].checkpoint = k
          /\ answer'[a].row = new.row
      BY <2>2, <3>2
    <3>6. OfCounted(Ratio(answer'[a].row.correct, answer'[a].row.attempts), mastery'[s][c])
          /\ answer'[a].row.attempts > 0
      BY <1>1, <3>3, <3>5
    <3> QED
      BY <1>0, <2>2, <3>4, <3>5, <3>6 DEF Relies
  <2>5. answer'[a].step # "count"
    BY <2>1, <2>2 DEF Answer
  <2> QED
    <3>1. Tallied'
      BY <1>0, <1>1, <2>1, <2>2, TallyStays DEF Answer, tally
    <3> QED
      BY <1>1, <1>2, <2>2, <2>3, <2>4, <2>5, <3>1, NothingCounted DEF MInv, SavedCounts
<1>4. CASE AnswerSaved(a) \/ AnswerFails(a)
  <2>1. answer' = [answer EXCEPT ![a] = NoAnswer] /\ answer'[a] = NoAnswer
    BY <1>4 DEF AnswerSaved, AnswerFails, MInv, MasteryTypeOK
  <2>2. answer' \in [Answers -> [step : {"idle", "count", "refresh", "level", "save"},
                             student : Students \cup {Nil}, checkpoint : Checkpoints \cup {Nil},
                             right : BOOLEAN, row : MasteryRowType]]
    <3>1. NoAnswer \in [step : {"idle", "count", "refresh", "level", "save"},
                   student : Students \cup {Nil}, checkpoint : Checkpoints \cup {Nil},
                   right : BOOLEAN, row : MasteryRowType]
      BY DEF NoAnswer, Answer, NoRow, MasteryRow, MasteryRowType, Ratio
    <3> QED
      BY <2>1, <3>1 DEF MInv, MasteryTypeOK
  <2>3. /\ saved' \in [Students -> [Checkpoints -> {"none", "right", "wrong"}]] /\ SavedCounts'
        /\ vouched' \in [Students -> SUBSET Checkpoints] /\ Tallied'
    <3>1. CASE AnswerFails(a)
      <4>1. saved' = saved /\ vouched' = vouched /\ counted' = counted \ {a}
        BY <3>1 DEF AnswerFails
      <4>2. Tallied'
        BY <1>1, <4>1, LetGo DEF MInv
      <4> QED
        BY <1>1, <4>1, <4>2 DEF MInv, MasteryTypeOK, SavedCounts
    <3>2. CASE AnswerSaved(a)
      <4>1. PICK new \in {"right", "wrong"} :
              saved' = [saved EXCEPT ![s] = [saved[s] EXCEPT ![k] = new]]
        BY <1>0, <3>2 DEF AnswerSaved
      <4>2. s \in Students /\ k \in Checkpoints
            /\ (c # Nil => a \in counted \/ mastery[s][c].attempts >= MASTERY_ATTEMPT_CAP)
        BY <1>0, <3>2 DEF AnswerSaved, MInv, Relies
      <4>3. /\ vouched' = [vouched EXCEPT ![s] = IF a \in counted THEN vouched[s] \cup {k} ELSE vouched[s] \ {k}]
            /\ counted' = counted \ {a}
        BY <1>0, <3>2 DEF AnswerSaved
      <4>4. vouched' \in [Students -> SUBSET Checkpoints]
        BY <4>2, <4>3 DEF MInv, MasteryTypeOK
      <4>5. SavedCounts'
        <5> SUFFICES ASSUME NEW d \in Students, NEW m \in Checkpoints,
                            saved'[d][m] # "none", conceptOf[m] # Nil, m \notin vouched'[d]
                     PROVE  mastery[d][conceptOf[m]].attempts >= MASTERY_ATTEMPT_CAP
          BY <1>1 DEF SavedCounts
        <5>1. CASE d = s /\ m = k
          BY <1>0, <4>2, <4>3, <5>1 DEF MInv, MasteryTypeOK
        <5>2. CASE ~(d = s /\ m = k)
          <6>1. saved'[d][m] = saved[d][m]
            BY <4>1, <4>2, <5>2 DEF MInv, MasteryTypeOK
          <6>2. m \in vouched[d] => m \in vouched'[d]
            BY <4>2, <4>3, <5>2 DEF MInv, MasteryTypeOK
          <6> QED
            BY <6>1, <6>2 DEF MInv, SavedCounts
        <5> QED
          BY <5>1, <5>2
      <4>6. Tallied'
        <5>1. CASE a \notin counted
          <6>1. counted' = counted /\ vouched' = [vouched EXCEPT ![s] = vouched[s] \ {k}]
            BY <4>3, <5>1
          <6>2. \A d \in Students : vouched'[d] \subseteq vouched[d]
            BY <4>2, <6>1 DEF MInv, MasteryTypeOK
          <6> QED
            BY <1>1, <4>3, <6>2, LetGo DEF MInv
        <5>2. CASE a \in counted
          BY <1>0, <1>1, <4>2, <4>3, <5>2, Vouches
        <5> QED
          BY <5>1, <5>2
      <4> QED
        BY <4>1, <4>2, <4>4, <4>5, <4>6 DEF MInv, MasteryTypeOK
    <3> QED
      BY <1>4, <3>1, <3>2
  <2>4. MasteryTypeOK'
    <3>1. counted' \subseteq Answers
      BY <1>4 DEF AnswerSaved, AnswerFails, MInv, MasteryTypeOK
    <3> QED
      BY <1>1, <2>2, <2>3, <3>1 DEF MInv, MasteryTypeOK
  <2>5. Relies(a)' /\ answer'[a].step # "count"
    BY <2>1 DEF Relies, NoAnswer, Answer
  <2>6. \A b \in Answers \ {a} : b \in counted => b \in counted'
    BY <1>4 DEF AnswerSaved, AnswerFails
  <2> QED
    BY <1>1, <1>2, <2>3, <2>4, <2>5, <2>6, NothingCounted DEF MInv
<1> QED
  BY <1>3, <1>4

LEMMA MasteryInvariance == MasterySpec => []MInv
<1>1. ASSUME MInv, [MasteryNext]_masteryVars
      PROVE  MInv'
  <2>1. CASE UNCHANGED masteryVars
    BY <1>1, <2>1 DEF masteryVars, tally, MInv, MasteryTypeOK, Relies, SavedCounts, Tallied,
       Vouched, InHand, Uncounted
  <2>2. CASE MasteryNext
    BY <1>1, <2>2, PostedKeeps, CountedKeeps, LevelKeeps, OtherStepsKeep
       DEF MasteryNext
  <2> QED
    BY <1>1, <2>1, <2>2
<1> QED
  BY <1>1, InitMInv, PTL DEF MasterySpec

\* Whatever statements fail and however answers interleave, the counters lose no
\* answer, the level is of answers that counted, a saved answer below the cap has
\* counted, and the cap is overshot by at most one answer for each other answer under way.
THEOREM MasterySafety ==
  MasterySpec => [](/\ MasteryTypeOK /\ OvershootIsBounded
                    /\ LevelIsOfCountedAnswers /\ SavedIsCounted)
<1>1. ASSUME MInv
      PROVE  OvershootIsBounded /\ LevelIsOfCountedAnswers
  <2>1. OvershootIsBounded
    <3> SUFFICES ASSUME NEW s \in Students, NEW c \in Concepts
                 PROVE  mastery[s][c].attempts <= MASTERY_ATTEMPT_CAP + Cardinality(Answers) - 1
      BY DEF OvershootIsBounded
    <3>1. mastery[s][c].attempts \in Nat
      BY <1>1 DEF MInv, MasteryTypeOK, MasteryRowType
    <3> QED
      BY <1>1, <3>1, UncountedIsFinite, MasteryAssumption DEF MInv
  <2>2. LevelIsOfCountedAnswers
    BY <1>1 DEF MInv, LevelIsOfCountedAnswers, SoundRow, OfCounted
  <2> QED
    BY <2>1, <2>2
<1>2. ASSUME MInv PROVE MasteryTypeOK /\ SavedIsCounted
  <2> SUFFICES ASSUME NEW s \in Students, NEW c \in Concepts
               PROVE  Cardinality({k \in vouched[s] : conceptOf[k] = c}) <= mastery[s][c].attempts
    BY <1>2 DEF MInv, SavedCounts, SavedIsCounted
  <2>1. /\ Cardinality(Vouched(s, c)) + Cardinality(InHand(s, c)) <= mastery[s][c].attempts
        /\ mastery[s][c].attempts \in Nat
    BY <1>2 DEF MInv, Tallied, MasteryTypeOK, MasteryRowType
  <2>2. Cardinality(Vouched(s, c)) \in Nat /\ Cardinality(InHand(s, c)) \in Nat
    BY <1>2, TallyIsFinite DEF MInv
  <2> QED
    BY <2>1, <2>2 DEF Vouched
<1> QED
  BY <1>1, <1>2, MasteryInvariance, PTL

\* The level of a concept is of answers that the row has counted.
THEOREM LevelsAreCounted == MasterySpec => []LevelIsOfCountedAnswers
  BY MasterySafety, PTL

\* A saved answer has itself been counted, or its concept stands at the cap; and
\* the row holds at least one attempt for each saved answer that was counted.
THEOREM SavedAnswersCount == MasterySpec => []SavedIsCounted
  BY MasterySafety, PTL

-----------------------------------------------------------------------------
(* Lecture progress                                                           *)

TickType ==
  [step : {"idle", "lock", "attend", "count", "commit"},
   student : Students \cup {Nil}, lecture : Lectures \cup {Nil}, row : WatchRow,
   opens : BOOLEAN, marks : BOOLEAN, counts : [done : Nat, of : Nat]]

\* The row a tick is about to write, over the row that is there.
Over(row, next) ==
  /\ next.sec >= 0
  /\ row.sec <= next.sec
  /\ row.done => next.done

\* What a tick under way relies on: its subject, and once it has the lecture's row
\* lock the watch row it read.
TickRelies(p) ==
  LET x == post[p] IN
  /\ x.step # "idle" => x.student \in Students /\ x.lecture \in Lectures
  /\ InTransaction(p) => x.lecture \in lectures /\ Over(watch[x.lecture][x.student], x.row)
  /\ x.step \in {"attend", "count"} => x.row.done
  /\ x.step = "commit" /\ x.counts # NoProgress =>
       x.row.done /\ x.counts.done <= Cardinality(Completed(x.student) \cup {x.lecture})
  /\ x.marks => x.step \in {"count", "commit"} /\ marks[x.student] = "none"

WInv ==
  /\ WatchTypeOK
  /\ \A l \in Lectures, s \in Students : watch[l][s].done => watch[l][s].sec >= 0
  /\ ProgressIsEarned
  /\ \A p \in Posts : TickRelies(p)
  /\ \A p, q \in Posts :
       /\ InTransaction(p) /\ InTransaction(q) /\ post[p].lecture = post[q].lecture => p = q
       /\ post[p].marks /\ post[q].marks /\ post[p].student = post[q].student => p = q

\* The steps of the three action properties the invariant gives.
StepIsSafe ==
  /\ \A l \in Lectures, s \in Students :
       /\ watch[l][s].sec <= watch'[l][s].sec
       /\ watch[l][s].done => watch'[l][s].done
  /\ \A s \in Students : marks[s] = "teacher" => marks'[s] # "auto"

LEMMA CompletedIsFinite ==
  ASSUME WatchTypeOK, NEW s, NEW l
  PROVE  /\ IsFiniteSet(Completed(s)) /\ Cardinality(Completed(s)) \in Nat
         /\ IsFiniteSet(Completed(s) \cup {l}) /\ Cardinality(Completed(s) \cup {l}) \in Nat
         /\ IsFiniteSet(lectures) /\ Cardinality(lectures) \in Nat
<1>1. IsFiniteSet(lectures) /\ IsFiniteSet(Completed(s))
  BY ProgressAssumption, FS_Subset DEF WatchTypeOK, Completed
<1>2. IsFiniteSet(Completed(s) \cup {l})
  BY <1>1, FS_AddElement
<1> QED
  BY <1>1, <1>2, FS_CardinalityType

\* More completed lectures, no fewer of them.
LEMMA CardinalityGrows ==
  ASSUME NEW S, NEW T, S \subseteq T, IsFiniteSet(T)
  PROVE  Cardinality(S) <= Cardinality(T)
  BY FS_Subset

LEMMA InitWInv == WatchInit => WInv
<1> SUFFICES ASSUME WatchInit PROVE WInv
  OBVIOUS
<1> USE ProgressAssumption DEF WatchInit
<1>1. WatchTypeOK
  BY DEF WatchTypeOK, WatchRow, Unwatched, NoProgress, NoTick, Tick
<1>2. ProgressIsEarned
  <2>1. ASSUME NEW s \in Students PROVE progress[s].done = 0 /\ Cardinality(Completed(s)) \in Nat
    BY <1>1, CompletedIsFinite DEF NoProgress
  <2> QED
    BY <2>1 DEF ProgressIsEarned
<1>3. \A p \in Posts : TickRelies(p) /\ ~InTransaction(p) /\ ~post[p].marks
  BY DEF TickRelies, InTransaction, NoTick, Tick
<1> QED
  BY <1>1, <1>2, <1>3 DEF WInv, Unwatched

\* A step of tick p that changes no row.
LEMMA TickAlone ==
  ASSUME WInv, NEW p \in Posts, UNCHANGED watchRows, NEW tick \in TickType,
         post' = [post EXCEPT ![p] = tick], TickRelies(p)',
         InTransaction(p)' =>
           (InTransaction(p) /\ tick.lecture = post[p].lecture) \/ LectureFree(tick.lecture),
         tick.marks => (post[p].marks /\ tick.student = post[p].student) \/ MarkFree(tick.student)
  PROVE  WInv' /\ StepIsSafe
<1>1. WatchTypeOK'
  BY DEF WInv, WatchTypeOK, TickType, watchRows
<1>2. post'[p] = tick /\ \A q \in Posts \ {p} : post'[q] = post[q]
  BY DEF WInv, WatchTypeOK
<1>3. ASSUME NEW q \in Posts \ {p} PROVE TickRelies(q)'
  <2>1. TickRelies(q) /\ post'[q] = post[q] /\ (InTransaction(q)' <=> InTransaction(q))
    BY <1>2 DEF WInv, InTransaction
  <2>2. \A s : Completed(s)' = Completed(s)
    BY DEF Completed, watchRows
  <2>3. UNCHANGED <<lectures, watch, marks>>
    BY DEF watchRows
  <2> QED
    BY <2>1, <2>2, <2>3, SMTT(60) DEF TickRelies
<1>4. ASSUME NEW l \in Lectures, NEW s \in Students PROVE watch[l][s].sec <= watch[l][s].sec
  <2>1. watch[l][s] \in WatchRow
    BY DEF WInv, WatchTypeOK
  <2> QED
    BY <2>1 DEF WatchRow
<1>5. ASSUME NEW q \in Posts, NEW r \in Posts
      PROVE  /\ InTransaction(q)' /\ InTransaction(r)' /\ post'[q].lecture = post'[r].lecture => q = r
             /\ post'[q].marks /\ post'[r].marks /\ post'[q].student = post'[r].student => q = r
  BY <1>2 DEF WInv, InTransaction, LectureFree, MarkFree
<1> QED
  BY <1>1, <1>3, <1>4, <1>5 DEF WInv, StepIsSafe, ProgressIsEarned, Completed, watchRows

LEMMA TickTyped ==
  ASSUME NEW step \in {"idle", "lock", "attend", "count", "commit"},
         NEW s \in Students \cup {Nil}, NEW l \in Lectures \cup {Nil}, NEW row \in WatchRow,
         NEW opens \in BOOLEAN, NEW marked \in BOOLEAN, NEW counts \in [done : Nat, of : Nat]
  PROVE  Tick(step, s, l, row, opens, marked, counts) \in TickType
  BY DEF Tick, TickType

LEMMA NoTickTyped == NoTick \in TickType /\ Unwatched \in WatchRow /\ NoProgress \in [done : Nat, of : Nat]
  BY DEF NoTick, Tick, TickType, Unwatched, WatchRow, NoProgress

LEMMA ReadAndAbortKeep ==
  ASSUME WInv, NEW p \in Posts,
         WatchAbort(p) \/ \E s \in Students, l \in Lectures : WatchRead(p, s, l)
  PROVE  WInv' /\ StepIsSafe
<1>1. CASE WatchAbort(p)
  <2>1. UNCHANGED watchRows /\ post' = [post EXCEPT ![p] = NoTick] /\ post'[p] = NoTick
    BY <1>1 DEF WatchAbort, WInv, WatchTypeOK
  <2>2. TickRelies(p)' /\ ~InTransaction(p)' /\ ~NoTick.marks
    BY <2>1 DEF TickRelies, InTransaction, NoTick, Tick
  <2> QED
    BY <2>1, <2>2, NoTickTyped, TickAlone
<1>2. ASSUME NEW s \in Students, NEW l \in Lectures, WatchRead(p, s, l)
      PROVE  WInv' /\ StepIsSafe
  <2>1. PICK tick : tick = Tick("lock", s, l, Unwatched, FALSE, FALSE, NoProgress)
    OBVIOUS
  <2>2. UNCHANGED watchRows /\ post' = [post EXCEPT ![p] = tick] /\ post'[p] = tick
    BY <1>2, <2>1 DEF WatchRead, WInv, WatchTypeOK
  <2>3. TickRelies(p)' /\ ~InTransaction(p)' /\ ~tick.marks
    BY <2>1, <2>2 DEF TickRelies, InTransaction, Tick
  <2>4. tick \in TickType
    BY <2>1, NoTickTyped, TickTyped
  <2> QED
    BY <2>2, <2>3, <2>4, TickAlone
<1> QED
  BY <1>1, <1>2

\* The high-water mark, and completion that sticks.
LEMMA NextRowIsOver ==
  ASSUME NEW prior \in WatchRow, NEW watched \in Nat, NEW total \in Nat, NEW claimed \in BOOLEAN,
         NEW length \in Nat
  PROVE  /\ NextRow(prior, watched, total, claimed, length) \in WatchRow
         /\ Over(prior, NextRow(prior, watched, total, claimed, length))
  BY DEF NextRow, clampWatchedSec, watchProgressCompletes, WatchRow, Over

LEMMA LockKeeps ==
  ASSUME WInv, NEW p \in Posts, NEW watched \in Seconds, NEW total \in Seconds,
         NEW claimed \in BOOLEAN, WatchLock(p, watched, total, claimed)
  PROVE  WInv' /\ StepIsSafe
<1> USE ProgressAssumption
<1>0. PICK s, l, row, step, tick :
        /\ s = post[p].student /\ l = post[p].lecture
        /\ row = NextRow(watch[l][s], watched, total, claimed, duration[l])
        /\ step = IF row.done /\ ~watch[l][s].done THEN "attend" ELSE "commit"
        /\ tick = Tick(step, s, l, row, FALSE, FALSE, NoProgress)
  OBVIOUS
<1>1. /\ s \in Students /\ l \in Lectures /\ l \in lectures /\ LectureFree(l)
      /\ UNCHANGED watchRows /\ post' = [post EXCEPT ![p] = tick] /\ post'[p] = tick
  BY <1>0 DEF WatchLock, WInv, WatchTypeOK, TickRelies
<1>2. row \in WatchRow /\ Over(watch[l][s], row)
  <2>1. watch[l][s] \in WatchRow /\ watched \in Nat /\ total \in Nat /\ duration[l] \in Nat
    BY <1>1 DEF WInv, WatchTypeOK
  <2> QED
    BY <1>0, <2>1, NextRowIsOver
<1>3. tick \in TickType
  BY <1>0, <1>1, <1>2, NoTickTyped, TickTyped
<1>4. /\ tick.step = step /\ tick.student = s /\ tick.lecture = l /\ tick.row = row
      /\ ~tick.marks /\ tick.counts = NoProgress
  BY <1>0 DEF Tick
<1>5. step \in {"attend", "commit"} /\ (step = "attend" => row.done)
  BY <1>0
<1>6. TickRelies(p)'
  BY <1>1, <1>2, <1>4, <1>5 DEF TickRelies, watchRows
<1> QED
  BY <1>1, <1>3, <1>4, <1>6, TickAlone

LEMMA AttendKeeps ==
  ASSUME WInv, NEW p \in Posts, WatchAttend(p)
  PROVE  WInv' /\ StepIsSafe
<1>0. PICK s, l, row, marked, tick :
        /\ s = post[p].student /\ l = post[p].lecture /\ row = post[p].row
        /\ marked = (marks[s] = "none")
        /\ tick = Tick("count", s, l, row, ~session, marked, NoProgress)
  OBVIOUS
<1>1. /\ s \in Students /\ l \in Lectures /\ l \in lectures /\ Over(watch[l][s], row) /\ row.done
      /\ marks[s] # "none" \/ MarkFree(s)
      /\ UNCHANGED watchRows /\ post' = [post EXCEPT ![p] = tick] /\ post'[p] = tick
  BY <1>0 DEF WatchAttend, WInv, WatchTypeOK, TickRelies, InTransaction
<1>2. tick \in TickType
  <2>1. row \in WatchRow
    BY <1>0 DEF WInv, WatchTypeOK
  <2>2. marked \in BOOLEAN /\ (~session) \in BOOLEAN
    BY <1>0
  <2> QED
    BY <1>0, <1>1, <2>1, <2>2, NoTickTyped, TickTyped
<1>3. /\ tick.step = "count" /\ tick.student = s /\ tick.lecture = l /\ tick.row = row
      /\ tick.marks = marked /\ tick.counts = NoProgress
  BY <1>0 DEF Tick
<1>4. TickRelies(p)'
  <2>1. marked => marks[s] = "none"
    BY <1>0
  <2> QED
    BY <1>1, <1>3, <2>1 DEF TickRelies, InTransaction, watchRows
<1>5. InTransaction(p) /\ tick.lecture = post[p].lecture /\ (tick.marks => MarkFree(tick.student))
  BY <1>0, <1>1, <1>3 DEF WatchAttend, InTransaction
<1> QED
  BY <1>1, <1>2, <1>4, <1>5, TickAlone

LEMMA CountKeeps ==
  ASSUME WInv, NEW p \in Posts, WatchCount(p)
  PROVE  WInv' /\ StepIsSafe
<1>0. PICK s, l, row, counts, tick :
        /\ s = post[p].student /\ l = post[p].lecture /\ row = post[p].row
        /\ counts = [done |-> Cardinality(Completed(s) \cup {l}), of |-> Cardinality(lectures)]
        /\ tick = Tick("commit", s, l, row, post[p].opens, post[p].marks, counts)
  OBVIOUS
<1>1. /\ s \in Students /\ l \in Lectures /\ l \in lectures /\ Over(watch[l][s], row) /\ row.done
      /\ UNCHANGED watchRows /\ post' = [post EXCEPT ![p] = tick] /\ post'[p] = tick
      /\ InTransaction(p) /\ (post[p].marks => marks[s] = "none")
  BY <1>0 DEF WatchCount, WInv, WatchTypeOK, TickRelies, InTransaction
<1>2. Cardinality(Completed(s) \cup {l}) \in Nat /\ Cardinality(lectures) \in Nat
  BY CompletedIsFinite DEF WInv
<1>3. tick \in TickType
  <2>1. row \in WatchRow /\ post[p].opens \in BOOLEAN /\ post[p].marks \in BOOLEAN
    BY <1>0 DEF WInv, WatchTypeOK
  <2>2. counts \in [done : Nat, of : Nat]
    BY <1>0, <1>2
  <2> QED
    BY <1>0, <1>1, <2>1, <2>2, TickTyped
<1>4. /\ tick.step = "commit" /\ tick.student = s /\ tick.lecture = l /\ tick.row = row
      /\ tick.marks = post[p].marks /\ tick.counts = counts
  BY <1>0 DEF Tick
<1>5. TickRelies(p)'
  <2>1. counts.done <= Cardinality(Completed(s) \cup {l})'
    BY <1>0, <1>1, <1>2 DEF Completed, watchRows
  <2> QED
    BY <1>1, <1>4, <2>1 DEF TickRelies, watchRows
<1> QED
  BY <1>0, <1>1, <1>3, <1>4, <1>5, TickAlone

\* The commit: the row goes over the one the tick read, since the lecture was locked
\* meanwhile, and the counts can only have been overtaken by more completions.
LEMMA CommitKeeps ==
  ASSUME WInv, NEW p \in Posts, WatchCommit(p)
  PROVE  WInv' /\ StepIsSafe
<1> USE ProgressAssumption
<1>0. PICK s, l, row, counts :
        s = post[p].student /\ l = post[p].lecture /\ row = post[p].row /\ counts = post[p].counts
  OBVIOUS
<1>1. /\ s \in Students /\ l \in Lectures /\ l \in lectures /\ InTransaction(p)
      /\ row \in WatchRow /\ Over(watch[l][s], row) /\ watch[l][s] \in WatchRow
      /\ counts \in [done : Nat, of : Nat]
      /\ counts # NoProgress => row.done /\ counts.done <= Cardinality(Completed(s) \cup {l})
      /\ post[p].marks => marks[s] = "none"
  <2>1. /\ TickRelies(p) /\ InTransaction(p) /\ post[p].step = "commit"
        /\ row \in WatchRow /\ counts \in [done : Nat, of : Nat]
    BY <1>0 DEF WatchCommit, WInv, WatchTypeOK, InTransaction
  <2>2. s \in Students /\ l \in Lectures
    BY <1>0, <2>1 DEF TickRelies
  <2>3. watch[l][s] \in WatchRow
    BY <2>2 DEF WInv, WatchTypeOK
  <2> QED
    BY <1>0, <2>1, <2>2, <2>3 DEF TickRelies
<1>2. /\ watch' = [watch EXCEPT ![l][s] = row] /\ lectures' = lectures /\ enrolled' = enrolled
      /\ progress' = IF counts = NoProgress \/ s \notin enrolled THEN progress ELSE [progress EXCEPT ![s] = counts]
      /\ session' = (session \/ post[p].opens)
      /\ marks' = IF post[p].marks THEN [marks EXCEPT ![s] = "auto"] ELSE marks
      /\ post' = [post EXCEPT ![p] = NoTick]
  BY <1>0 DEF WatchCommit
<1>3. ASSUME NEW m \in Lectures, NEW d \in Students
      PROVE  /\ watch'[m][d] = IF m = l /\ d = s THEN row ELSE watch[m][d]
             /\ watch'[m][d] \in WatchRow
  BY <1>1, <1>2 DEF WInv, WatchTypeOK
<1>4. WatchTypeOK'
  <2>1. watch' \in [Lectures -> [Students -> WatchRow]]
    BY <1>1, <1>2 DEF WInv, WatchTypeOK
  <2>2. progress' \in [Students -> [done : Nat, of : Nat]]
    BY <1>1, <1>2 DEF WInv, WatchTypeOK
  <2>3. session' \in BOOLEAN
    BY <1>2
  <2>4. marks' \in [Students -> {"none", "auto", "teacher"}]
    BY <1>1, <1>2 DEF WInv, WatchTypeOK
  <2>5. post' \in [Posts -> TickType]
    BY <1>2, NoTickTyped DEF WInv, WatchTypeOK, TickType
  <2>6. lectures' \subseteq Lectures /\ enrolled' \subseteq Students
    BY <1>2 DEF WInv, WatchTypeOK
  <2> QED
    BY <2>1, <2>2, <2>3, <2>4, <2>5, <2>6 DEF WatchTypeOK, TickType
<1>5. ASSUME NEW m \in Lectures, NEW d \in Students
      PROVE  /\ watch[m][d].sec <= watch'[m][d].sec
             /\ watch[m][d].done => watch'[m][d].done
             /\ watch'[m][d].done => watch'[m][d].sec >= 0
  <2>1. watch[m][d] \in WatchRow /\ (watch[m][d].done => watch[m][d].sec >= 0)
    BY DEF WInv, WatchTypeOK
  <2> QED
    BY <1>1, <1>3, <2>1 DEF Over, WatchRow
<1>6. ASSUME NEW d \in Students
      PROVE  /\ Completed(d) \subseteq Completed(d)'
             /\ IsFiniteSet(Completed(d)') /\ Cardinality(Completed(d)') \in Nat
             /\ Cardinality(Completed(d)) \in Nat
             /\ Cardinality(Completed(d)) <= Cardinality(Completed(d)')
  <2>1. Completed(d) \subseteq Completed(d)'
    BY <1>2, <1>5 DEF Completed, WInv, WatchTypeOK
  <2>2. IsFiniteSet(Completed(d)') /\ Cardinality(Completed(d)') \in Nat
    <3>1. IsFiniteSet(lectures) /\ Completed(d)' \subseteq lectures
      BY <1>2, CompletedIsFinite DEF WInv, Completed
    <3> QED
      BY <3>1, FS_Subset, FS_CardinalityType
  <2> QED
    BY <2>1, <2>2, CardinalityGrows, CompletedIsFinite DEF WInv
<1>7. ProgressIsEarned'
  <2> SUFFICES ASSUME NEW d \in Students
               PROVE  progress'[d].done <= Cardinality(Completed(d)')
    BY DEF ProgressIsEarned
  <2>1. progress[d] \in [done : Nat, of : Nat] /\ progress[d].done <= Cardinality(Completed(d))
    BY DEF WInv, WatchTypeOK, ProgressIsEarned
  <2>2. CASE progress'[d] = progress[d]
    BY <1>6, <2>1, <2>2
  <2>3. CASE d = s /\ counts # NoProgress /\ progress'[d] = counts
    <3>1. Completed(s) \cup {l} \subseteq Completed(s)'
      <4>1. watch'[l][s] = row /\ row.done /\ l \in lectures'
        BY <1>1, <1>2, <1>3, <2>3
      <4>2. l \in Completed(s)'
        BY <4>1 DEF Completed
      <4> QED
        BY <1>1, <1>6, <4>2
    <3>2. Cardinality(Completed(s) \cup {l}) <= Cardinality(Completed(s)')
      BY <1>1, <1>6, <3>1, CardinalityGrows
    <3>3. Cardinality(Completed(s) \cup {l}) \in Nat
      BY CompletedIsFinite DEF WInv
    <3> QED
      BY <1>1, <1>6, <2>3, <3>2, <3>3
  <2> QED
    BY <1>1, <1>2, <2>2, <2>3 DEF WInv, WatchTypeOK
<1>8. /\ post'[p] = NoTick /\ ~InTransaction(p)' /\ ~post'[p].marks
      /\ \A q \in Posts \ {p} : post'[q] = post[q] /\ (InTransaction(q)' <=> InTransaction(q))
  BY <1>2 DEF WInv, WatchTypeOK, InTransaction, NoTick, Tick
<1>9. ASSUME NEW q \in Posts PROVE TickRelies(q)'
  <2>1. CASE q = p
    BY <1>8, <2>1 DEF TickRelies, NoTick, Tick
  <2>2. CASE q # p
    <3>1. PICK d, m : d = post[q].student /\ m = post[q].lecture
      OBVIOUS
    <3>2. post'[q] = post[q] /\ TickRelies(q) /\ (InTransaction(q)' <=> InTransaction(q))
      BY <1>8, <2>2 DEF WInv
    <3>3. InTransaction(q) => m # l
      BY <1>0, <1>1, <2>2, <3>1 DEF WInv
    <3>4. InTransaction(q) => m \in lectures' /\ Over(watch'[m][d], post[q].row)
      <4>1. InTransaction(q) => d \in Students /\ m \in Lectures
        BY <3>1, <3>2 DEF TickRelies, InTransaction
      <4> QED
        BY <1>2, <1>3, <3>1, <3>2, <3>3, <4>1 DEF TickRelies
    <3>5. post[q].step = "commit" /\ post[q].counts # NoProgress =>
            post[q].row.done /\ post[q].counts.done <= Cardinality((Completed(d) \cup {m})')
      <4> SUFFICES ASSUME post[q].step = "commit", post[q].counts # NoProgress
                   PROVE  /\ post[q].row.done
                          /\ post[q].counts.done <= Cardinality((Completed(d) \cup {m})')
        OBVIOUS
      <4>1. /\ d \in Students /\ post[q].row.done
            /\ post[q].counts.done <= Cardinality(Completed(d) \cup {m})
            /\ post[q].counts.done \in Nat
        BY <3>1, <3>2 DEF TickRelies, WInv, WatchTypeOK
      <4>2. IsFiniteSet(Completed(d)' \cup {m}) /\ Completed(d) \cup {m} \subseteq Completed(d)' \cup {m}
        BY <1>6, <4>1, FS_AddElement
      <4>3. /\ Cardinality(Completed(d) \cup {m}) <= Cardinality(Completed(d)' \cup {m})
            /\ Cardinality(Completed(d) \cup {m}) \in Nat /\ Cardinality(Completed(d)' \cup {m}) \in Nat
        BY <4>2, CardinalityGrows, CompletedIsFinite, FS_CardinalityType DEF WInv
      <4> QED
        BY <4>1, <4>3
    <3>6. post[q].marks => marks'[d] = "none"
      <4>1. post[q].marks => d \in Students /\ marks[d] = "none" /\ ~(post[p].marks /\ d = s)
        BY <1>0, <2>2, <3>1, <3>2 DEF WInv, TickRelies
      <4> QED
        BY <1>1, <1>2, <4>1 DEF WInv, WatchTypeOK
    <3> QED
      BY <3>1, <3>2, <3>4, <3>5, <3>6 DEF TickRelies
  <2> QED
    BY <2>1, <2>2
<1>10. \A d \in Students : marks[d] = "teacher" => marks'[d] # "auto"
  BY <1>1, <1>2 DEF WInv, WatchTypeOK
<1>11. ASSUME NEW q \in Posts, NEW r \in Posts
       PROVE  /\ InTransaction(q)' /\ InTransaction(r)' /\ post'[q].lecture = post'[r].lecture => q = r
              /\ post'[q].marks /\ post'[r].marks /\ post'[q].student = post'[r].student => q = r
  BY <1>8 DEF WInv
<1> QED
  BY <1>4, <1>5, <1>7, <1>9, <1>10, <1>11 DEF WInv, StepIsSafe

\* The author, the roll call and the join: no tick moves.  What they change is not
\* what a tick relies on, as long as they respect the locks.
LEMMA LecturesKeep ==
  ASSUME WInv, NEW l \in Lectures, CreateLecture(l) \/ DeleteLecture(l)
  PROVE  WInv' /\ StepIsSafe
<1>1. /\ UNCHANGED <<enrolled, watch, progress, session, marks, post>>
      /\ lectures' \subseteq Lectures
  BY DEF CreateLecture, DeleteLecture, WInv, WatchTypeOK
<1>2. WatchTypeOK'
  BY <1>1 DEF WInv, WatchTypeOK
<1>3. ASSUME NEW s \in Students PROVE Completed(s) \subseteq Completed(s)'
  <2>1. CASE CreateLecture(l)
    BY <1>1, <2>1 DEF CreateLecture, Completed
  <2>2. CASE DeleteLecture(l)
    <3>1. ~watch[l][s].done
      <4>1. watch[l][s].sec = -1 /\ (watch[l][s].done => watch[l][s].sec >= 0)
        BY <2>2 DEF DeleteLecture, Unseen, WInv
      <4> QED
        BY <4>1
    <3> QED
      BY <1>1, <2>2, <3>1 DEF DeleteLecture, Completed
  <2> QED
    BY <2>1, <2>2
<1>4. ASSUME NEW s \in Students
      PROVE  /\ Cardinality(Completed(s)) <= Cardinality(Completed(s)')
             /\ Cardinality(Completed(s)) \in Nat /\ Cardinality(Completed(s)') \in Nat
             /\ IsFiniteSet(Completed(s)')
  <2>1. IsFiniteSet(Completed(s)')
    <3>1. Completed(s)' \subseteq Lectures
      BY <1>1 DEF Completed
    <3> QED
      BY <3>1, ProgressAssumption, FS_Subset
  <2>2. Cardinality(Completed(s)) \in Nat
    BY CompletedIsFinite DEF WInv
  <2>3. Cardinality(Completed(s)) <= Cardinality(Completed(s)') /\ Cardinality(Completed(s)') \in Nat
    BY <1>3, <2>1, CardinalityGrows, FS_CardinalityType
  <2> QED
    BY <2>1, <2>2, <2>3
<1>5. ProgressIsEarned'
  <2> SUFFICES ASSUME NEW s \in Students PROVE progress[s].done <= Cardinality(Completed(s)')
    BY <1>1 DEF ProgressIsEarned
  <2>1. progress[s] \in [done : Nat, of : Nat] /\ progress[s].done <= Cardinality(Completed(s))
    BY DEF WInv, WatchTypeOK, ProgressIsEarned
  <2> QED
    BY <1>4, <2>1
<1>6. ASSUME NEW p \in Posts PROVE TickRelies(p)'
  <2>1. PICK s, m : s = post[p].student /\ m = post[p].lecture
    OBVIOUS
  <2>2. post'[p] = post[p] /\ TickRelies(p) /\ (InTransaction(p)' <=> InTransaction(p))
    BY <1>1 DEF WInv, InTransaction
  <2>3. InTransaction(p) => m \in lectures'
    <3>1. CASE CreateLecture(l)
      BY <2>1, <2>2, <3>1 DEF CreateLecture, TickRelies
    <3>2. CASE DeleteLecture(l)
      BY <2>1, <2>2, <3>2 DEF DeleteLecture, TickRelies, LectureFree
    <3> QED
      BY <3>1, <3>2
  <2>4. post[p].step = "commit" /\ post[p].counts # NoProgress =>
          post[p].row.done /\ post[p].counts.done <= Cardinality((Completed(s) \cup {m})')
    <3> SUFFICES ASSUME post[p].step = "commit", post[p].counts # NoProgress
                 PROVE  post[p].row.done /\ post[p].counts.done <= Cardinality((Completed(s) \cup {m})')
      OBVIOUS
    <3>1. /\ s \in Students /\ post[p].row.done /\ post[p].counts.done \in Nat
          /\ post[p].counts.done <= Cardinality(Completed(s) \cup {m})
      BY <2>1, <2>2 DEF TickRelies, WInv, WatchTypeOK
    <3>2. IsFiniteSet(Completed(s)' \cup {m}) /\ Completed(s) \cup {m} \subseteq Completed(s)' \cup {m}
      BY <1>3, <1>4, <3>1, FS_AddElement
    <3>3. /\ Cardinality(Completed(s) \cup {m}) <= Cardinality(Completed(s)' \cup {m})
          /\ Cardinality(Completed(s) \cup {m}) \in Nat /\ Cardinality(Completed(s)' \cup {m}) \in Nat
      BY <3>2, CardinalityGrows, CompletedIsFinite, FS_CardinalityType DEF WInv
    <3> QED
      BY <3>1, <3>3
  <2> QED
    BY <1>1, <2>1, <2>2, <2>3, <2>4 DEF TickRelies
<1>7. ASSUME NEW m \in Lectures, NEW s \in Students PROVE watch[m][s].sec <= watch[m][s].sec
  <2>1. watch[m][s] \in WatchRow
    BY DEF WInv, WatchTypeOK
  <2> QED
    BY <2>1 DEF WatchRow
<1>8. \A p, q \in Posts :
        /\ InTransaction(p)' /\ InTransaction(q)' /\ post'[p].lecture = post'[q].lecture => p = q
        /\ post'[p].marks /\ post'[q].marks /\ post'[p].student = post'[q].student => p = q
  BY <1>1 DEF WInv, InTransaction
<1> QED
  BY <1>1, <1>2, <1>5, <1>6, <1>7, <1>8 DEF WInv, StepIsSafe

LEMMA MarksKeep ==
  ASSUME WInv,
         (\E roll \in SUBSET Students : RollCall(roll)) \/ (\E s \in Students : JoinLive(s))
  PROVE  WInv' /\ StepIsSafe
<1>1. /\ UNCHANGED <<lectures, enrolled, watch, progress, post>> /\ session' = TRUE
      /\ marks' \in [Students -> {"none", "auto", "teacher"}]
  BY DEF RollCall, JoinLive, WInv, WatchTypeOK
<1>2. WatchTypeOK'
  BY <1>1 DEF WInv, WatchTypeOK
<1>3. ASSUME NEW p \in Posts, post[p].marks PROVE marks'[post[p].student] = "none"
  <2>1. post[p].student \in Students /\ marks[post[p].student] = "none"
    BY <1>3 DEF WInv, TickRelies
  <2> QED
    BY <1>3, <2>1 DEF RollCall, JoinLive, MarkFree, WInv, WatchTypeOK
<1>4. ASSUME NEW p \in Posts PROVE TickRelies(p)'
  <2>1. post'[p] = post[p] /\ TickRelies(p) /\ (InTransaction(p)' <=> InTransaction(p))
    BY <1>1 DEF WInv, InTransaction
  <2>2. \A s : Completed(s)' = Completed(s)
    BY <1>1 DEF Completed
  <2> QED
    BY <1>1, <1>3, <2>1, <2>2 DEF TickRelies
<1>5. \A s \in Students : marks[s] = "teacher" => marks'[s] # "auto"
  BY DEF RollCall, JoinLive, WInv, WatchTypeOK
<1>6. ASSUME NEW m \in Lectures, NEW s \in Students PROVE watch[m][s].sec <= watch[m][s].sec
  <2>1. watch[m][s] \in WatchRow
    BY DEF WInv, WatchTypeOK
  <2> QED
    BY <2>1 DEF WatchRow
<1>7. ProgressIsEarned'
  BY <1>1 DEF WInv, ProgressIsEarned, Completed
<1>8. \A p, q \in Posts :
        /\ InTransaction(p)' /\ InTransaction(q)' /\ post'[p].lecture = post'[q].lecture => p = q
        /\ post'[p].marks /\ post'[q].marks /\ post'[p].student = post'[q].student => p = q
  BY <1>1 DEF WInv, InTransaction
<1> QED
  BY <1>1, <1>2, <1>4, <1>5, <1>6, <1>7, <1>8 DEF WInv, StepIsSafe

\* A row dropped, or made, has no progress; the ticks rely on neither.
LEMMA EnrolmentKeeps ==
  ASSUME WInv, NEW s \in Students, DropStudent(s) \/ EnrolAgain(s)
  PROVE  WInv' /\ StepIsSafe
<1>1. /\ UNCHANGED <<lectures, watch, session, marks, post>> /\ enrolled' \subseteq Students
      /\ progress' = progress \/ progress' = [progress EXCEPT ![s] = NoProgress]
  BY DEF DropStudent, EnrolAgain, WInv, WatchTypeOK
<1>2. WatchTypeOK'
  BY <1>1, NoTickTyped DEF WInv, WatchTypeOK
<1>3. \A d : Completed(d)' = Completed(d)
  BY <1>1 DEF Completed
<1>4. ProgressIsEarned'
  <2> SUFFICES ASSUME NEW d \in Students PROVE progress'[d].done <= Cardinality(Completed(d))
    BY <1>3 DEF ProgressIsEarned
  <2>1. progress[d].done <= Cardinality(Completed(d)) /\ Cardinality(Completed(d)) \in Nat
    BY CompletedIsFinite DEF WInv, ProgressIsEarned
  <2>2. progress'[d] = progress[d] \/ progress'[d].done = 0
    BY <1>1 DEF WInv, WatchTypeOK, NoProgress
  <2> QED
    BY <2>1, <2>2
<1>5. ASSUME NEW p \in Posts PROVE TickRelies(p)'
  <2>1. post'[p] = post[p] /\ TickRelies(p) /\ (InTransaction(p)' <=> InTransaction(p))
    BY <1>1 DEF WInv, InTransaction
  <2> QED
    BY <1>1, <1>3, <2>1 DEF TickRelies
<1>6. ASSUME NEW m \in Lectures, NEW d \in Students PROVE watch[m][d].sec <= watch[m][d].sec
  <2>1. watch[m][d] \in WatchRow
    BY DEF WInv, WatchTypeOK
  <2> QED
    BY <2>1 DEF WatchRow
<1>7. \A p, q \in Posts :
        /\ InTransaction(p)' /\ InTransaction(q)' /\ post'[p].lecture = post'[q].lecture => p = q
        /\ post'[p].marks /\ post'[q].marks /\ post'[p].student = post'[q].student => p = q
  BY <1>1 DEF WInv, InTransaction
<1> QED
  BY <1>1, <1>2, <1>4, <1>5, <1>6, <1>7 DEF WInv, StepIsSafe

LEMMA WatchInvariance == WatchSpec => []WInv /\ [][StepIsSafe]_watchVars
<1>1. ASSUME WInv, [WatchNext]_watchVars
      PROVE  WInv' /\ [StepIsSafe]_watchVars
  <2>1. CASE UNCHANGED watchVars
    <3>1. WatchTypeOK' /\ ProgressIsEarned'
      BY <1>1, <2>1 DEF WInv, watchVars, watchRows, WatchTypeOK, ProgressIsEarned, Completed
    <3>2. \A p \in Posts : TickRelies(p)'
      BY <1>1, <2>1 DEF WInv, watchVars, watchRows, TickRelies, InTransaction, Completed
    <3> QED
      BY <1>1, <2>1, <3>1, <3>2 DEF WInv, watchVars, watchRows, InTransaction
  <2>2. CASE WatchNext
    BY <1>1, <2>2, ReadAndAbortKeep, LockKeeps, AttendKeeps, CountKeeps, CommitKeeps,
       LecturesKeep, MarksKeep, EnrolmentKeeps
       DEF WatchNext
  <2> QED
    BY <1>1, <2>1, <2>2
<1> QED
  BY <1>1, InitWInv, PTL DEF WatchSpec

\* An enrolment's progress counts no lecture the student has not completed, for any
\* number of students, lectures and ticks, and whatever the author does meanwhile.
THEOREM ProgressSafety == WatchSpec => [](WatchTypeOK /\ ProgressIsEarned)
<1>1. WInv => WatchTypeOK /\ ProgressIsEarned
  BY DEF WInv
<1> QED
  BY <1>1, WatchInvariance, PTL

\* The session a tick opens is inserted when it marks its student, never before.
OpensLate == \A p \in Posts : post[p].opens => post[p].step \in {"count", "commit"}

LEMMA StepOpensLate == WatchTypeOK /\ OpensLate /\ [WatchNext]_watchVars => OpensLate'
<1> SUFFICES ASSUME WatchTypeOK, OpensLate, [WatchNext]_watchVars PROVE OpensLate'
  OBVIOUS
<1>1. ASSUME NEW p \in Posts, NEW tick, post' = [post EXCEPT ![p] = tick],
             tick.opens => tick.step \in {"count", "commit"}
      PROVE  OpensLate'
  BY <1>1 DEF OpensLate, WatchTypeOK
<1>2. ASSUME NEW p \in Posts, NEW s \in Students, NEW l \in Lectures, WatchRead(p, s, l) PROVE OpensLate'
  BY <1>1, <1>2 DEF WatchRead, Tick
<1>3. ASSUME NEW p \in Posts, NEW watched \in Seconds, NEW total \in Seconds, NEW claimed \in BOOLEAN,
             WatchLock(p, watched, total, claimed)
      PROVE  OpensLate'
  <2>1. PICK step, s, l, row : post' = [post EXCEPT ![p] = Tick(step, s, l, row, FALSE, FALSE, NoProgress)]
    BY <1>3 DEF WatchLock
  <2> QED
    BY <1>1, <2>1 DEF Tick
<1>4. ASSUME NEW p \in Posts, WatchAttend(p) \/ WatchCount(p) PROVE OpensLate'
  BY <1>1, <1>4 DEF WatchAttend, WatchCount, Tick
<1>5. ASSUME NEW p \in Posts, WatchCommit(p) \/ WatchAbort(p) PROVE OpensLate'
  BY <1>1, <1>5 DEF WatchCommit, WatchAbort, NoTick, Tick
<1>6. CASE post' = post
  BY <1>6 DEF OpensLate
<1> QED
  BY <1>2, <1>3, <1>4, <1>5, <1>6
  DEF WatchNext, watchVars, CreateLecture, DeleteLecture, RollCall, JoinLive, DropStudent, EnrolAgain

\* Ticks of one lecture or one day queue up and never wait in a ring: the lecture's
\* row comes first, the session and the mark of the day after it
\* (learning.routes.ts:339), and whoever has inserted these waits no more.
THEOREM TicksQueueUp == WatchSpec => []TicksDoNotRing
<1>1. WatchInit => OpensLate
  BY DEF WatchInit, OpensLate, NoTick, Tick
<1>2. WInv => WatchTypeOK
  BY DEF WInv
<1>3. WInv /\ OpensLate => TicksDoNotRing
  <2> SUFFICES ASSUME WInv, OpensLate, NEW P \in (SUBSET Posts) \ {{}}
               PROVE  \E p \in P : \A q \in P : ~TickWaitsFor(p, q)
    BY DEF TicksDoNotRing
  <2>1. ASSUME NEW p \in Posts, NEW q \in Posts, TickWaitsFor(p, q)
        PROVE  /\ post[p].step \in {"lock", "attend"}
               /\ \/ post[q].step \in {"count", "commit"}
                  \/ post[p].step = "lock" /\ post[q].step = "attend"
    BY <2>1 DEF TickWaitsFor, InTransaction, OpensLate, WInv, TickRelies
  <2>2. CASE \E p \in P : post[p].step \notin {"lock", "attend"}
    BY <2>1, <2>2
  <2>3. CASE (\A p \in P : post[p].step \in {"lock", "attend"}) /\ (\E p \in P : post[p].step = "attend")
    BY <2>1, <2>3
  <2>4. CASE \A p \in P : post[p].step = "lock"
    BY <2>1, <2>4
  <2> QED
    BY <2>2, <2>3, <2>4
<1>4. WatchSpec => []WInv
  BY WatchInvariance, PTL
<1> QED
  BY <1>1, <1>2, <1>3, <1>4, StepOpensLate, PTL DEF WatchSpec

\* Watching never rewinds or un-completes, and an automatic mark never replaces the
\* teacher's.
THEOREM WatchingOnlyGrows == WatchSpec => WatchNeverRewinds /\ TeacherMarkStands
<1>1. [StepIsSafe]_watchVars =>
        /\ [\A l \in Lectures, s \in Students :
              /\ watch[l][s].sec <= watch'[l][s].sec
              /\ watch[l][s].done => watch'[l][s].done]_watchVars
        /\ [\A s \in Students : marks[s] = "teacher" => marks'[s] # "auto"]_watchVars
  BY DEF StepIsSafe
<1> QED
  BY <1>1, WatchInvariance, PTL DEF WatchNeverRewinds, TeacherMarkStands

\* No automatic mark replaces one the teacher has set.
THEOREM TeacherMarksStand == WatchSpec => TeacherMarkStands
  BY WatchingOnlyGrows

-----------------------------------------------------------------------------
(* Training.  The lessons and the completion of a track change only under the  *)
(* lock of its enrollment, so what a completion found under the lock still     *)
(* holds when it commits.                                                      *)

Completion == [step : {"idle", "lock", "milestones", "commit"}, lesson : Lessons \cup {NoLesson},
               done : BOOLEAN, new : BOOLEAN, whole : BOOLEAN, first : BOOLEAN]

Whole(l) == LessonsOf(trackOf[l]) \subseteq lessonsDone \cup {l} /\ enrollment[trackOf[l]] # "completed"

\* What a request q knows.
Found(q) ==
  /\ q.step # "idle" => q.lesson \in Lessons /\ (q.done => enrollment[trackOf[q.lesson]] = "completed")
  /\ q.step \in {"milestones", "commit"} =>
       (q.new <=> q.lesson \notin lessonsDone) /\ (q.whole <=> Whole(q.lesson))
  /\ q.step = "commit" => q.first \/ firstStep

\* Two requests that hold a lock complete lessons of two tracks.
Exclude(p, q) ==
  p.step \in {"milestones", "commit"} /\ q.step \in {"milestones", "commit"} => trackOf[p.lesson] # trackOf[q.lesson]

CInv ==
  /\ TrainingTypeOK
  /\ AwardsMatchProgress
  /\ \A r \in Completions : Found(completion[r])
  /\ \A r, p \in Completions : r # p => Exclude(completion[r], completion[p])

LEMMA NotCompletingFound == NotCompleting \in Completion /\ NotCompleting.step = "idle"
  BY DEF NotCompleting, Completion

LEMMA InitCInv == TrainingInit => CInv
<1> SUFFICES ASSUME TrainingInit PROVE CInv
  OBVIOUS
<1>1. TrainingTypeOK
  BY NotCompletingFound DEF TrainingInit, TrainingTypeOK, Completion
<1>2. AwardsMatchProgress
  BY DEF TrainingInit, AwardsMatchProgress
<1> QED
  BY <1>1, <1>2, NotCompletingFound DEF TrainingInit, CInv, Found, Exclude

\* A step of one request that writes no row.
LEMMA RequestMoves ==
  ASSUME CInv, NEW r \in Completions, NEW to \in Completion, completion' = [completion EXCEPT ![r] = to],
         UNCHANGED awards, Found(to), \A p \in Completions \ {r} : Exclude(to, completion[p])
  PROVE  CInv'
<1>1. /\ completion' \in [Completions -> Completion] /\ completion'[r] = to
      /\ \A p \in Completions \ {r} : completion'[p] = completion[p]
  BY DEF CInv, TrainingTypeOK, Completion
<1>2. TrainingTypeOK'
  BY <1>1 DEF CInv, TrainingTypeOK, Completion, awards
<1>3. AwardsMatchProgress'
  BY DEF CInv, AwardsMatchProgress, awards
<1>4. ASSUME NEW p \in Completions PROVE Found(completion[p])'
  BY <1>1 DEF CInv, Found, Whole, awards
<1>5. ASSUME NEW p \in Completions, NEW q \in Completions, p # q PROVE Exclude(completion[p], completion[q])'
  BY <1>1, <1>5 DEF CInv, Exclude
<1> QED
  BY <1>2, <1>3, <1>4, <1>5 DEF CInv

LEMMA CompleteKeeps == ASSUME CInv, NEW r \in Completions, CompleteCommit(r) PROVE CInv'
<1> DEFINE q == completion[r]  l == completion[r].lesson  k == trackOf[completion[r].lesson]
<1>1. /\ q.step = "commit" /\ (q.first => ~firstStep)
      /\ enrollment' = [enrollment EXCEPT ![k] = IF q.whole \/ enrollment[k] = "completed" THEN "completed" ELSE "open"]
      /\ lessonsDone' = lessonsDone \cup {l}
      /\ lessonPoints' = IF q.new THEN [lessonPoints EXCEPT ![l] = @ + 1] ELSE lessonPoints
      /\ trackAwards' = IF q.whole THEN [trackAwards EXCEPT ![k] = @ + 1] ELSE trackAwards
      /\ firstStep' = (firstStep \/ q.first)
      /\ completion' = [completion EXCEPT ![r] = NotCompleting]
  BY DEF CompleteCommit, Track
<1>2. /\ l \in Lessons /\ k \in Tracks /\ q \in Completion
      /\ (q.new <=> l \notin lessonsDone) /\ (q.whole <=> Whole(l)) /\ (q.first \/ firstStep)
  BY <1>1, TrainingAssumption DEF CInv, Found, TrainingTypeOK, Completion
<1>3. /\ completion' \in [Completions -> Completion] /\ completion'[r] = NotCompleting
      /\ \A p \in Completions \ {r} : completion'[p] = completion[p]
  BY <1>1, NotCompletingFound DEF CInv, TrainingTypeOK, Completion
<1>4. TrainingTypeOK'
  <2>1. enrollment' \in [Tracks -> {"none", "open", "completed"}] /\ lessonsDone' \subseteq Lessons
    BY <1>1, <1>2 DEF CInv, TrainingTypeOK
  <2>2. lessonPoints' \in [Lessons -> Nat]
    BY <1>1, <1>2 DEF CInv, TrainingTypeOK
  <2>3. trackAwards' \in [Tracks -> Nat]
    BY <1>1, <1>2 DEF CInv, TrainingTypeOK
  <2>4. firstStep' \in BOOLEAN
    BY <1>1
  <2> QED
    BY <1>3, <2>1, <2>2, <2>3, <2>4 DEF TrainingTypeOK, Completion
<1>5. \A j \in Tracks : (enrollment'[j] = "completed") <=> (enrollment[j] = "completed" \/ (j = k /\ q.whole))
  BY <1>1, <1>2 DEF CInv, TrainingTypeOK
<1>6. AwardsMatchProgress'
  <2>1. ASSUME NEW j \in Tracks PROVE trackAwards'[j] = IF enrollment'[j] = "completed" THEN 1 ELSE 0
    <3>1. trackAwards[j] = (IF enrollment[j] = "completed" THEN 1 ELSE 0) /\ trackAwards \in [Tracks -> Nat]
      BY DEF CInv, AwardsMatchProgress, TrainingTypeOK
    <3>2. q.whole => enrollment[k] # "completed"
      BY <1>2 DEF Whole
    <3> QED
      BY <1>1, <1>2, <1>5, <3>1, <3>2
  <2>2. ASSUME NEW j \in Tracks, LessonsOf(j) # {}
        PROVE  enrollment'[j] = "completed" <=> LessonsOf(j) \subseteq lessonsDone'
    <3>1. enrollment[j] = "completed" <=> LessonsOf(j) \subseteq lessonsDone
      BY <2>2 DEF CInv, AwardsMatchProgress
    <3>2. CASE j = k
      BY <1>1, <1>2, <1>5, <3>1, <3>2 DEF Whole
    <3>3. CASE j # k
      BY <1>1, <1>5, <3>1, <3>3 DEF LessonsOf
    <3> QED
      BY <3>2, <3>3
  <2>3. ASSUME NEW n \in Lessons PROVE lessonPoints'[n] = IF n \in lessonsDone' THEN 1 ELSE 0
    <3>1. lessonPoints[n] = (IF n \in lessonsDone THEN 1 ELSE 0) /\ lessonPoints \in [Lessons -> Nat]
      BY DEF CInv, AwardsMatchProgress, TrainingTypeOK
    <3> QED
      BY <1>1, <1>2, <3>1
  <2>4. firstStep'
    BY <1>1, <1>2
  <2> QED
    BY <2>1, <2>2, <2>3, <2>4 DEF AwardsMatchProgress, LessonsOf
<1>7. ASSUME NEW p \in Completions PROVE Found(completion[p])'
  <2>1. CASE p = r
    BY <1>3, <2>1, NotCompletingFound DEF Found
  <2>2. CASE p # r
    <3> DEFINE s == completion[p]
    <3>1. completion'[p] = s /\ Found(s) /\ Exclude(s, q) /\ s \in Completion
      BY <1>3, <2>2 DEF CInv, TrainingTypeOK, Completion
    <3>2. CASE s.step = "idle"
      BY <3>1, <3>2 DEF Found
    <3>3. CASE s.step # "idle"
      <4>1. s.lesson \in Lessons /\ trackOf[s.lesson] \in Tracks
        BY <3>1, <3>3, TrainingAssumption DEF Found
      <4>2. s.done => enrollment'[trackOf[s.lesson]] = "completed"
        BY <1>5, <3>1, <3>3, <4>1 DEF Found
      <4>3. ASSUME s.step \in {"milestones", "commit"}
            PROVE  (s.new <=> s.lesson \notin lessonsDone') /\ (s.whole <=> Whole(s.lesson)')
        <5>1. trackOf[s.lesson] # k
          BY <1>1, <3>1, <4>3 DEF Exclude
        <5>2. s.lesson \notin lessonsDone <=> s.lesson \notin lessonsDone'
          BY <1>1, <5>1
        <5>3. Whole(s.lesson)' <=> Whole(s.lesson)
          BY <1>1, <1>5, <4>1, <5>1 DEF Whole, LessonsOf
        <5> QED
          BY <3>1, <4>3, <5>2, <5>3 DEF Found
      <4>4. s.step = "commit" => s.first \/ firstStep'
        BY <1>1, <3>1 DEF Found
      <4> QED
        BY <3>1, <4>1, <4>2, <4>3, <4>4 DEF Found
    <3> QED
      BY <3>2, <3>3
  <2> QED
    BY <2>1, <2>2
<1>8. ASSUME NEW p \in Completions, NEW s \in Completions, p # s PROVE Exclude(completion[p], completion[s])'
  BY <1>3, <1>8, NotCompletingFound DEF CInv, Exclude
<1> QED
  BY <1>4, <1>6, <1>7, <1>8 DEF CInv

LEMMA StepCInv == CInv /\ [TrainingNext]_trainingVars => CInv'
<1> SUFFICES ASSUME CInv, [TrainingNext]_trainingVars PROVE CInv'
  OBVIOUS
<1>a. ASSUME NEW r \in Completions
      PROVE  /\ completion[r] \in Completion /\ Found(completion[r])
             /\ \A p \in Completions \ {r} : Exclude(completion[r], completion[p])
  BY DEF CInv, TrainingTypeOK, Completion
<1>b. Found(NotCompleting) /\ \A q : Exclude(NotCompleting, q)
  BY NotCompletingFound DEF Found, Exclude
<1>0. CASE UNCHANGED trainingVars
  <2>1. UNCHANGED awards /\ completion' = completion
    BY <1>0 DEF trainingVars
  <2>2. TrainingTypeOK'
    BY <2>1 DEF CInv, TrainingTypeOK, awards
  <2>3. AwardsMatchProgress'
    BY <2>1 DEF CInv, AwardsMatchProgress, awards
  <2>4. \A r \in Completions : Found(completion[r])'
    BY <2>1 DEF CInv, Found, Whole, awards
  <2> QED
    BY <2>1, <2>2, <2>3, <2>4 DEF CInv, Exclude
<1>1. ASSUME NEW k \in Tracks, EnrollInTrack(k) PROVE CInv'
  <2>1. /\ enrollment[k] = "none" /\ enrollment' = [enrollment EXCEPT ![k] = "open"]
        /\ UNCHANGED <<lessonsDone, lessonPoints, trackAwards, firstStep, completion>>
    BY <1>1 DEF EnrollInTrack
  <2>2. TrainingTypeOK'
    BY <2>1 DEF CInv, TrainingTypeOK
  <2>3. \A j \in Tracks : enrollment'[j] = "completed" <=> enrollment[j] = "completed"
    BY <2>1 DEF CInv, TrainingTypeOK
  <2>4. AwardsMatchProgress'
    BY <2>1, <2>3 DEF CInv, AwardsMatchProgress, LessonsOf
  <2>5. ASSUME NEW r \in Completions PROVE Found(completion[r])'
    <3>1. completion[r].lesson \in Lessons => trackOf[completion[r].lesson] \in Tracks
      BY TrainingAssumption
    <3> QED
      BY <2>1, <2>3, <1>a, <3>1 DEF Found, Whole, LessonsOf
  <2> QED
    BY <2>1, <2>2, <2>4, <2>5 DEF CInv, Exclude
<1>2. ASSUME NEW r \in Completions, NEW l \in Lessons, CompleteRead(r, l) PROVE CInv'
  <2> DEFINE to == [NotCompleting EXCEPT !.step = "lock", !.lesson = l, !.done = enrollment[trackOf[l]] = "completed"]
  <2>1. /\ to \in Completion /\ to.step = "lock" /\ to.lesson = l
        /\ to.done = (enrollment[trackOf[l]] = "completed")
    BY DEF NotCompleting, Completion
  <2>2. Found(to) /\ \A p \in Completions \ {r} : Exclude(to, completion[p])
    BY <2>1 DEF Found, Exclude
  <2>3. completion' = [completion EXCEPT ![r] = to] /\ UNCHANGED awards
    BY <1>2 DEF CompleteRead
  <2> HIDE DEF to
  <2> QED
    BY <2>1, <2>2, <2>3, RequestMoves
<1>3. ASSUME NEW r \in Completions, CompleteLock(r) PROVE CInv'
  <2> DEFINE q == completion[r]
             new == q.lesson \notin lessonsDone
             whole == CompletesTrack(r) /\ ClaimsTrack(r)
             to == [q EXCEPT !.step = "milestones", !.new = new, !.whole = whole]
  <2>1. completion' = [completion EXCEPT ![r] = to] /\ UNCHANGED awards /\ q.step = "lock"
    BY <1>3, <1>a DEF CompleteLock
  <2>2. q.lesson \in Lessons /\ (q.done => enrollment[trackOf[q.lesson]] = "completed")
    BY <2>1, <1>a DEF Found
  <2>3. whole \in BOOLEAN /\ (whole <=> Whole(q.lesson))
    BY <2>2 DEF CompletesTrack, ClaimsTrack, Track, Whole
  <2>4. /\ to \in Completion /\ to.step = "milestones" /\ to.lesson = q.lesson /\ to.done = q.done
        /\ to.new = new /\ to.whole = whole
    BY <1>a, <2>3 DEF Completion
  <2>5. \A p \in Completions \ {r} :
          completion[p].step \in {"milestones", "commit"} => trackOf[q.lesson] # trackOf[completion[p].lesson]
    BY <1>3, <2>1 DEF CompleteLock, EnrollmentFree, LocksEnrollment, Track
  <2>6. Found(to) /\ \A p \in Completions \ {r} : Exclude(to, completion[p])
    BY <2>2, <2>3, <2>4, <2>5 DEF Found, Exclude
  <2> HIDE DEF to
  <2> QED
    BY <2>1, <2>4, <2>6, RequestMoves
<1>4. ASSUME NEW r \in Completions, CompleteMilestones(r) PROVE CInv'
  <2> DEFINE q == completion[r]
             first == EarnsFirstStep(r)
             to == [q EXCEPT !.step = "commit", !.first = first]
  <2>1. completion' = [completion EXCEPT ![r] = to] /\ UNCHANGED awards /\ q.step = "milestones"
    BY <1>4, <1>a DEF CompleteMilestones
  <2>2. /\ to \in Completion /\ to.step = "commit" /\ to.lesson = q.lesson /\ to.done = q.done
        /\ to.new = q.new /\ to.whole = q.whole /\ to.first = first
    BY <1>a DEF Completion, EarnsFirstStep
  <2>3. first \/ firstStep
    <3>1. CASE lessonsDone = {}
      <4>1. lessonsDone \cup {q.lesson} = {q.lesson}
        BY <3>1
      <4> QED
        BY <4>1, FS_Singleton DEF EarnsFirstStep
    <3>2. CASE lessonsDone # {}
      BY <3>2 DEF CInv, AwardsMatchProgress
    <3> QED
      BY <3>1, <3>2
  <2>4. Found(to) /\ \A p \in Completions \ {r} : Exclude(to, completion[p])
    BY <1>a, <2>1, <2>2, <2>3 DEF Found, Exclude
  <2> HIDE DEF to
  <2> QED
    BY <2>1, <2>2, <2>4, RequestMoves
<1>5. ASSUME NEW r \in Completions, CompleteCommit(r) PROVE CInv'
  BY <1>5, CompleteKeeps
<1>6. ASSUME NEW r \in Completions, CompleteFails(r) PROVE CInv'
  BY <1>6, <1>b, NotCompletingFound, RequestMoves DEF CompleteFails
<1> QED
  BY <1>0, <1>1, <1>2, <1>3, <1>4, <1>5, <1>6 DEF TrainingNext

THEOREM TrainingInvariance == TrainingSpec => []CInv
  BY InitCInv, StepCInv, PTL DEF TrainingSpec

\* Completions and awards agree, whatever completions run together.
THEOREM AwardsSafety == TrainingSpec => [](TrainingTypeOK /\ AwardsMatchProgress)
<1>1. CInv => TrainingTypeOK /\ AwardsMatchProgress
  BY DEF CInv
<1> QED
  BY <1>1, TrainingInvariance, PTL

\* What a completion found under the lock is what the contract asks at the commit.
LEMMA CommitCompletes ==
  ASSUME CInv, NEW r \in Completions, CompleteCommit(r)
  PROVE  completion[r].lesson \in Lessons /\ AwardsContract!Complete(completion[r].lesson)
<1> DEFINE q == completion[r]  l == completion[r].lesson  k == trackOf[completion[r].lesson]
<1>1. q.step = "commit" /\ Found(q)
  BY DEF CompleteCommit, CInv
<1>2. /\ l \in Lessons /\ (q.new <=> l \notin lessonsDone) /\ (q.whole <=> Whole(l)) /\ (q.first \/ firstStep)
  BY <1>1 DEF Found
<1>3. q.whole <=> AwardsContract!Completes(k, l)
  BY <1>2 DEF Whole, LessonsOf, AwardsContract!Completes
<1>4. enrollment' = [enrollment EXCEPT ![k] = IF AwardsContract!Completes(k, l) \/ enrollment[k] = "completed"
                                              THEN "completed" ELSE "open"]
  BY <1>3 DEF CompleteCommit, Track
<1>5. lessonPoints' = IF l \in lessonsDone THEN lessonPoints ELSE [lessonPoints EXCEPT ![l] = @ + 1]
  BY <1>2 DEF CompleteCommit
<1>6. trackAwards' = IF AwardsContract!Completes(k, l) THEN [trackAwards EXCEPT ![k] = @ + 1] ELSE trackAwards
  BY <1>3 DEF CompleteCommit, Track
<1>7. firstStep' = TRUE /\ lessonsDone' = lessonsDone \cup {l}
  BY <1>2 DEF CompleteCommit, CInv, TrainingTypeOK
<1> QED
  BY <1>2, <1>4, <1>5, <1>6, <1>7 DEF AwardsContract!Complete

\* Training implements Awards: enrolling and completing a lesson, with all it
\* earns, each show as one step.
THEOREM TrainingRefinesAwards == TrainingSpec => ImplementsAwards
<1>1. TrainingInit => AwardsContract!Init
  BY DEF TrainingInit, AwardsContract!Init
<1>2. CInv /\ [TrainingNext]_trainingVars => [AwardsContract!Next]_(AwardsContract!awardVars)
  <2> SUFFICES ASSUME CInv, [TrainingNext]_trainingVars
               PROVE  AwardsContract!Next \/ UNCHANGED awards
    BY DEF awards, AwardsContract!awardVars
  <2>1. ASSUME NEW k \in Tracks, EnrollInTrack(k) PROVE AwardsContract!Next
    BY <2>1 DEF EnrollInTrack, AwardsContract!Enroll, AwardsContract!Next
  <2>2. ASSUME NEW r \in Completions, CompleteCommit(r) PROVE AwardsContract!Next
    BY <2>2, CommitCompletes DEF AwardsContract!Next
  <2> QED
    BY <2>1, <2>2
    DEF TrainingNext, CompleteRead, CompleteLock, CompleteMilestones, CompleteFails, trainingVars, awards
<1> QED
  BY <1>1, <1>2, TrainingInvariance, PTL DEF TrainingSpec, ImplementsAwards, AwardsContract!Spec

-----------------------------------------------------------------------------
(* Submissions.  The student never writes a row that carries a grade, and a    *)
(* teacher only one that carries the stamp that was read.                      *)

SubmissionRow == [status : {"none", "SUBMITTED", "LATE", "GRADED"}, submittedAt : Stamp, graded : Stamp, seen : Stamp]

UInv == SubmissionsTypeOK /\ GradeIsOfWhatWasChecked

LEMMA WrittenUngraded ==
  ASSUME UInv, NEW r \in Submitters, submission.status # "GRADED"
  PROVE  Written(r) \in SubmissionRow /\ Written(r).graded = NoStamp
  BY DEF UInv, SubmissionsTypeOK, GradeIsOfWhatWasChecked, Written, SubmissionRow

LEMMA InitUInv == SubmissionsInit => UInv
  BY DEF SubmissionsInit, UInv, SubmissionsTypeOK, GradeIsOfWhatWasChecked, NoSubmission, NotSubmitting, NotGrading, Stamp

LEMMA StepUInv == UInv /\ [SubmissionsNext]_submissionVars => UInv'
<1> SUFFICES ASSUME UInv, [SubmissionsNext]_submissionVars PROVE UInv'
  OBVIOUS
<1> USE DEF SubmissionsTypeOK, Stamp
<1>0. CASE UNCHANGED submissionVars
  BY <1>0 DEF submissionVars, UInv, GradeIsOfWhatWasChecked
<1>1. ASSUME NEW r \in Submitters, NEW status \in RESUBMITTABLE_STATUSES, SubmitRead(r, status) PROVE UInv'
  <2>1. (CHOOSE t \in Stamps \ Held : TRUE) \in Stamps
    BY <1>1 DEF SubmitRead
  <2> QED
    BY <1>1, <2>1 DEF SubmitRead, RESUBMITTABLE_STATUSES, UInv, GradeIsOfWhatWasChecked
<1>2. ASSUME NEW r \in Submitters, SubmitClaim(r) PROVE UInv'
  <2>1. CASE submission.status \in RESUBMITTABLE_STATUSES
    BY <1>2, <2>1, WrittenUngraded
    DEF SubmitClaim, RESUBMITTABLE_STATUSES, SubmitEnds, NotSubmitting, UInv, GradeIsOfWhatWasChecked, SubmissionRow
  <2>2. CASE submission.status \notin RESUBMITTABLE_STATUSES
    <3>1. submission' = submission /\ grading' = grading /\ SubmitterAt(r, "find")
      BY <1>2, <2>2 DEF SubmitClaim
    <3> QED
      BY <3>1 DEF SubmitterAt, UInv, GradeIsOfWhatWasChecked
  <2> QED
    BY <2>1, <2>2
<1>3. ASSUME NEW r \in Submitters, SubmitFind(r) PROVE UInv'
  BY <1>3 DEF SubmitFind, SubmitterAt, SubmitEnds, NotSubmitting, UInv, GradeIsOfWhatWasChecked
<1>4. ASSUME NEW r \in Submitters, SubmitCreate(r) PROVE UInv'
  BY <1>4, WrittenUngraded
  DEF SubmitCreate, NoSubmission, SubmitEnds, NotSubmitting, UInv, GradeIsOfWhatWasChecked, SubmissionRow
<1>5. ASSUME NEW r \in Graders, GradeRead(r) PROVE UInv'
  <2>1. submission.submittedAt \in Stamp
    BY DEF UInv
  <2>2. submission' = submission /\ submitting' = submitting
    BY <1>5 DEF GradeRead
  <2>3. grading' \in [Graders -> [step : {"idle", "page", "claim"}, shown : Stamp, stamp : Stamp]]
    BY <1>5, <2>1 DEF GradeRead, UInv
  <2> QED
    BY <2>2, <2>3 DEF UInv, GradeIsOfWhatWasChecked
<1>6. ASSUME NEW r \in Graders, GradeClaim(r) PROVE UInv'
  <2>1. CASE SameVersion(r)
    <3>1. submission' = [submission EXCEPT !.status = "GRADED", !.graded = grading[r].stamp, !.seen = grading[r].shown]
          /\ GradeEnds(r) /\ submitting' = submitting
      BY <1>6, <2>1 DEF GradeClaim
    <3>2. grading' \in [Graders -> [step : {"idle", "page", "claim"}, shown : Stamp, stamp : Stamp]]
      BY <3>1 DEF GradeEnds, NotGrading, UInv
    <3>3. grading[r].stamp \in Stamp /\ grading[r].shown \in Stamp
      BY DEF UInv
    <3>4. /\ submission' \in SubmissionRow
          /\ submission'.status = "GRADED" /\ submission'.graded = submission'.submittedAt
      BY <2>1, <3>1, <3>3 DEF SameVersion, UInv, SubmissionRow
    <3> QED
      BY <3>1, <3>2, <3>4 DEF UInv, GradeIsOfWhatWasChecked, SubmissionRow
  <2>2. CASE ~SameVersion(r)
    <3>1. /\ submission' = submission /\ submitting' = submitting
          /\ grading' = [grading EXCEPT ![r].step = "page", ![r].stamp = NoStamp]
      BY <1>6, <2>2 DEF GradeClaim
    <3>2. grading' \in [Graders -> [step : {"idle", "page", "claim"}, shown : Stamp, stamp : Stamp]]
      BY <3>1 DEF UInv
    <3> QED
      BY <3>1, <3>2 DEF UInv, GradeIsOfWhatWasChecked
  <2> QED
    BY <2>1, <2>2
<1>7. ASSUME NEW r \in Graders, PageRead(r) PROVE UInv'
  BY <1>7 DEF PageRead, UInv, GradeIsOfWhatWasChecked
<1>8. CASE SubmissionAborts
  BY <1>8 DEF SubmissionAborts, SubmitEnds, NotSubmitting, GradeEnds, NotGrading, UInv, GradeIsOfWhatWasChecked
<1> QED
  BY <1>0, <1>1, <1>2, <1>3, <1>4, <1>5, <1>6, <1>7, <1>8 DEF SubmissionsNext

\* A grade stands only on the content its request checked, and that content stands
\* for good, whatever submissions and gradings overlap.  (That the teacher's page
\* showed it is false: GradedAsSeen.)
THEOREM GradingSafety == SubmissionsSpec => [](SubmissionsTypeOK /\ GradeIsOfWhatWasChecked)
<1>1. UInv => SubmissionsTypeOK /\ GradeIsOfWhatWasChecked
  BY DEF UInv
<1> QED
  BY <1>1, InitUInv, StepUInv, PTL DEF SubmissionsSpec

-----------------------------------------------------------------------------
(* Papers.  The student's row lock keeps what an upload found of duplicates    *)
(* true until it inserts; each status has what the claims before it wrote.     *)

PaperRow ==
  [status : {"none", "UPLOADED", "CHECKS_PASSED", "CHECKS_FAILED", "GRADED", "PUBLISHED"},
   work : Works \cup {NoPaper}, scanned : BOOLEAN, review : Reviews \cup {NoPaper}, publications : Nat]
Handled ==
  [step : {"idle", "create", "scan", "grade", "publish"}, paper : Papers \cup {NoPaper}, work : Works \cup {NoPaper}]

\* What a row of each status has been through.
Came(row) ==
  /\ row.status \in {"CHECKS_PASSED", "CHECKS_FAILED", "GRADED", "PUBLISHED"} => row.scanned
  /\ row.status \in {"GRADED", "PUBLISHED"} => row.review \in Reviews
  /\ row.publications = IF row.status = "PUBLISHED" THEN 1 ELSE 0

\* What a request knows.
Handles(r) ==
  LET q == handling[r] IN
  /\ q.step \in {"scan", "grade", "publish"} => q.paper \in Papers
  /\ q.step = "create" => studentLock = r /\ q.work \in Works /\ \A p \in recent : paper[p].work # q.work

PInv ==
  /\ PapersTypeOK
  /\ \A p \in Papers : Came(paper[p])
  /\ \A r \in PaperRequests : Handles(r)
  /\ NoDuplicateInWindow

LEMMA PaperRows ==
  /\ NotUploaded \in PaperRow /\ Came(NotUploaded)
  /\ NotHandling \in Handled /\ NotHandling.step = "idle"
  BY DEF NotUploaded, PaperRow, Came, NotHandling, Handled

LEMMA InitPInv == PapersInit => PInv
  BY PaperRows DEF PapersInit, PInv, PapersTypeOK, PaperRow, Handled, Handles, NoDuplicateInWindow

\* A step that moves one request, to a step that knows nothing or its paper, and
\* writes at most that paper, of whose work it makes no other.
LEMMA HandlerKeeps ==
  ASSUME PInv, NEW r \in PaperRequests, NEW to \in Handled,
         handling' = [handling EXCEPT ![r] = to],
         to.step # "create", to.step = "idle" \/ to.paper \in Papers,
         NEW p, NEW row \in PaperRow, p \in Papers => Came(row) /\ row.work = paper[p].work,
         paper' = paper \/ (p \in Papers /\ paper' = [paper EXCEPT ![p] = row]),
         UNCHANGED recent, studentLock' \in PaperRequests \cup {NoPaper},
         studentLock' = studentLock \/ studentLock = r
  PROVE  PInv'
<1>1. /\ PapersTypeOK'
      /\ \A q \in Papers : Came(paper'[q]) /\ paper'[q].work = paper[q].work
  BY DEF PInv, PapersTypeOK, PaperRow, Handled
<1>2. ASSUME NEW q \in PaperRequests PROVE Handles(q)'
  <2>1. CASE q = r
    BY <2>1 DEF PInv, PapersTypeOK, Handles
  <2>2. CASE q # r
    <3>1. handling'[q] = handling[q] /\ Handles(q)
      BY <2>2 DEF PInv, PapersTypeOK
    <3> QED
      BY <1>1, <2>2, <3>1 DEF Handles, PInv, PapersTypeOK
  <2> QED
    BY <2>1, <2>2
<1>3. NoDuplicateInWindow'
  BY <1>1 DEF PInv, PapersTypeOK, NoDuplicateInWindow
<1> QED
  BY <1>1, <1>2, <1>3 DEF PInv

LEMMA ClaimKeeps ==
  ASSUME PInv, NEW r \in PaperRequests, NEW step, NEW statuses, NEW row,
         step # "create", step # "idle", HandlerClaims(r, step, statuses, row),
         handling[r].step = step /\ paper[handling[r].paper].status \in statuses =>
           row \in PaperRow /\ Came(row) /\ row.work = paper[handling[r].paper].work
  PROVE  PInv'
<1>1. handling[r].paper \in Papers /\ handling[r].step = step
  BY DEF PInv, PapersTypeOK, Handles, HandlerClaims
<1>2. CASE paper[handling[r].paper].status \in statuses
  BY <1>1, <1>2, PaperRows, HandlerKeeps DEF HandlerClaims, HandlerEnds, ClaimsPaper, PInv, PapersTypeOK
<1>3. CASE paper[handling[r].paper].status \notin statuses
  <2>1. paper[handling[r].paper] \in PaperRow /\ Came(paper[handling[r].paper])
    BY <1>1 DEF PInv, PapersTypeOK, PaperRow
  <2>2. handling' = [handling EXCEPT ![r] = NotHandling] /\ UNCHANGED <<paper, recent, studentLock>>
    BY <1>3 DEF HandlerClaims, HandlerEnds, ClaimsPaper
  <2>3. studentLock \in PaperRequests \cup {NoPaper}
    BY DEF PInv, PapersTypeOK
  <2> QED
    BY <1>1, <2>1, <2>2, <2>3, PaperRows, HandlerKeeps
<1> QED
  BY <1>2, <1>3

LEMMA ReadKeeps ==
  ASSUME PInv, NEW r \in PaperRequests, NEW p \in Papers, NEW statuses, NEW step \in {"scan", "grade", "publish"},
         HandlerReads(r, p, statuses, step)
  PROVE  PInv'
<1> DEFINE to == [step |-> step, paper |-> p, work |-> NoPaper]
<1>1. to \in Handled /\ to.step # "create" /\ to.paper \in Papers
  BY DEF Handled
<1>2. handling' = [handling EXCEPT ![r] = to] /\ UNCHANGED <<paper, recent, studentLock>>
  BY DEF HandlerReads, HandlerAt
<1>3. studentLock' \in PaperRequests \cup {NoPaper}
  BY <1>2 DEF PInv, PapersTypeOK
<1> HIDE DEF to
<1> QED
  BY <1>1, <1>2, <1>3, PaperRows, PapersAssumption, HandlerKeeps

LEMMA StepPInv == PInv /\ [PapersNext]_paperVars => PInv'
<1> SUFFICES ASSUME PInv, [PapersNext]_paperVars PROVE PInv'
  OBVIOUS
<1>a. /\ paper \in [Papers -> PaperRow] /\ recent \subseteq Papers
      /\ studentLock \in PaperRequests \cup {NoPaper} /\ handling \in [PaperRequests -> Handled]
      /\ \A p \in Papers : Came(paper[p])
      /\ \A r \in PaperRequests : Handles(r)
  BY DEF PInv, PapersTypeOK, PaperRow, Handled
<1>0. CASE UNCHANGED paperVars
  BY <1>0 DEF paperVars, PInv, PapersTypeOK, Handles, NoDuplicateInWindow
<1>1. ASSUME NEW r \in PaperRequests, NEW w \in Works, UploadLock(r, w) PROVE PInv'
  <2>1. PapersTypeOK' /\ NoDuplicateInWindow' /\ \A p \in Papers : Came(paper'[p])
    BY <1>1, <1>a DEF UploadLock, HandlerAt, PInv, PapersTypeOK, PaperRow, Handled, NoDuplicateInWindow
  <2>2. ASSUME NEW q \in PaperRequests PROVE Handles(q)'
    <3>1. CASE q = r
      BY <1>1, <1>a, <3>1 DEF UploadLock, HandlerAt, Handles
    <3>2. CASE q # r
      BY <1>1, <1>a, <3>2, PapersAssumption DEF UploadLock, HandlerAt, Handles, StudentFree
    <3> QED
      BY <3>1, <3>2
  <2> QED
    BY <2>1, <2>2 DEF PInv
<1>2. ASSUME NEW r \in PaperRequests, NEW p \in Papers, UploadCreate(r, p) PROVE PInv'
  <2> DEFINE new == [NotUploaded EXCEPT !.status = "UPLOADED", !.work = handling[r].work]
  <2>1. handling[r].work \in Works /\ studentLock = r /\ \A q \in recent : paper[q].work # handling[r].work
    BY <1>2, <1>a DEF UploadCreate, Handles
  <2>2. new \in PaperRow /\ Came(new) /\ new.work = handling[r].work
    BY <2>1 DEF NotUploaded, PaperRow, Came
  <2>3. /\ paper' = [paper EXCEPT ![p] = new] /\ recent' = recent \cup {p} /\ studentLock' = NoPaper
        /\ handling' = [handling EXCEPT ![r] = NotHandling]
    BY <1>2 DEF UploadCreate, HandlerEnds
  <2> HIDE DEF new
  <2>4. /\ paper' \in [Papers -> PaperRow] /\ recent' \subseteq Papers /\ handling' \in [PaperRequests -> Handled]
        /\ \A q \in Papers : Came(paper'[q])
    BY <1>a, <2>2, <2>3, PaperRows
  <2>5. PapersTypeOK'
    BY <2>3, <2>4 DEF PapersTypeOK, PaperRow, Handled
  <2>6. NoDuplicateInWindow'
    BY <1>a, <2>1, <2>2, <2>3 DEF PInv, NoDuplicateInWindow
  <2>7. ASSUME NEW q \in PaperRequests PROVE Handles(q)'
    <3>1. CASE q = r
      BY <1>a, <2>3, <3>1, PaperRows DEF Handles
    <3>2. CASE q # r
      <4>1. handling[q].step # "create" /\ handling'[q] = handling[q]
        BY <1>a, <2>1, <2>3, <3>2 DEF Handles
      <4> QED
        BY <1>a, <4>1 DEF Handles
    <3> QED
      BY <3>1, <3>2
  <2> QED
    BY <2>4, <2>5, <2>6, <2>7 DEF PInv
<1>3. ASSUME NEW r \in PaperRequests, NEW p \in Papers, ScanRead(r, p) \/ ReviewRead(r, p) \/ PaperPublishRead(r, p)
      PROVE  PInv'
  BY <1>3, ReadKeeps DEF ScanRead, ReviewRead, PaperPublishRead
<1>4. ASSUME NEW r \in PaperRequests, ScanClaim(r) PROVE PInv'
  <2> DEFINE row == paper[handling[r].paper]
             new == [row EXCEPT !.status = IF handling[r].paper \in Passing THEN "CHECKS_PASSED" ELSE "CHECKS_FAILED",
                                !.scanned = TRUE]
  <2>1. HandlerClaims(r, "scan", SCANNABLE_PAPER_STATUSES, new) /\ handling[r].paper \in Papers
    BY <1>4, <1>a DEF ScanClaim, HandlerClaims, Handles
  <2>2. row.status \in SCANNABLE_PAPER_STATUSES => new \in PaperRow /\ Came(new) /\ new.work = row.work
    <3>1. row \in PaperRow /\ Came(row)
      BY <1>a, <2>1
    <3> HIDE DEF row
    <3> QED
      BY <3>1 DEF SCANNABLE_PAPER_STATUSES, PaperRow, Came
  <2> HIDE DEF new
  <2> QED
    BY <2>1, <2>2, ClaimKeeps
<1>5. ASSUME NEW r \in PaperRequests, NEW review \in Reviews, ReviewClaim(r, review) PROVE PInv'
  <2> DEFINE row == paper[handling[r].paper]
             new == [row EXCEPT !.status = "GRADED", !.review = review]
  <2>1. HandlerClaims(r, "grade", GRADEABLE_PAPER_STATUSES, new) /\ handling[r].paper \in Papers
    BY <1>5, <1>a DEF ReviewClaim, HandlerClaims, Handles
  <2>2. row.status \in GRADEABLE_PAPER_STATUSES => new \in PaperRow /\ Came(new) /\ new.work = row.work
    <3>1. row \in PaperRow /\ Came(row)
      BY <1>a, <2>1
    <3> HIDE DEF row
    <3> QED
      BY <3>1 DEF GRADEABLE_PAPER_STATUSES, PaperRow, Came
  <2> HIDE DEF new
  <2> QED
    BY <2>1, <2>2, ClaimKeeps
<1>6. ASSUME NEW r \in PaperRequests, PaperPublishClaim(r) PROVE PInv'
  <2> DEFINE row == paper[handling[r].paper]
             new == [row EXCEPT !.status = "PUBLISHED", !.publications = @ + 1]
  <2>1. HandlerClaims(r, "publish", PUBLISHABLE_PAPER_STATUSES, new) /\ handling[r].paper \in Papers
    BY <1>6, <1>a DEF PaperPublishClaim, HandlerClaims, Handles
  <2>2. row.status \in PUBLISHABLE_PAPER_STATUSES => new \in PaperRow /\ Came(new) /\ new.work = row.work
    <3>1. row \in PaperRow /\ Came(row)
      BY <1>a, <2>1
    <3> HIDE DEF row
    <3>2. row.status = "GRADED" => row.publications = 0
      BY <3>1 DEF Came
    <3>3. row.publications + 1 \in Nat /\ (row.status = "GRADED" => row.publications + 1 = 1)
      BY <3>1, <3>2 DEF PaperRow
    <3> DEFINE next == row.publications + 1
    <3>4. next \in Nat /\ (row.status = "GRADED" => next = 1)
      BY <3>3
    <3>5. new = [row EXCEPT !.status = "PUBLISHED", !.publications = next]
      OBVIOUS
    <3> HIDE DEF next, new
    <3> QED
      BY <3>1, <3>4, <3>5 DEF PUBLISHABLE_PAPER_STATUSES, PaperRow, Came
  <2> HIDE DEF new
  <2> QED
    BY <2>1, <2>2, ClaimKeeps
<1>7. ASSUME NEW r \in PaperRequests, HandlerDies(r) PROVE PInv'
  BY <1>7, <1>a, PaperRows, PapersAssumption, HandlerKeeps DEF HandlerDies, HandlerEnds
<1>8. ASSUME NEW p \in Papers, WindowPasses(p) PROVE PInv'
  BY <1>8, <1>a DEF WindowPasses, PInv, PapersTypeOK, PaperRow, Handled, Handles, NoDuplicateInWindow
<1> QED
  BY <1>0, <1>1, <1>2, <1>3, <1>4, <1>5, <1>6, <1>7, <1>8 DEF PapersNext

\* An upload that is sent twice is one paper, whatever else goes on.
THEOREM UploadsAreOne == PapersSpec => [](PapersTypeOK /\ NoDuplicateInWindow)
<1>1. PInv => PapersTypeOK /\ NoDuplicateInWindow
  BY DEF PInv
<1> QED
  BY <1>1, InitPInv, StepPInv, PTL DEF PapersSpec

\* A published paper stays as it was published, for any number of late requests.
THEOREM PublicationStands == PapersSpec => PublishedStands
<1> DEFINE Stands == \A p \in Papers :
       /\ paper[p].status = "PUBLISHED" => paper'[p] = paper[p]
       /\ paper'[p].status = "PUBLISHED" =>
            paper'[p].scanned /\ paper'[p].review \in Reviews /\ paper'[p].publications = 1
<1>1. ASSUME PInv, PInv', PapersNext PROVE Stands
  <2> SUFFICES ASSUME NEW p \in Papers, paper[p].status = "PUBLISHED" PROVE paper'[p] = paper[p]
    BY <1>1 DEF PInv, Came
  <2>1. ASSUME NEW r \in PaperRequests, NEW step, NEW statuses, NEW row, "PUBLISHED" \notin statuses,
               HandlerClaims(r, step, statuses, row)
        PROVE  paper'[p] = paper[p]
    BY <1>1, <2>1 DEF HandlerClaims, ClaimsPaper, PInv, PapersTypeOK
  <2>2. ASSUME NEW r \in PaperRequests, ScanClaim(r) PROVE paper'[p] = paper[p]
    BY <2>1, <2>2 DEF ScanClaim, SCANNABLE_PAPER_STATUSES
  <2>3. ASSUME NEW r \in PaperRequests, NEW review \in Reviews, ReviewClaim(r, review) PROVE paper'[p] = paper[p]
    BY <2>1, <2>3 DEF ReviewClaim, GRADEABLE_PAPER_STATUSES
  <2>4. ASSUME NEW r \in PaperRequests, PaperPublishClaim(r) PROVE paper'[p] = paper[p]
    BY <2>1, <2>4 DEF PaperPublishClaim, PUBLISHABLE_PAPER_STATUSES
  <2>5. ASSUME NEW r \in PaperRequests, NEW q \in Papers, UploadCreate(r, q) PROVE paper'[p] = paper[p]
    BY <1>1, <2>5 DEF UploadCreate, NotUploaded, PInv, PapersTypeOK
  <2>6. CASE UNCHANGED paper
    BY <2>6
  <2> QED
    BY <1>1, <2>2, <2>3, <2>4, <2>5, <2>6
    DEF PapersNext, UploadLock, ScanRead, ReviewRead, PaperPublishRead, HandlerReads, HandlerDies, WindowPasses
<1>2. PInv /\ PInv' /\ [PapersNext]_paperVars => [Stands]_paperVars
  BY <1>1
<1> QED
  BY <1>2, InitPInv, StepPInv, PTL DEF PapersSpec, PublishedStands

-----------------------------------------------------------------------------
(* Competitions.  A request that is to write an entry holds the row of an open *)
(* competition, and who holds it keeps it open.                                *)

Contest ==
  [step : {"idle", "enter", "score", "judge"}, entrant : Entrants \cup {Nothing}, content : Contents \cup {Nothing}]

Enters(r) ==
  /\ contest[r].step = "enter" =>
       /\ competition.lock = r /\ competition.status = "OPEN"
       /\ contest[r].entrant \in Entrants /\ contest[r].content \in Contents
  /\ contest[r].step = "score" => contest[r].entrant \in Entered

KInv == CompetitionsTypeOK /\ \A r \in Contests : Enters(r)

LEMMA NotContestingIs == NotContesting \in Contest /\ NotContesting.step = "idle"
  BY DEF NotContesting, Contest

LEMMA InitKInv == CompetitionsInit => KInv
  BY NotContestingIs DEF CompetitionsInit, KInv, CompetitionsTypeOK, Contest, Enters

LEMMA StepKInv == KInv /\ [CompetitionsNext]_competitionVars => KInv'
<1> SUFFICES ASSUME KInv, [CompetitionsNext]_competitionVars PROVE KInv'
  OBVIOUS
<1> USE DEF CompetitionsTypeOK, Enters
<1>a. \A m \in Entrants : m # Nothing
  BY CompetitionsAssumption
<1>b. \A r \in Contests : r # Nothing
  BY CompetitionsAssumption
<1>c. \A content \in Contents : content # Nothing
  BY CompetitionsAssumption
<1>0. CASE UNCHANGED competitionVars
  BY <1>0 DEF competitionVars, KInv, Entered
<1>1. ASSUME NEW r \in Contests, NEW m \in Entrants, NEW content \in Contents, EnterLock(r, m, content) PROVE KInv'
  BY <1>1, <1>b DEF EnterLock, ContestAt, CompetitionFree, KInv, Entered
<1>2. ASSUME NEW r \in Contests, EnterWrite(r) PROVE KInv'
  <2>1. contest[r].entrant \in Entrants /\ contest[r].content \in Contents /\ competition.lock = r
    BY <1>2 DEF EnterWrite, KInv
  <2>2. Entered \subseteq Entered'
    BY <1>2, <1>c, <2>1 DEF EnterWrite, KInv, Entered
  <2> QED
    BY <1>2, <2>1, <2>2, NotContestingIs DEF EnterWrite, ContestEnds, Contest, KInv
<1>3. CASE CloseCompetition
  BY <1>3, <1>b DEF CloseCompetition, Claimable, CompetitionFree, KInv, Entered
<1>4. ASSUME NEW r \in Contests, NEW m \in Entrants, ScoreFind(r, m) PROVE KInv'
  BY <1>4 DEF ScoreFind, ContestAt, KInv, Entered
<1>5. ASSUME NEW r \in Contests, ScoreWrite(r) PROVE KInv'
  BY <1>5, NotContestingIs DEF ScoreWrite, ContestEnds, Contest, KInv, Entered
<1>6. ASSUME NEW r \in Contests, JudgeRead(r) PROVE KInv'
  BY <1>6 DEF JudgeRead, ContestAt, KInv, Entered
<1>7. ASSUME NEW r \in Contests, JudgeClaim(r) PROVE KInv'
  BY <1>7, <1>b, NotContestingIs
  DEF JudgeClaim, Claimable, CompetitionFree, JUDGEABLE_COMPETITION_STATUSES, ContestEnds, Contest, KInv, Entered
<1>8. ASSUME NEW r \in Contests, ContestDies(r) PROVE KInv'
  BY <1>8, NotContestingIs DEF ContestDies, ContestEnds, Contest, KInv, Entered
<1>9. CASE DeadlinePasses
  BY <1>9 DEF DeadlinePasses, KInv, Entered
<1> QED
  BY <1>0, <1>1, <1>2, <1>3, <1>4, <1>5, <1>6, <1>7, <1>8, <1>9 DEF CompetitionsNext

\* The competition, its entries and the requests on them keep their types.
THEOREM EntriesTyped == CompetitionsSpec => []CompetitionsTypeOK
<1>1. KInv => CompetitionsTypeOK
  BY DEF KInv
<1> QED
  BY <1>1, InitKInv, StepKInv, PTL DEF CompetitionsSpec

\* Entries are made while the competition is open and by then only, and it goes
\* forward, for any number of members and requests.
THEOREM EntriesStand == CompetitionsSpec => EntriesStandWhenClosed
<1> DEFINE Forwards ==
      /\ entry' # entry => competition.status = "OPEN"
      /\ competition'.status # competition.status =>
           <<competition.status, competition'.status>> \in {<<"OPEN", "CLOSED">>, <<"CLOSED", "JUDGED">>}
<1>1. ASSUME KInv, CompetitionsNext PROVE Forwards
  <2>1. CASE UNCHANGED <<competition, entry>>
    BY <2>1
  <2>2. ASSUME NEW r \in Contests, EnterWrite(r) PROVE Forwards
    BY <1>1, <2>2 DEF EnterWrite, KInv, CompetitionsTypeOK, Enters
  <2>3. ASSUME NEW r \in Contests, JudgeClaim(r) PROVE Forwards
    BY <1>1, <2>3 DEF JudgeClaim, Claimable, JUDGEABLE_COMPETITION_STATUSES, KInv, CompetitionsTypeOK
  <2>4. CASE CloseCompetition
    BY <1>1, <2>4 DEF CloseCompetition, Claimable, CLOSABLE_COMPETITION_STATUSES, KInv, CompetitionsTypeOK
  <2>5. CASE DeadlinePasses
    BY <1>1, <2>5 DEF DeadlinePasses, KInv, CompetitionsTypeOK
  <2>6. ASSUME NEW r \in Contests,
               ContestDies(r) \/ \E m \in Entrants, content \in Contents : EnterLock(r, m, content)
        PROVE  Forwards
    BY <1>1, <2>6 DEF ContestDies, EnterLock, KInv, CompetitionsTypeOK
  <2> QED
    BY <1>1, <2>1, <2>2, <2>3, <2>4, <2>5, <2>6 DEF CompetitionsNext, ScoreFind, ScoreWrite, JudgeRead
<1>2. KInv /\ [CompetitionsNext]_competitionVars => [Forwards]_competitionVars
  BY <1>1
<1> QED
  BY <1>2, InitKInv, StepKInv, PTL DEF CompetitionsSpec, EntriesStandWhenClosed

-----------------------------------------------------------------------------
(* Events.  Who has counted holds the row, so that nobody takes the place it    *)
(* found.                                                                       *)

Answered == [step : {"idle", "lock", "count", "write"}, member : Members \cup {NoRsvp}, status : RsvpStatus \cup {"none"}]

FindsAPlace(r) ==
  LET q == answering[r] IN
  /\ q.step # "idle" => q.member \in Members /\ q.status \in RsvpStatus
  /\ q.step \in {"count", "write"} => eventLock = r
  /\ q.step = "write" => ~rsvpWouldExceedCapacity(q.member, q.status)

EInv ==
  /\ EventsTypeOK
  /\ EventNeverOversold
  /\ \A r \in Rsvps : FindsAPlace(r)

LEMMA NotAnsweringIs == NotAnswering \in Answered /\ NotAnswering.step = "idle"
  BY DEF NotAnswering, Answered

LEMMA GoingIsFinite ==
  ASSUME EventsTypeOK PROVE IsFiniteSet(Going) /\ Cardinality(Going) \in Nat
<1>1. Going \subseteq Members
  BY DEF Going
<1> QED
  BY <1>1, EventsAssumption, FS_Subset, FS_CardinalityType

LEMMA InitEInv == EventsInit => EInv
<1> SUFFICES ASSUME EventsInit PROVE EInv
  OBVIOUS
<1>1. EventsTypeOK /\ \A r \in Rsvps : FindsAPlace(r)
  BY NotAnsweringIs DEF EventsInit, EventsTypeOK, FindsAPlace, Answered
<1>2. Going = {}
  BY DEF EventsInit, Going
<1> QED
  BY <1>1, <1>2, FS_EmptySet, EventsAssumption DEF EInv, EventNeverOversold

LEMMA StepEInv == EInv /\ [EventsNext]_eventVars => EInv'
<1> SUFFICES ASSUME EInv, [EventsNext]_eventVars PROVE EInv'
  OBVIOUS
<1>a. /\ going \in [Members -> RsvpStatus \cup {"none"}] /\ over \in BOOLEAN
      /\ eventLock \in Rsvps \cup {NoRsvp} /\ answering \in [Rsvps -> Answered]
      /\ \A r \in Rsvps : FindsAPlace(r) /\ r # NoRsvp
  BY EventsAssumption DEF EInv, EventsTypeOK, Answered
<1>b. UNCHANGED going => Going' = Going /\ EventNeverOversold'
  BY DEF Going, EInv, EventNeverOversold
<1>c. UNCHANGED going => \A m, status : rsvpWouldExceedCapacity(m, status)' = rsvpWouldExceedCapacity(m, status)
  BY <1>b DEF rsvpWouldExceedCapacity
<1>0. CASE UNCHANGED eventVars
  BY <1>0, <1>a, <1>b, <1>c DEF eventVars, EInv, EventsTypeOK, FindsAPlace
<1>1. ASSUME NEW r \in Rsvps, NEW m \in Members, NEW status \in RsvpStatus, RsvpRead(r, m, status) PROVE EInv'
  BY <1>1, <1>a, <1>b, <1>c DEF RsvpRead, EInv, EventsTypeOK, FindsAPlace
<1>2. ASSUME NEW r \in Rsvps, RsvpLock(r) PROVE EInv'
  BY <1>2, <1>a, <1>b, <1>c DEF RsvpLock, EventFree, AnsweringAt, EInv, EventsTypeOK, FindsAPlace, Answered
<1>3. ASSUME NEW r \in Rsvps, RsvpCount(r) PROVE EInv'
  <2>1. CASE rsvpWouldExceedCapacity(answering[r].member, answering[r].status)
    BY <1>3, <1>a, <1>b, <1>c, <2>1, NotAnsweringIs
    DEF RsvpCount, AnsweringEnds, EInv, EventsTypeOK, FindsAPlace, Answered
  <2>2. CASE ~rsvpWouldExceedCapacity(answering[r].member, answering[r].status)
    BY <1>3, <1>a, <1>b, <1>c, <2>2 DEF RsvpCount, AnsweringAt, EInv, EventsTypeOK, FindsAPlace, Answered
  <2> QED
    BY <2>1, <2>2
<1>4. ASSUME NEW r \in Rsvps, RsvpWrite(r) PROVE EInv'
  <2> DEFINE m == answering[r].member
             status == answering[r].status
  <2>1. /\ m \in Members /\ status \in RsvpStatus /\ eventLock = r
        /\ ~rsvpWouldExceedCapacity(m, status)
        /\ going' = [going EXCEPT ![m] = status] /\ eventLock' = NoRsvp /\ over' = over
        /\ answering' = [answering EXCEPT ![r] = NotAnswering]
    BY <1>4, <1>a DEF RsvpWrite, AnsweringEnds, FindsAPlace
  <2> HIDE DEF m, status
  <2>2. EventsTypeOK'
    BY <1>a, <2>1, NotAnsweringIs DEF EventsTypeOK, Answered
  <2>3. ASSUME NEW q \in Rsvps PROVE FindsAPlace(q)'
    <3>1. CASE q = r
      BY <1>a, <2>1, <3>1, NotAnsweringIs DEF FindsAPlace
    <3>2. CASE q # r
      BY <1>a, <2>1, <3>2 DEF FindsAPlace
    <3> QED
      BY <3>1, <3>2
  <2>4. IsFiniteSet(Going) /\ Cardinality(Going) \in Nat /\ Cardinality(Going) <= capacityOfEvent
    BY GoingIsFinite DEF EInv, EventNeverOversold
  <2>5. EventNeverOversold'
    <3>1. CASE status = "GOING" /\ m \notin Going
      <4>1. Cardinality(Going) < capacityOfEvent
        BY <1>a, <2>1, <2>4, <3>1, EventsAssumption DEF rsvpWouldExceedCapacity, Going
      <4>2. Going' = Going \cup {m}
        BY <1>a, <2>1, <3>1 DEF Going
      <4>3. Cardinality(Going \cup {m}) = Cardinality(Going) + 1
        BY <2>4, <3>1, FS_AddElement
      <4> QED
        BY <2>4, <4>1, <4>2, <4>3, EventsAssumption DEF EventNeverOversold
    <3>2. CASE ~(status = "GOING" /\ m \notin Going)
      <4>1. Going' \subseteq Going
        BY <1>a, <2>1, <3>2 DEF Going
      <4>2. Cardinality(Going') \in Nat /\ Cardinality(Going') <= Cardinality(Going)
        BY <2>4, <4>1, FS_Subset, FS_CardinalityType
      <4> QED
        BY <2>4, <4>2, EventsAssumption DEF EventNeverOversold
    <3> QED
      BY <3>1, <3>2
  <2> QED
    BY <2>2, <2>3, <2>5 DEF EInv
<1>5. ASSUME NEW r \in Rsvps, RsvpDies(r) PROVE EInv'
  <2>1. /\ answering' = [answering EXCEPT ![r] = NotAnswering] /\ UNCHANGED <<going, over>>
        /\ eventLock' = IF eventLock = r THEN NoRsvp ELSE eventLock
    BY <1>5 DEF RsvpDies, AnsweringEnds
  <2>2. EventsTypeOK'
    BY <1>a, <2>1, NotAnsweringIs DEF EventsTypeOK, Answered
  <2>3. ASSUME NEW q \in Rsvps PROVE FindsAPlace(q)'
    <3>1. CASE q = r
      BY <1>a, <2>1, <3>1, NotAnsweringIs DEF FindsAPlace
    <3>2. CASE q # r
      BY <1>a, <1>c, <2>1, <3>2 DEF FindsAPlace
    <3> QED
      BY <3>1, <3>2
  <2> QED
    BY <1>b, <2>1, <2>2, <2>3 DEF EInv
<1>6. CASE EventEnds
  BY <1>6, <1>a, <1>b, <1>c DEF EventEnds, EInv, EventsTypeOK, FindsAPlace
<1> QED
  BY <1>0, <1>1, <1>2, <1>3, <1>4, <1>5, <1>6 DEF EventsNext

\* An event is never oversold, whatever its capacity and however many answer.
THEOREM EventSafety == EventsSpec => [](EventsTypeOK /\ EventNeverOversold)
<1>1. EInv => EventsTypeOK /\ EventNeverOversold
  BY DEF EInv
<1> QED
  BY <1>1, InitEInv, StepEInv, PTL DEF EventsSpec

-----------------------------------------------------------------------------
\* Every row, every request and the queue of a learner keep the shape of their
\* declarations.
THEOREM LearningTyped == LearningSpec => []LearningTypeOK
  BY ProgressSafety, MasterySafety, AwardsSafety, GradingSafety, UploadsAreOne,
     QueueLosesOnlyOverwritten, EntriesTyped, EventSafety, PTL DEF LearningSpec, LearningTypeOK
=============================================================================
