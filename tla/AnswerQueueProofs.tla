-------------------------- MODULE AnswerQueueProofs --------------------------
(* What the offline queue keeps, for any number of questions, taps and saves  *)
(* at a time: an answer is lost only where its item was overwritten, an older *)
(* one stands only where a newer one overtook it.                             *)
EXTENDS AnswerQueue, TLAPS

\* No tap is held before it was made.
Made(q) == queue[q] <= tapped[q] /\ reached[q] <= tapped[q] /\ flush.seen[q] <= tapped[q]

\* A save under way is of a tap that was made; once accepted the server has had it.
Saving(s) ==
  LET v == save[s] IN
  /\ \A q \in Questions : v.seen[q] <= tapped[q]
  /\ v.step # "idle" =>
       /\ v.question \in Questions
       /\ v.tap <= tapped[v.question]
       /\ v.step = "accepted" => v.tap <= reached[v.question]

\* What a flush under way read and does not put back, the server has had.
PutBack(q) ==
  IF q \in flush.left THEN flush.survivors[q] = 0
  ELSE \/ flush.survivors[q] = flush.seen[q]
       \/ flush.survivors[q] = 0 /\ (flush.seen[q] <= reached[q] \/ attempt = "gone")

Flushing ==
  flush.step # "idle" =>
    /\ \A q \in Questions : PutBack(q)
    /\ flush.step = "accepted" => flush.item \in flush.left /\ flush.seen[flush.item] <= reached[flush.item]

QInv ==
  /\ QueueTypeOK
  /\ LostOnlyWhenOverwritten
  /\ \A q \in Questions : Made(q)
  /\ \A s \in Saves : Saving(s)
  /\ Flushing

-----------------------------------------------------------------------------
(* Types                                                                      *)

SaveType == [step : {"idle", "direct", "accepted", "enqueue", "write"},
             question : Questions \cup {NoQuestion}, tap : 0 .. MaxTaps, chained : BOOLEAN, seen : Items]
FlushType == [step : {"idle", "send", "accepted"}, item : Questions \cup {NoQuestion},
              seen : Items, left : SUBSET Questions, survivors : Items]

LEMMA EmptyItems == Empty \in Items
  BY QueueAssumption DEF Empty, Items

LEMMA SaveTyped ==
  ASSUME NEW step \in {"idle", "direct", "accepted", "enqueue", "write"},
         NEW q \in Questions \cup {NoQuestion}, NEW tap \in 0 .. MaxTaps,
         NEW chained \in BOOLEAN, NEW seen \in Items
  PROVE  /\ Save(step, q, tap, chained, seen) \in SaveType
         /\ NoSave \in SaveType
  BY EmptyItems, QueueAssumption DEF Save, NoSave, SaveType

LEMMA FlushTyped ==
  ASSUME NEW step \in {"idle", "send", "accepted"}, NEW q \in Questions \cup {NoQuestion},
         NEW seen \in Items, NEW left \in SUBSET Questions, NEW survivors \in Items
  PROVE  /\ Flush(step, q, seen, left, survivors) \in FlushType
         /\ NoFlush \in FlushType
  BY EmptyItems DEF Flush, NoFlush, FlushType

\* The type invariant, one name for each part.
LEMMA TypeParts ==
  QueueTypeOK <=>
    /\ online \in BOOLEAN /\ attempt \in {"open", "closed", "gone"}
    /\ server \in Items /\ reached \in Items
    /\ tapped \in Items /\ kept \in Items /\ queue \in Items
    /\ save \in [Saves -> SaveType]
    /\ flush \in FlushType
    /\ \A q \in flush.left : flush.seen[q] # 0
    /\ overwritten \subseteq Questions /\ overtaken \subseteq Questions
  BY DEF QueueTypeOK, SaveType, FlushType

LEMMA InitQInv == QueueInit => QInv
<1> SUFFICES ASSUME QueueInit PROVE QInv
  OBVIOUS
<1>1. QueueTypeOK
  <2>1. save \in [Saves -> SaveType] /\ flush \in FlushType
    BY EmptyItems, SaveTyped, FlushTyped, QueueAssumption DEF QueueInit
  <2> QED
    BY <2>1, TypeParts, EmptyItems DEF QueueInit, NoFlush, Flush
<1>2. \A s \in Saves : Saving(s)
  BY DEF QueueInit, Saving, NoSave, Save, Empty
<1>3. Flushing
  BY DEF QueueInit, Flushing, NoFlush, Flush
<1>4. LostOnlyWhenOverwritten /\ \A q \in Questions : Made(q)
  BY DEF QueueInit, LostOnlyWhenOverwritten, Newer, Empty, Made, NoFlush, Flush
<1> QED
  BY <1>1, <1>2, <1>3, <1>4 DEF QInv

\* What Newer does, on the numbers of taps.
LEMMA NewerFacts ==
  ASSUME NEW m \in 0 .. MaxTaps, NEW n \in 0 .. MaxTaps
  PROVE  /\ Newer(m, n) \in 0 .. MaxTaps
         /\ m <= Newer(m, n) /\ n <= Newer(m, n)
         /\ \A k \in Nat : k <= Newer(m, n) <=> k <= m \/ k <= n
  BY QueueAssumption DEF Newer

LEMMA Numbers ==
  ASSUME QInv, NEW q \in Questions
  PROVE  /\ queue[q] \in 0 .. MaxTaps /\ reached[q] \in 0 .. MaxTaps /\ tapped[q] \in 0 .. MaxTaps
         /\ kept[q] \in 0 .. MaxTaps /\ server[q] \in 0 .. MaxTaps /\ flush.seen[q] \in 0 .. MaxTaps
         /\ flush.survivors[q] \in 0 .. MaxTaps
  BY DEF QInv, QueueTypeOK, Items

-----------------------------------------------------------------------------
(* The steps                                                                  *)

\* What every step does to what was said: the server and the student only add.
QueueGrows ==
  /\ \A q \in Questions : reached[q] <= reached'[q] /\ reached'[q] <= tapped'[q] /\ tapped[q] <= tapped'[q]
  /\ attempt = "gone" => attempt' = "gone"
  /\ overwritten \subseteq overwritten'

LEMMA Stays ==
  ASSUME QInv, UNCHANGED <<reached, tapped, attempt>>, overwritten \subseteq overwritten' PROVE QueueGrows
<1>1. ASSUME NEW q \in Questions PROVE reached[q] <= reached[q] /\ tapped[q] <= tapped[q] /\ reached[q] <= tapped[q]
  BY QueueAssumption, Numbers DEF QInv, Made
<1> QED
  BY <1>1 DEF QueueGrows

\* A number that was no larger is no larger than what only grew.
LEMMA Grown ==
  ASSUME QInv, QueueTypeOK', QueueGrows, NEW q \in Questions, NEW n \in 0 .. MaxTaps
  PROVE  /\ n <= tapped[q] => n <= tapped'[q]
         /\ n <= reached[q] => n <= reached'[q]
<1>1. /\ tapped[q] \in 0 .. MaxTaps /\ tapped'[q] \in 0 .. MaxTaps
      /\ reached[q] \in 0 .. MaxTaps /\ reached'[q] \in 0 .. MaxTaps
  BY DEF QInv, QueueTypeOK, Items
<1>2. tapped[q] <= tapped'[q] /\ reached[q] <= reached'[q]
  BY DEF QueueGrows
<1> QED
  BY <1>1, <1>2, QueueAssumption

\* A save the step leaves alone.
LEMMA SavingKept ==
  ASSUME QInv, QueueTypeOK', QueueGrows, NEW t \in Saves, save'[t] = save[t]
  PROVE  Saving(t)'
<1>1. /\ save[t].tap \in 0 .. MaxTaps /\ \A q \in Questions : save[t].seen[q] \in 0 .. MaxTaps
      /\ Saving(t)
  BY DEF QInv, QueueTypeOK, Items
<1>2. ASSUME NEW q \in Questions PROVE save[t].seen[q] <= tapped'[q]
  BY <1>1, Grown DEF Saving
<1>3. ASSUME save[t].step # "idle"
      PROVE  /\ save[t].question \in Questions /\ save[t].tap <= tapped'[save[t].question]
             /\ save[t].step = "accepted" => save[t].tap <= reached'[save[t].question]
  BY <1>1, <1>3, Grown DEF Saving
<1> QED
  BY <1>2, <1>3 DEF Saving

\* A flush the step leaves alone.
LEMMA FlushingKept ==
  ASSUME QInv, QueueTypeOK', QueueGrows, flush' = flush
  PROVE  Flushing'
<1> SUFFICES ASSUME flush.step # "idle" PROVE Flushing'
  BY DEF Flushing
<1>1. ASSUME NEW q \in Questions PROVE PutBack(q)'
  <2>1. PutBack(q)
    BY DEF QInv, Flushing
  <2>2. flush.seen[q] <= reached[q] => flush.seen[q] <= reached'[q]
    BY Numbers, Grown
  <2> QED
    BY <2>1, <2>2 DEF PutBack, QueueGrows
<1>2. ASSUME flush.step = "accepted"
      PROVE  flush.item \in flush.left /\ flush.seen[flush.item] <= reached'[flush.item]
  <2>1. flush.item \in flush.left /\ flush.seen[flush.item] <= reached[flush.item] /\ flush.item \in Questions
    BY <1>2 DEF QInv, QueueTypeOK, Flushing
  <2> QED
    BY <2>1, Numbers, Grown
<1> QED
  BY <1>1, <1>2 DEF Flushing

\* Nothing is lost by a step that leaves the queue and the chips alone.
LEMMA LostKept ==
  ASSUME QInv, QueueTypeOK', QueueGrows, queue' = queue, kept' = kept
  PROVE  LostOnlyWhenOverwritten'
<1>1. ASSUME NEW q \in Questions \ overwritten', attempt' # "gone" PROVE kept'[q] <= Newer(reached'[q], queue'[q])
  <2>1. /\ queue[q] \in 0 .. MaxTaps /\ reached[q] \in 0 .. MaxTaps /\ reached'[q] \in 0 .. MaxTaps
        /\ kept[q] \in 0 .. MaxTaps /\ kept[q] \in Nat
    BY QueueAssumption DEF QInv, QueueTypeOK, Items
  <2>2. kept[q] <= Newer(reached[q], queue[q])
    BY <1>1 DEF QInv, LostOnlyWhenOverwritten, QueueGrows
  <2>3. kept[q] <= reached[q] \/ kept[q] <= queue[q]
    BY <2>1, <2>2, NewerFacts
  <2>4. kept[q] <= reached'[q] \/ kept[q] <= queue[q]
    BY <2>1, <2>3, Grown
  <2> QED
    BY <2>1, <2>4, NewerFacts
<1> QED
  BY <1>1 DEF LostOnlyWhenOverwritten

\* The queue, and what the flush read of it, stay where they were.
LEMMA MadeKept ==
  ASSUME QInv, QueueTypeOK', QueueGrows, queue' = queue, flush'.seen \in {flush.seen, queue, Empty}
  PROVE  \A q \in Questions : Made(q)'
<1> SUFFICES ASSUME NEW q \in Questions PROVE Made(q)'
  OBVIOUS
<1>1. queue[q] <= tapped[q] /\ flush.seen[q] <= tapped[q]
  BY DEF QInv, Made
<1>2. queue[q] <= tapped'[q] /\ flush.seen[q] <= tapped'[q]
  BY <1>1, Numbers, Grown
<1>3. Empty[q] <= tapped'[q]
  BY QueueAssumption DEF Empty, QueueTypeOK, Items
<1> QED
  BY <1>2, <1>3 DEF Made, QueueGrows

\* The parts together: a step of one save that leaves the storage and the flush
\* alone.
LEMMA Quiet ==
  ASSUME QInv, QueueTypeOK', QueueGrows, NEW s \in Saves, Saving(s)',
         \A t \in Saves \ {s} : save'[t] = save[t],
         UNCHANGED <<kept, queue, flush>>
  PROVE  QInv'
<1>1. ASSUME NEW t \in Saves PROVE Saving(t)'
  <2>1. CASE t = s
    BY <2>1
  <2>2. CASE t # s
    BY <2>2, SavingKept
  <2> QED
    BY <2>1, <2>2
<1> QED
  BY <1>1, FlushingKept, LostKept, MadeKept DEF QInv

LEMMA TapStep ==
  ASSUME QInv, NEW s \in Saves, NEW q \in Questions, Tap(s, q) PROVE QInv'
<1>0. UNCHANGED <<online, attempt, server, reached, overtaken, kept, queue, overwritten, flush>>
  BY DEF Tap
<1>1. tapped[q] + 1 \in 0 .. MaxTaps /\ tapped[q] \in Nat
  BY QueueAssumption DEF Tap, QInv, QueueTypeOK, Items
<1>2. tapped' \in Items /\ tapped'[q] = tapped[q] + 1 /\ \A p \in Questions \ {q} : tapped'[p] = tapped[p]
  <2>1. tapped \in Items /\ tapped' = [tapped EXCEPT ![q] = tapped[q] + 1]
    BY DEF Tap, QInv, QueueTypeOK
  <2> QED
    BY <1>1, <2>1 DEF Items
<1>3. planAnswerSave \in {"direct", "enqueue"}
  BY DEF planAnswerSave
<1>4. Save(planAnswerSave, q, tapped[q] + 1, online, Empty) \in SaveType
  BY <1>1, <1>3, EmptyItems, SaveTyped DEF QInv, QueueTypeOK
<1>5. /\ save' \in [Saves -> SaveType]
      /\ save'[s] = Save(planAnswerSave, q, tapped[q] + 1, online, Empty)
      /\ \A t \in Saves \ {s} : save'[t] = save[t]
  BY <1>4, TypeParts DEF Tap, QInv
<1>6. QueueTypeOK'
  BY <1>0, <1>2, <1>5 DEF QInv, QueueTypeOK, SaveType
<1>7. QueueGrows
  <2>1. ASSUME NEW p \in Questions
        PROVE  reached[p] <= reached'[p] /\ reached'[p] <= tapped'[p] /\ tapped[p] <= tapped'[p]
    BY <1>0, <1>2, Numbers, QueueAssumption DEF QInv, Made
  <2> QED
    BY <1>0, <2>1 DEF QueueGrows
<1>8. Saving(s)'
  <2>1. \A p \in Questions : Empty[p] <= tapped'[p]
    BY <1>2, QueueAssumption DEF Empty, Items
  <2> QED
    BY <1>1, <1>2, <1>3, <1>5, <2>1 DEF Saving, Save
<1> QED
  BY <1>0, <1>5, <1>6, <1>7, <1>8, Quiet

LEMMA ToTyped ==
  ASSUME QInv, NEW s \in Saves, NEW step \in {"direct", "accepted", "enqueue", "write"},
         NEW seen \in Items, To(s, step, seen)
  PROVE  /\ save' \in [Saves -> SaveType]
         /\ save'[s] = Save(step, save[s].question, save[s].tap, save[s].chained, seen)
         /\ \A t \in Saves \ {s} : save'[t] = save[t]
<1>1. save \in [Saves -> SaveType]
  BY DEF QInv, QueueTypeOK, SaveType
<1>2. Save(step, save[s].question, save[s].tap, save[s].chained, seen) \in SaveType
  BY <1>1 DEF Save, SaveType
<1> QED
  BY <1>1, <1>2 DEF To

\* Of a save under way.
LEMMA UnderWay ==
  ASSUME QInv, NEW s \in Saves, save[s].step # "idle"
  PROVE  /\ save[s].question \in Questions /\ save[s].tap \in 0 .. MaxTaps
         /\ save[s].tap <= tapped[save[s].question]
         /\ save[s].seen \in Items
  BY DEF QInv, QueueTypeOK, Saving

\* The answer route.
LEMMA StoreGrows ==
  ASSUME QInv, NEW q \in Questions, NEW tap \in 0 .. MaxTaps, NEW saves, Store(q, tap, saves),
         tap <= tapped[q], UNCHANGED <<attempt, tapped, overwritten>>
  PROVE  /\ server' \in Items /\ reached' \in Items /\ overtaken' \subseteq Questions /\ QueueGrows
         /\ tap <= reached'[q]
<1>1. server \in Items /\ reached \in Items /\ tapped \in Items /\ overtaken \subseteq Questions
  BY DEF QInv, QueueTypeOK
<1>2. reached[q] \in 0 .. MaxTaps
  BY <1>1 DEF Items
<1>3. Newer(reached[q], tap) \in 0 .. MaxTaps /\ reached[q] <= Newer(reached[q], tap) /\ tap <= Newer(reached[q], tap)
  BY <1>2, NewerFacts
<1>4. server' \in Items
  BY <1>1 DEF Store, Items
<1>5. /\ reached' \in Items /\ reached'[q] = Newer(reached[q], tap)
      /\ \A p \in Questions \ {q} : reached'[p] = reached[p]
  BY <1>1, <1>3 DEF Store, Items
<1>6. QueueGrows
  <2>1. ASSUME NEW p \in Questions PROVE reached[p] <= reached'[p] /\ reached'[p] <= tapped[p] /\ tapped[p] <= tapped[p]
    <3>1. reached[p] <= tapped[p] /\ reached[p] \in 0 .. MaxTaps /\ tapped[p] \in 0 .. MaxTaps
      BY Numbers DEF QInv, Made
    <3>2. Newer(reached[q], tap) <= tapped[q]
      BY <1>2, Numbers DEF QInv, Made, Newer
    <3> QED
      BY <1>3, <1>5, <3>1, <3>2, QueueAssumption
  <2> QED
    BY <2>1 DEF QueueGrows
<1> QED
  BY <1>1, <1>3, <1>4, <1>5, <1>6 DEF Store

LEMMA SaveArrivesStep ==
  ASSUME QInv, NEW s \in Saves, SaveArrives(s) PROVE QInv'
<1> DEFINE q == save[s].question
           tap == save[s].tap
<1>0. /\ UNCHANGED <<online, attempt, tapped, kept, queue, overwritten, flush>>
      /\ Store(q, tap, {t \in Saves : ~save[t].chained})
  BY DEF SaveArrives, device
<1>1. q \in Questions /\ tap \in 0 .. MaxTaps /\ tap <= tapped[q]
  BY UnderWay DEF SaveArrives
<1>2. server' \in Items /\ reached' \in Items /\ overtaken' \subseteq Questions /\ QueueGrows /\ tap <= reached'[q]
  BY <1>0, <1>1, StoreGrows
<1>3. /\ save' \in [Saves -> SaveType]
      /\ save'[s] = Save("accepted", q, tap, save[s].chained, Empty)
      /\ \A t \in Saves \ {s} : save'[t] = save[t]
  BY ToTyped, EmptyItems DEF SaveArrives
<1>4. QueueTypeOK'
  BY <1>0, <1>2, <1>3 DEF QInv, QueueTypeOK, SaveType
<1>5. Saving(s)'
  <2>1. \A p \in Questions : Empty[p] <= tapped'[p]
    BY <1>4, QueueAssumption DEF Empty, QueueTypeOK, Items
  <2> QED
    BY <1>0, <1>1, <1>2, <1>3, <2>1 DEF Saving, Save
<1> QED
  BY <1>0, <1>2, <1>3, <1>4, <1>5, Quiet

\* A save that goes on to the queue, with a queue it read.
LEMMA ToQueueStep ==
  ASSUME QInv, NEW s \in Saves, save[s].step # "idle", NEW step \in {"enqueue", "write"},
         NEW seen \in {Empty, queue}, To(s, step, seen),
         UNCHANGED <<online, attempt, server, reached, overtaken, tapped, kept, queue, overwritten, flush>>
  PROVE  QInv'
<1>1. /\ save[s].question \in Questions /\ save[s].tap <= tapped[save[s].question]
  BY UnderWay
<1>2. QueueGrows
  BY Stays
<1>3. seen \in Items /\ \A q \in Questions : seen[q] <= tapped[q]
  BY EmptyItems, QueueAssumption DEF QInv, QueueTypeOK, Made, Empty, Items
<1>4. /\ save' \in [Saves -> SaveType]
      /\ save'[s] = Save(step, save[s].question, save[s].tap, save[s].chained, seen)
      /\ \A t \in Saves \ {s} : save'[t] = save[t]
  BY <1>3, ToTyped
<1>5. QueueTypeOK'
  BY <1>4 DEF QInv, QueueTypeOK, SaveType
<1>6. Saving(s)'
  BY <1>1, <1>3, <1>4 DEF Saving, Save
<1> QED
  BY <1>2, <1>4, <1>5, <1>6, Quiet

LEMMA IdleSave ==
  ASSUME QInv, QueueTypeOK', NEW s \in Saves, save' = [save EXCEPT ![s] = NoSave]
  PROVE  Saving(s)' /\ \A t \in Saves \ {s} : save'[t] = save[t]
<1>1. save \in [Saves -> SaveType]
  BY DEF QInv, QueueTypeOK, SaveType
<1>2. save'[s] = NoSave /\ \A t \in Saves \ {s} : save'[t] = save[t]
  BY <1>1
<1>3. \A p \in Questions : Empty[p] <= tapped'[p]
  BY QueueAssumption DEF Empty, QueueTypeOK, Items
<1> QED
  BY <1>2, <1>3 DEF Saving, NoSave, Save

LEMMA KeepTyped ==
  ASSUME QInv, NEW q \in Questions, NEW tap \in 0 .. MaxTaps, Keep(q, tap)
  PROVE  /\ kept' \in Items /\ kept'[q] = Newer(kept[q], tap)
         /\ \A p \in Questions \ {q} : kept'[p] = kept[p]
<1>1. kept \in Items /\ kept[q] \in 0 .. MaxTaps
  BY DEF QInv, QueueTypeOK, Items
<1>2. Newer(kept[q], tap) \in 0 .. MaxTaps
  BY <1>1, NewerFacts
<1> QED
  BY <1>1, <1>2 DEF Keep, Items

\* A tap the chip calls safe, and is: the server has had it, or the queue holds it.
LEMMA KeepSafe ==
  ASSUME QInv, QueueTypeOK', UNCHANGED <<reached, attempt>>, overwritten \subseteq overwritten',
         NEW q \in Questions, NEW tap \in 0 .. MaxTaps, Keep(q, tap),
         q \notin overwritten' => tap <= reached[q] \/ tap <= queue'[q],
         \A p \in Questions \ overwritten' : queue[p] <= queue'[p]
  PROVE  LostOnlyWhenOverwritten'
<1>1. ASSUME NEW p \in Questions \ overwritten', attempt # "gone" PROVE kept'[p] <= Newer(reached[p], queue'[p])
  <2>1. /\ kept[p] \in Nat /\ reached[p] \in 0 .. MaxTaps /\ queue[p] \in 0 .. MaxTaps
        /\ kept'[p] \in Nat /\ queue'[p] \in 0 .. MaxTaps
    BY QueueAssumption DEF QInv, QueueTypeOK, Items
  <2>2. kept[p] <= reached[p] \/ kept[p] <= queue[p]
    <3>1. kept[p] <= Newer(reached[p], queue[p])
      BY <1>1 DEF QInv, LostOnlyWhenOverwritten
    <3> QED
      BY <2>1, <3>1, NewerFacts
  <2>3. kept[p] <= reached[p] \/ kept[p] <= queue'[p]
    BY <2>1, <2>2, QueueAssumption
  <2>4. kept'[p] = kept[p] \/ (p = q /\ kept'[p] = tap)
    BY KeepTyped DEF Newer
  <2>5. kept'[p] <= reached[p] \/ kept'[p] <= queue'[p]
    BY <2>3, <2>4
  <2> QED
    BY <2>1, <2>5, NewerFacts
<1> QED
  BY <1>1 DEF LostOnlyWhenOverwritten

LEMMA SaveAnsweredStep ==
  ASSUME QInv, NEW s \in Saves, SaveAnswered(s) PROVE QInv'
<1> DEFINE q == save[s].question
           tap == save[s].tap
<1>0. /\ UNCHANGED <<online, attempt, server, reached, overtaken, tapped, queue, overwritten, flush>>
      /\ Keep(q, tap) /\ save' = [save EXCEPT ![s] = NoSave]
  BY DEF SaveAnswered
<1>1. q \in Questions /\ tap \in 0 .. MaxTaps /\ tap <= reached[q]
  BY UnderWay DEF SaveAnswered, QInv, Saving
<1>2. QueueGrows
  BY <1>0, Stays
<1>3. kept' \in Items
  BY <1>0, <1>1, KeepTyped
<1>4. save' \in [Saves -> SaveType]
  BY <1>0, EmptyItems, QueueAssumption DEF QInv, QueueTypeOK, SaveType, NoSave, Save
<1>5. QueueTypeOK'
  BY <1>0, <1>3, <1>4 DEF QInv, QueueTypeOK, SaveType
<1>6. ASSUME NEW t \in Saves PROVE Saving(t)'
  <2>1. CASE t = s
    BY <1>0, <1>5, <2>1, IdleSave
  <2>2. CASE t # s
    BY <1>0, <1>2, <1>5, <2>2, IdleSave, SavingKept
  <2> QED
    BY <2>1, <2>2
<1>7. LostOnlyWhenOverwritten'
  <2>1. \A p \in Questions : queue[p] <= queue'[p]
    BY <1>0, Numbers, QueueAssumption
  <2> QED
    BY <1>0, <1>1, <1>5, <2>1, KeepSafe
<1> QED
  BY <1>0, <1>2, <1>5, <1>6, <1>7, MadeKept, FlushingKept DEF QInv

\* The queue is written as it was read, but for the answer.
LEMMA EnqueueWritesStep ==
  ASSUME QInv, NEW s \in Saves, EnqueueWrites(s)
  PROVE  QInv' /\ \A p \in Questions \ overwritten' : queue[p] <= queue'[p]
<1> DEFINE q == save[s].question
           tap == save[s].tap
<1>0. /\ UNCHANGED <<online, attempt, server, reached, overtaken, tapped, flush>> /\ Keep(q, tap)
      /\ save[s].step = "write"
      /\ queue' = [save[s].seen EXCEPT ![q] = tap]
      /\ overwritten' = overwritten \cup OverwrittenBy(s)
      /\ save' = [save EXCEPT ![s] = NoSave]
  BY DEF EnqueueWrites, WithAnswer
<1>1. q \in Questions /\ tap \in 0 .. MaxTaps /\ tap <= tapped[q] /\ save[s].seen \in Items
  BY <1>0, UnderWay
<1>2. /\ queue' \in Items /\ queue'[q] = tap
      /\ \A p \in Questions \ {q} : queue'[p] = save[s].seen[p]
  BY <1>0, <1>1 DEF Items
<1>3. overwritten' \subseteq Questions /\ overwritten \subseteq overwritten'
  BY <1>0 DEF OverwrittenBy, QInv, QueueTypeOK
<1>4. ASSUME NEW p \in Questions \ overwritten' PROVE queue[p] <= queue'[p]
  <2>1. p \notin OverwrittenBy(s) /\ queue[p] \in 0 .. MaxTaps
    BY <1>0, Numbers
  <2>2. CASE p = q
    BY <1>1, <1>2, <2>1, <2>2, QueueAssumption DEF OverwrittenBy
  <2>3. CASE p # q
    BY <1>2, <2>1, <2>3, QueueAssumption DEF OverwrittenBy
  <2> QED
    BY <2>2, <2>3
<1>5. kept' \in Items
  BY <1>0, <1>1, KeepTyped
<1>6. save' \in [Saves -> SaveType]
  BY <1>0, EmptyItems, QueueAssumption DEF QInv, QueueTypeOK, SaveType, NoSave, Save
<1>7. QueueTypeOK'
  BY <1>0, <1>2, <1>3, <1>5, <1>6 DEF QInv, QueueTypeOK, SaveType
<1>8. QueueGrows
  BY <1>0, <1>3, Stays
<1>9. ASSUME NEW t \in Saves PROVE Saving(t)'
  <2>1. CASE t = s
    BY <1>0, <1>7, <2>1, IdleSave
  <2>2. CASE t # s
    BY <1>0, <1>7, <1>8, <2>2, IdleSave, SavingKept
  <2> QED
    BY <2>1, <2>2
<1>10. LostOnlyWhenOverwritten'
  <2>1. tap <= queue'[q]
    BY <1>1, <1>2, QueueAssumption
  <2> QED
    BY <1>0, <1>1, <1>3, <1>4, <1>7, <2>1, KeepSafe
<1>11. ASSUME NEW p \in Questions PROVE Made(p)'
  <2>1. queue'[p] <= tapped[p]
    <3>1. save[s].seen[p] <= tapped[p]
      BY DEF QInv, Saving
    <3>2. CASE p = q
      BY <1>1, <1>2, <3>2
    <3>3. CASE p # q
      BY <1>2, <3>1, <3>3
    <3> QED
      BY <3>2, <3>3
  <2> QED
    BY <1>0, <2>1 DEF Made, QInv
<1> QED
  BY <1>0, <1>4, <1>7, <1>8, <1>9, <1>10, <1>11, FlushingKept DEF QInv

\* A step of the flush that leaves the storage and the saves alone.
LEMMA FlushAlone ==
  ASSUME QInv, QueueTypeOK', QueueGrows, Flushing', flush'.seen \in {flush.seen, queue, Empty},
         UNCHANGED <<kept, queue, save>>
  PROVE  QInv'
<1>1. ASSUME NEW t \in Saves PROVE Saving(t)'
  BY SavingKept
<1> QED
  BY <1>1, LostKept, MadeKept DEF QInv

LEMMA FlushReadsStep == ASSUME QInv, FlushReads PROVE QInv'
<1>0. /\ UNCHANGED <<online, attempt, server, reached, overtaken, tapped, kept, queue, overwritten, save>>
      /\ flush' = Flush("send", NoQuestion, queue, Pending(queue), Empty)
  BY DEF FlushReads, device
<1>1. queue \in Items /\ Pending(queue) \in SUBSET Questions
  BY DEF QInv, QueueTypeOK, Pending
<1>2. flush' \in FlushType
  BY <1>0, <1>1, EmptyItems, FlushTyped
<1>3. flush'.seen = queue /\ \A q \in flush'.left : flush'.seen[q] # 0
  BY <1>0 DEF Flush, Pending
<1>4. QueueTypeOK'
  BY <1>0, <1>2, <1>3 DEF QInv, QueueTypeOK, FlushType
<1>5. Flushing'
  <2>1. ASSUME NEW q \in Questions PROVE PutBack(q)'
    <3>1. flush'.survivors[q] = 0 /\ (q \in flush'.left <=> queue[q] # 0)
      BY <1>0 DEF Flush, Empty, Pending
    <3> QED
      BY <1>0, <1>3, <3>1 DEF PutBack
  <2> QED
    BY <1>0, <2>1 DEF Flushing, Flush
<1> QED
  BY <1>0, <1>3, <1>4, <1>5, Stays, FlushAlone

\* Of a flush under way.
LEMMA FlushUnderWay ==
  ASSUME QInv, flush.step # "idle"
  PROVE  /\ flush.seen \in Items /\ flush.left \in SUBSET Questions
         /\ flush.survivors \in Items
         /\ \A q \in Questions : PutBack(q)
         /\ \A q \in flush.left : flush.seen[q] # 0
         /\ flush.step = "accepted" => flush.item \in flush.left /\ flush.seen[flush.item] <= reached[flush.item]
  BY DEF QInv, QueueTypeOK, Flushing

LEMMA ItemArrivesStep ==
  ASSUME QInv, NEW q \in Questions, ItemArrives(q) PROVE QInv'
<1>0. /\ UNCHANGED <<online, attempt, tapped, kept, queue, overwritten, save>>
      /\ flush.step = "send" /\ q \in flush.left
      /\ flush' = Flush("accepted", q, flush.seen, flush.left, flush.survivors)
      /\ Store(q, flush.seen[q], Saves)
  BY DEF ItemArrives, device
<1>1. /\ flush.seen \in Items /\ flush.left \in SUBSET Questions
      /\ flush.survivors \in Items
      /\ \A p \in Questions : PutBack(p)
      /\ \A p \in flush.left : flush.seen[p] # 0
  BY <1>0, FlushUnderWay
<1>2. /\ server' \in Items /\ reached' \in Items /\ overtaken' \subseteq Questions /\ QueueGrows
      /\ flush.seen[q] <= reached'[q]
  <2>1. flush.seen[q] \in 0 .. MaxTaps /\ flush.seen[q] <= tapped[q]
    BY Numbers DEF QInv, Made
  <2> QED
    BY <1>0, <2>1, StoreGrows
<1>3. flush' \in FlushType
  BY <1>0, <1>1, FlushTyped
<1>4. /\ flush'.seen = flush.seen /\ flush'.left = flush.left /\ flush'.survivors = flush.survivors
      /\ flush'.step = "accepted" /\ flush'.item = q
  BY <1>0 DEF Flush
<1>5. QueueTypeOK'
  BY <1>0, <1>1, <1>2, <1>3, <1>4 DEF QInv, QueueTypeOK, FlushType
<1>6. ASSUME NEW p \in Questions PROVE PutBack(p)'
  <2>1. PutBack(p)
    BY <1>1
  <2>2. flush.seen[p] <= reached[p] => flush.seen[p] <= reached'[p]
    BY <1>2, <1>5, Numbers, Grown
  <2> QED
    BY <1>0, <1>4, <2>1, <2>2 DEF PutBack
<1>7. Flushing'
  BY <1>0, <1>2, <1>4, <1>6 DEF Flushing
<1> QED
  BY <1>0, <1>2, <1>4, <1>5, <1>7, FlushAlone

LEMMA ItemAnsweredStep == ASSUME QInv, ItemAnswered PROVE QInv'
<1>0. /\ UNCHANGED <<online, attempt, server, reached, overtaken, tapped, kept, queue, overwritten, save>>
      /\ flush.step = "accepted"
      /\ flush' = Flush("send", NoQuestion, flush.seen, flush.left \ {flush.item}, flush.survivors)
  BY DEF ItemAnswered, device
<1>1. /\ flush.seen \in Items /\ flush.left \in SUBSET Questions
      /\ flush.survivors \in Items
      /\ \A p \in Questions : PutBack(p)
      /\ \A p \in flush.left : flush.seen[p] # 0
      /\ flush.item \in flush.left /\ flush.seen[flush.item] <= reached[flush.item]
  BY <1>0, FlushUnderWay
<1>2. flush' \in FlushType
  BY <1>0, <1>1, FlushTyped
<1>3. /\ flush'.seen = flush.seen /\ flush'.left = flush.left \ {flush.item}
      /\ flush'.survivors = flush.survivors /\ flush'.step = "send"
  BY <1>0 DEF Flush
<1>4. QueueTypeOK'
  BY <1>0, <1>1, <1>2, <1>3 DEF QInv, QueueTypeOK, FlushType
<1>5. ASSUME NEW p \in Questions PROVE PutBack(p)'
  BY <1>0, <1>1, <1>3 DEF PutBack
<1>6. Flushing'
  BY <1>3, <1>5 DEF Flushing
<1> QED
  BY <1>0, <1>3, <1>4, <1>6, Stays, FlushAlone

LEMMA ItemFailsStep ==
  ASSUME QInv, NEW q \in Questions, ItemFails(q) PROVE QInv'
<1>0. /\ UNCHANGED <<online, attempt, server, reached, overtaken, tapped, kept, queue, overwritten, save>>
      /\ flush.step # "idle"
      /\ flush' = Flush("send", NoQuestion, flush.seen, flush.left \ {q}, Survivors(q))
  BY DEF ItemFails, device
<1>1. /\ flush.seen \in Items /\ flush.left \in SUBSET Questions
      /\ flush.survivors \in Items
      /\ \A p \in Questions : PutBack(p)
      /\ \A p \in flush.left : flush.seen[p] # 0
      /\ q \in flush.left
  BY <1>0, FlushUnderWay DEF ItemFails
<1>2. /\ Survivors(q) \in Items
      /\ Survivors(q)[q] = IF attempt = "gone" THEN 0 ELSE flush.seen[q]
      /\ \A p \in Questions \ {q} : Survivors(q)[p] = flush.survivors[p]
  <2>1. flush.survivors[q] = 0
    BY <1>1 DEF PutBack
  <2> QED
    BY <1>1, <2>1 DEF Survivors, Items
<1>3. flush' \in FlushType
  BY <1>0, <1>1, <1>2, FlushTyped
<1>4. /\ flush'.seen = flush.seen /\ flush'.left = flush.left \ {q}
      /\ flush'.survivors = Survivors(q) /\ flush'.step = "send"
  BY <1>0 DEF Flush
<1>5. QueueTypeOK'
  BY <1>0, <1>1, <1>3, <1>4 DEF QInv, QueueTypeOK, FlushType
<1>6. ASSUME NEW p \in Questions PROVE PutBack(p)'
  BY <1>0, <1>1, <1>2, <1>4 DEF PutBack
<1>7. Flushing'
  BY <1>4, <1>6 DEF Flushing
<1> QED
  BY <1>0, <1>4, <1>5, <1>7, Stays, FlushAlone

\* The flush writes back what it read and could not send.
LEMMA FlushWritesBack ==
  ASSUME QInv, FlushWrites, NEW q \in Questions
  PROVE  /\ queue'[q] \in {0, flush.seen[q]}
         /\ q \notin overwritten' => /\ flush.seen[q] = queue[q]
                                     /\ \/ queue'[q] = queue[q]
                                        \/ queue'[q] = 0 /\ (queue[q] <= reached[q] \/ attempt = "gone")
<1>1. PutBack(q) /\ q \notin flush.left /\ queue' = flush.survivors
  BY FlushUnderWay DEF FlushWrites
<1>2. q \notin overwritten' => flush.seen[q] = queue[q]
  BY DEF FlushWrites
<1> QED
  BY <1>1, <1>2 DEF PutBack

LEMMA FlushWritesStep ==
  ASSUME QInv, FlushWrites PROVE QInv'
<1>0. /\ UNCHANGED <<online, attempt, server, reached, overtaken, tapped, kept, save>>
      /\ flush.step = "send" /\ queue' = flush.survivors /\ flush' = NoFlush
      /\ overwritten' = overwritten \cup {q \in Questions : flush.seen[q] # queue[q]}
  BY DEF FlushWrites
<1>1. QueueTypeOK'
  <2>1. flush' \in FlushType /\ flush'.left = {} /\ flush.survivors \in Items
    BY <1>0, EmptyItems, FlushUnderWay DEF NoFlush, Flush, FlushType
  <2> QED
    BY <1>0, <2>1 DEF QInv, QueueTypeOK, FlushType
<1>2. QueueGrows
  BY <1>0, Stays
<1>3. ASSUME NEW t \in Saves PROVE Saving(t)'
  BY <1>0, <1>1, <1>2, SavingKept
<1>4. ASSUME NEW q \in Questions PROVE Made(q)'
  <2>1. queue'[q] <= tapped[q]
    BY FlushWritesBack, Numbers, QueueAssumption DEF QInv, Made
  <2>2. Empty[q] <= tapped[q]
    BY Numbers, QueueAssumption DEF Empty
  <2> QED
    BY <1>0, <2>1, <2>2 DEF QInv, Made, NoFlush, Flush
<1>5. LostOnlyWhenOverwritten'
  <2>1. ASSUME NEW q \in Questions \ overwritten', attempt # "gone" PROVE kept[q] <= Newer(reached[q], queue'[q])
    <3>1. /\ kept[q] \in Nat /\ reached[q] \in 0 .. MaxTaps /\ queue[q] \in 0 .. MaxTaps
          /\ queue'[q] \in 0 .. MaxTaps
      BY <1>1, QueueAssumption DEF QInv, QueueTypeOK, Items
    <3>2. kept[q] <= Newer(reached[q], queue[q])
      BY <1>0, <2>1 DEF QInv, LostOnlyWhenOverwritten
    <3>3. kept[q] <= reached[q] \/ kept[q] <= queue[q]
      BY <3>1, <3>2, NewerFacts
    <3>4. queue'[q] = queue[q] \/ queue[q] <= reached[q]
      BY <2>1, FlushWritesBack
    <3>5. kept[q] <= reached[q] \/ kept[q] <= queue'[q]
      BY <3>1, <3>3, <3>4, QueueAssumption
    <3> QED
      BY <3>1, <3>5, NewerFacts
  <2> QED
    BY <1>0, <2>1 DEF LostOnlyWhenOverwritten
<1>6. Flushing'
  BY <1>0 DEF Flushing, NoFlush, Flush
<1> QED
  BY <1>1, <1>3, <1>4, <1>5, <1>6 DEF QInv

\* The network and the attempt change beside the device.
LEMMA BesideStep == ASSUME QInv, NetworkChanges \/ AttemptEnds PROVE QInv'
<1>0. UNCHANGED <<server, reached, overtaken, tapped, kept, queue, overwritten, save, flush>>
  BY DEF NetworkChanges, AttemptEnds, device
<1>1. online' \in BOOLEAN /\ attempt' \in {"open", "closed", "gone"}
  BY DEF NetworkChanges, AttemptEnds, QInv, QueueTypeOK
<1>2. attempt = "gone" => attempt' = "gone"
  BY DEF NetworkChanges, AttemptEnds
<1>3. QueueTypeOK'
  BY <1>0, <1>1 DEF QInv, QueueTypeOK
<1>4. QueueGrows
  <2>1. ASSUME NEW q \in Questions PROVE reached[q] <= reached[q] /\ tapped[q] <= tapped[q] /\ reached[q] <= tapped[q]
    BY QueueAssumption, Numbers DEF QInv, Made
  <2> QED
    BY <1>0, <1>2, <2>1 DEF QueueGrows
<1>5. ASSUME NEW t \in Saves PROVE Saving(t)'
  BY <1>0, <1>3, <1>4, SavingKept
<1> QED
  BY <1>0, <1>3, <1>4, <1>5, FlushingKept, LostKept, MadeKept DEF QInv

\* The storage is all the promise rests on.
LEMMA AppKilledStep == ASSUME QInv, AppKilled PROVE QInv'
<1>0. /\ UNCHANGED <<online, attempt, server, reached, overtaken, tapped, kept, queue, overwritten>>
      /\ save' = [s \in Saves |-> NoSave] /\ flush' = NoFlush
  BY DEF AppKilled, device
<1>1. save' \in [Saves -> SaveType] /\ flush' \in FlushType /\ flush'.left = {} /\ flush'.seen = Empty
  BY <1>0, EmptyItems, QueueAssumption DEF NoSave, Save, SaveType, NoFlush, Flush, FlushType
<1>2. QueueTypeOK'
  BY <1>0, <1>1 DEF QInv, QueueTypeOK, SaveType, FlushType
<1>3. \A t \in Saves : Saving(t)'
  <2>1. \A p \in Questions : Empty[p] <= tapped[p]
    BY QueueAssumption DEF Empty, QInv, QueueTypeOK, Items
  <2> QED
    BY <1>0, <2>1 DEF Saving, NoSave, Save
<1>4. Flushing'
  BY <1>0 DEF Flushing, NoFlush, Flush
<1> QED
  BY <1>0, <1>1, <1>2, <1>3, <1>4, Stays, LostKept, MadeKept DEF QInv

-----------------------------------------------------------------------------

\* An item that leaves the queue without being overwritten has been at the server.
LeavesStep ==
  \A q \in Questions \ overwritten' :
    queue'[q] < queue[q] => reached[q] >= queue[q] \/ attempt = "gone"

LEMMA StepQInv ==
  QInv /\ [QueueNext]_queueVars => QInv' /\ (LeavesStep \/ UNCHANGED queueVars)
<1> SUFFICES ASSUME QInv, [QueueNext]_queueVars
             PROVE  QInv' /\ (LeavesStep \/ UNCHANGED queueVars)
  OBVIOUS
<1>0. ASSUME NEW q \in Questions PROVE queue[q] \in Nat /\ reached[q] \in Nat
  BY QueueAssumption DEF QInv, QueueTypeOK, Items
<1>1. ASSUME queue' = queue PROVE LeavesStep
  BY <1>0, <1>1 DEF LeavesStep
<1>2. CASE UNCHANGED queueVars
  <2>1. QueueTypeOK' /\ LostOnlyWhenOverwritten' /\ \A q \in Questions : Made(q)'
    BY <1>2 DEF queueVars, QInv, QueueTypeOK, LostOnlyWhenOverwritten, Made
  <2>2. Flushing' /\ \A s \in Saves : Saving(s)'
    BY <1>2 DEF queueVars, QInv, Flushing, PutBack, Saving
  <2> QED
    BY <1>2, <2>1, <2>2 DEF QInv, queueVars
<1>3. ASSUME NEW s \in Saves, SaveStep(s) PROVE QInv' /\ LeavesStep
  <2>1. ASSUME NEW q \in Questions, Tap(s, q) PROVE QInv' /\ LeavesStep
    BY <1>1, <2>1, TapStep DEF Tap
  <2>2. CASE SaveArrives(s)
    BY <1>1, <2>2, SaveArrivesStep DEF SaveArrives, device
  <2>3. CASE SaveAnswered(s)
    BY <1>1, <2>3, SaveAnsweredStep DEF SaveAnswered
  <2>4. CASE SaveFails(s)
    <3>1. /\ save[s].step # "idle" /\ To(s, "enqueue", Empty)
          /\ UNCHANGED <<online, attempt, server, reached, overtaken, tapped, kept, queue, overwritten, flush>>
      BY <2>4 DEF SaveFails, device
    <3> QED
      BY <1>1, <3>1, ToQueueStep
  <2>5. CASE EnqueueReads(s)
    <3>1. /\ save[s].step # "idle" /\ To(s, "write", queue)
          /\ UNCHANGED <<online, attempt, server, reached, overtaken, tapped, kept, queue, overwritten, flush>>
      BY <2>5 DEF EnqueueReads, device
    <3> QED
      BY <1>1, <3>1, ToQueueStep
  <2>6. CASE EnqueueWrites(s)
    <3>1. QInv' /\ \A q \in Questions \ overwritten' : queue[q] <= queue'[q]
      BY <2>6, EnqueueWritesStep
    <3>2. ASSUME NEW q \in Questions PROVE queue'[q] \in Nat
      BY <3>1, QueueAssumption DEF QInv, QueueTypeOK, Items
    <3> QED
      BY <3>1, <3>2, <1>0 DEF LeavesStep
  <2> QED
    BY <1>3, <2>1, <2>2, <2>3, <2>4, <2>5, <2>6 DEF SaveStep
<1>4. ASSUME FlushStep PROVE QInv' /\ LeavesStep
  <2>1. CASE FlushReads
    BY <1>1, <2>1, FlushReadsStep DEF FlushReads, device
  <2>2. ASSUME NEW q \in Questions, ItemArrives(q) PROVE QInv' /\ LeavesStep
    BY <1>1, <2>2, ItemArrivesStep DEF ItemArrives, device
  <2>3. ASSUME NEW q \in Questions, ItemFails(q) PROVE QInv' /\ LeavesStep
    BY <1>1, <2>3, ItemFailsStep DEF ItemFails, device
  <2>4. CASE ItemAnswered
    BY <1>1, <2>4, ItemAnsweredStep DEF ItemAnswered, device
  <2>5. CASE FlushWrites
    <3>1. QInv'
      BY <2>5, FlushWritesStep
    <3>2. ASSUME NEW q \in Questions \ overwritten', queue'[q] < queue[q]
          PROVE  reached[q] >= queue[q] \/ attempt = "gone"
      <4>1. queue'[q] # queue[q]
        BY <1>0, <3>2
      <4> QED
        BY <1>0, <2>5, <4>1, FlushWritesBack
    <3> QED
      BY <3>1, <3>2 DEF LeavesStep
  <2> QED
    BY <1>4, <2>1, <2>2, <2>3, <2>4, <2>5 DEF FlushStep
<1>5. ASSUME NetworkChanges \/ AttemptEnds PROVE QInv' /\ LeavesStep
  BY <1>1, <1>5, BesideStep DEF NetworkChanges, AttemptEnds, device
<1>6. ASSUME AppKilled PROVE QInv' /\ LeavesStep
  BY <1>1, <1>6, AppKilledStep DEF AppKilled, device
<1> QED
  BY <1>2, <1>3, <1>4, <1>5, <1>6 DEF QueueNext

\* The inductive invariant of the queue (queue.ts and the exam screen).
THEOREM QueueInvariance == QueueSpec => []QInv
<1>1. QInv /\ [QueueNext]_queueVars => QInv'
  BY StepQInv
<1> QED
  BY <1>1, InitQInv, PTL DEF QueueSpec

\* An answer the screen showed as queued or saved is lost only if its item was
\* overwritten (enqueueAnswer, flushAnswers): not by a lost request or response, a
\* failed flush, a kill of the app, or any order of them.
THEOREM QueueLosesOnlyOverwritten == QueueSpec => [](QueueTypeOK /\ LostOnlyWhenOverwritten)
<1>1. QInv => QueueTypeOK /\ LostOnlyWhenOverwritten
  BY DEF QInv
<1> QED
  BY <1>1, QueueInvariance, PTL

\* ... and an item that is not overwritten leaves the stored queue only once the
\* server has had it (flushAnswers: survivors).
THEOREM QueueDelivers == QueueSpec => LeavesOnlyWhenDelivered
<1>1. QInv /\ [QueueNext]_queueVars
      => [\A q \in Questions \ overwritten' :
            queue'[q] < queue[q] => reached[q] >= queue[q] \/ attempt = "gone"]_queueVars
  BY StepQInv DEF LeavesStep
<1> QED
  BY <1>1, QueueInvariance, PTL DEF QueueSpec, LeavesOnlyWhenDelivered

-----------------------------------------------------------------------------
(* What stands at the server                                                  *)

\* Of a question nothing was overtaken or overwritten of, the server holds the
\* newest tap it ever had, and what waits is no older than that.
Ordered(q) ==
  /\ server[q] = reached[q]
  /\ queue[q] # 0 => reached[q] <= queue[q]
  /\ q \in flush.left => reached[q] <= flush.seen[q]
  /\ \A s \in Saves : save[s].step # "idle" /\ save[s].question = q => reached[q] <= save[s].tap

Straight == Questions \ (overwritten \cup overtaken)

OInv ==
  /\ QInv
  /\ \A q \in Straight : Ordered(q)

LEMMA InitOInv == QueueInit => OInv
<1> SUFFICES ASSUME QueueInit PROVE OInv
  OBVIOUS
<1>1. QInv
  BY InitQInv
<1> QED
  BY <1>1 DEF OInv, Ordered, Straight, QueueInit, NoSave, Save, NoFlush, Flush, Empty

\* A step that brings nothing to the server: no save begins, and where nothing is
\* overwritten the queue and the flush hold nothing they did not.
LEMMA NothingArrives ==
  ASSUME OInv, QInv', UNCHANGED <<server, reached, overtaken>>, overwritten \subseteq overwritten',
         \A q \in Questions \ overwritten' :
           /\ queue'[q] \in {0, queue[q]}
           /\ q \in flush'.left => \/ q \in flush.left /\ flush'.seen[q] = flush.seen[q]
                                   \/ queue[q] # 0 /\ flush'.seen[q] = queue[q],
         \A s \in Saves : save'[s].step # "idle" => /\ save[s].step # "idle"
                                                    /\ save'[s].question = save[s].question
                                                    /\ save'[s].tap = save[s].tap
  PROVE  OInv'
<1> SUFFICES ASSUME NEW q \in Straight' PROVE Ordered(q)'
  BY DEF OInv
<1>1. q \in Questions \ overwritten' /\ q \in Straight /\ Ordered(q)
  BY DEF Straight, OInv
<1> QED
  BY <1>1 DEF Ordered

\* Tap n of question q arrives at the server: where it overtakes nothing, what
\* waits is no older.
LEMMA Arrives ==
  ASSUME OInv, QInv', NEW q \in Questions, NEW n \in 0 .. MaxTaps, NEW saves, Store(q, n, saves),
         Ordered(q) => reached[q] <= n,
         \A s \in Saves \ saves : save[s].step # "idle" /\ save[s].question = q => n <= save[s].tap,
         saves \subseteq Saves,
         UNCHANGED <<queue, overwritten>>, flush'.left = flush.left, flush'.seen = flush.seen,
         \A s \in Saves : /\ save[s].step # "idle" <=> save'[s].step # "idle"
                          /\ save'[s].question = save[s].question
                          /\ save'[s].tap = save[s].tap
  PROVE  OInv'
<1> SUFFICES ASSUME NEW p \in Straight' PROVE Ordered(p)'
  BY DEF OInv
<1>1. p \in Straight /\ p \in Questions /\ Ordered(p)
  BY DEF Straight, OInv, Store
<1>2. server \in [Questions -> 0 .. MaxTaps] /\ reached \in [Questions -> 0 .. MaxTaps]
  BY DEF OInv, QInv, QueueTypeOK, Items
<1>3. CASE p # q
  <2>1. server'[p] = server[p] /\ reached'[p] = reached[p]
    BY <1>2, <1>3 DEF Store
  <2> QED
    BY <1>1, <2>1 DEF Ordered
<1>4. CASE p = q
  <2>1. ~OlderWaits(q, n, saves)
    BY <1>4 DEF Straight, Store
  <2>2. reached[q] <= n /\ reached[q] \in 0 .. MaxTaps
    BY <1>1, <1>2, <1>4
  <2>3. Newer(reached[q], n) = n
    BY <2>2, QueueAssumption DEF Newer
  <2>4. server'[q] = n /\ reached'[q] = n
    BY <1>2, <2>3 DEF Store
  <2>5. queue[q] # 0 => n <= queue[q]
    <3>1. queue[q] \in 0 .. MaxTaps
      BY DEF OInv, QInv, QueueTypeOK, Items
    <3> QED
      BY <2>1, <3>1, QueueAssumption DEF OlderWaits
  <2>6. q \in flush.left => n <= flush.seen[q]
    <3>1. flush.seen[q] \in 0 .. MaxTaps
      BY DEF OInv, QInv, QueueTypeOK, Items
    <3> QED
      BY <2>1, <3>1, QueueAssumption DEF OlderWaits
  <2>7. ASSUME NEW s \in Saves, save[s].step # "idle", save[s].question = q PROVE n <= save[s].tap
    <3>1. save[s].tap \in 0 .. MaxTaps
      BY DEF OInv, QInv, QueueTypeOK
    <3>2. CASE s \in saves
      BY <2>1, <2>7, <3>1, <3>2, QueueAssumption DEF OlderWaits
    <3>3. CASE s \notin saves
      BY <2>7, <3>3
    <3> QED
      BY <3>2, <3>3
  <2> QED
    BY <1>4, <2>4, <2>5, <2>6, <2>7 DEF Ordered
<1> QED
  BY <1>3, <1>4

LEMMA TapOrdered ==
  ASSUME OInv, QInv', NEW s \in Saves, NEW q \in Questions, Tap(s, q) PROVE OInv'
<1>0. save \in [Saves -> SaveType] /\ QInv
  BY DEF OInv, QInv, QueueTypeOK, SaveType
<1>1. /\ UNCHANGED <<server, reached, overtaken, queue, overwritten, flush>>
      /\ save'[s].question = q /\ save'[s].tap = tapped[q] + 1
      /\ \A t \in Saves \ {s} : save'[t] = save[t]
  BY <1>0 DEF Tap, Save
<1>2. reached[q] <= tapped[q] + 1
  BY <1>0, Numbers, QueueAssumption DEF QInv, Made
<1> SUFFICES ASSUME NEW p \in Straight' PROVE Ordered(p)'
  BY DEF OInv
<1>3. Ordered(p)
  BY <1>1 DEF Straight, OInv
<1>4. ASSUME NEW t \in Saves, save'[t].step # "idle", save'[t].question = p PROVE reached[p] <= save'[t].tap
  <2>1. CASE t = s
    BY <1>1, <1>2, <1>4, <2>1
  <2>2. CASE t # s
    BY <1>1, <1>3, <1>4, <2>2 DEF Ordered
  <2> QED
    BY <2>1, <2>2
<1> QED
  BY <1>1, <1>3, <1>4 DEF Ordered

LEMMA SaveOrdered ==
  ASSUME OInv, QInv', NEW s \in Saves, SaveStep(s) PROVE OInv'
<1>0. save \in [Saves -> SaveType] /\ QInv
  BY DEF OInv, QInv, QueueTypeOK, SaveType
<1>1. ASSUME NEW q \in Questions, Tap(s, q) PROVE OInv'
  BY <1>1, TapOrdered
<1>2. CASE SaveArrives(s)
  <2> DEFINE q == save[s].question
             n == save[s].tap
             saves == {t \in Saves : ~save[t].chained}
  <2>1. /\ save[s].step = "direct" /\ InTurn(s) /\ Store(q, n, saves) /\ UNCHANGED <<queue, overwritten, flush>>
        /\ save' = [save EXCEPT ![s] = Save("accepted", q, n, save[s].chained, Empty)]
    BY <1>2 DEF SaveArrives, device, To
  <2>2. save'[s].step = "accepted" /\ save'[s].question = q /\ save'[s].tap = n
        /\ \A t \in Saves \ {s} : save'[t] = save[t]
    BY <1>0, <2>1 DEF Save
  <2>3. q \in Questions /\ n \in 0 .. MaxTaps
    BY <2>1, <1>0, UnderWay
  <2>4. Ordered(q) => reached[q] <= n
    BY <2>1 DEF Ordered
  <2>5. ASSUME NEW t \in Saves \ saves, save[t].step # "idle", save[t].question = q PROVE n <= save[t].tap
    <3>1. save[t].tap \in 0 .. MaxTaps /\ save[t].chained
      BY <1>0, <2>5 DEF SaveType
    <3>2. CASE t = s
      BY <2>3, <3>2, QueueAssumption
    <3>3. CASE t # s
      BY <2>1, <2>3, <2>5, <3>1, <3>3, QueueAssumption DEF InTurn
    <3> QED
      BY <3>2, <3>3
  <2>6. ASSUME NEW t \in Saves
        PROVE  /\ save[t].step # "idle" <=> save'[t].step # "idle"
               /\ save'[t].question = save[t].question /\ save'[t].tap = save[t].tap
    BY <2>1, <2>2
  <2> QED
    BY <2>1, <2>3, <2>4, <2>5, <2>6, Arrives
<1>3. CASE SaveAnswered(s)
  <2>1. /\ UNCHANGED <<server, reached, overtaken, queue, overwritten, flush>>
        /\ save' = [save EXCEPT ![s] = NoSave]
    BY <1>3 DEF SaveAnswered
  <2>2. save'[s].step = "idle" /\ \A t \in Saves \ {s} : save'[t] = save[t]
    BY <1>0, <2>1 DEF NoSave, Save
  <2> QED
    BY <2>1, <2>2, NothingArrives
<1>4. CASE SaveFails(s)
  BY <1>0, <1>4, NothingArrives DEF SaveFails, To, Save, device
<1>5. CASE EnqueueReads(s)
  BY <1>0, <1>5, NothingArrives DEF EnqueueReads, To, Save, device
<1>6. CASE EnqueueWrites(s)
  <2> DEFINE q == save[s].question
             n == save[s].tap
  <2>1. /\ save[s].step = "write" /\ UNCHANGED <<server, reached, overtaken, flush>>
        /\ queue' = [save[s].seen EXCEPT ![q] = n]
        /\ overwritten' = overwritten \cup OverwrittenBy(s)
        /\ save' = [save EXCEPT ![s] = NoSave]
    BY <1>6 DEF EnqueueWrites, WithAnswer
  <2>2. save[s].seen \in Items /\ q \in Questions
    BY <1>0, <2>1, UnderWay
  <2>3. queue'[q] = n /\ \A p \in Questions \ {q} : queue'[p] = save[s].seen[p]
    BY <2>1, <2>2 DEF Items
  <2>4. save'[s].step = "idle" /\ \A t \in Saves \ {s} : save'[t] = save[t]
    BY <1>0, <2>1 DEF NoSave, Save
  <2> SUFFICES ASSUME NEW p \in Straight' PROVE Ordered(p)'
    BY DEF OInv
  <2>5. p \in Questions /\ Ordered(p) /\ p \notin OverwrittenBy(s)
    BY <2>1 DEF Straight, OInv
  <2>6. queue'[p] # 0 => reached[p] <= queue'[p]
    <3>1. CASE p = q
      BY <2>1, <2>3, <2>5, <3>1 DEF Ordered
    <3>2. CASE p # q
      BY <2>3, <2>5, <3>2 DEF Ordered, OverwrittenBy
    <3> QED
      BY <3>1, <3>2
  <2> QED
    BY <2>1, <2>4, <2>5, <2>6 DEF Ordered
<1> QED
  BY <1>1, <1>2, <1>3, <1>4, <1>5, <1>6 DEF SaveStep

LEMMA FlushOrdered == ASSUME OInv, QInv', FlushStep PROVE OInv'
<1>0. QInv
  BY DEF OInv
<1>1. CASE FlushReads
  <2>1. /\ UNCHANGED <<server, reached, overtaken, queue, overwritten, save>>
        /\ flush'.seen = queue /\ flush'.left = Pending(queue)
    BY <1>1 DEF FlushReads, device, Flush
  <2> QED
    BY <2>1, NothingArrives DEF Pending
<1>2. CASE ItemAnswered
  <2>1. /\ UNCHANGED <<server, reached, overtaken, queue, overwritten, save>>
        /\ flush'.seen = flush.seen /\ flush'.left \subseteq flush.left
    BY <1>2 DEF ItemAnswered, device, Flush
  <2> QED
    BY <2>1, NothingArrives
<1>3. ASSUME NEW q \in Questions, ItemFails(q) PROVE OInv'
  <2>1. /\ UNCHANGED <<server, reached, overtaken, queue, overwritten, save>>
        /\ flush'.seen = flush.seen /\ flush'.left \subseteq flush.left
    BY <1>3 DEF ItemFails, device, Flush
  <2> QED
    BY <2>1, NothingArrives
<1>4. ASSUME NEW q \in Questions, ItemArrives(q) PROVE OInv'
  <2>1. /\ Store(q, flush.seen[q], Saves) /\ UNCHANGED <<save, queue, overwritten>>
        /\ q \in flush.left /\ flush'.left = flush.left /\ flush'.seen = flush.seen
    BY <1>4 DEF ItemArrives, device, Flush
  <2>2. flush.seen[q] \in 0 .. MaxTaps
    BY <1>0, Numbers
  <2>3. Ordered(q) => reached[q] <= flush.seen[q]
    BY <2>1 DEF Ordered
  <2> QED
    BY <2>1, <2>2, <2>3, Arrives
<1>5. CASE FlushWrites
  <2>1. /\ UNCHANGED <<server, reached, overtaken, save>> /\ overwritten \subseteq overwritten'
        /\ flush'.left = {}
    BY <1>5 DEF FlushWrites, NoFlush, Flush
  <2>2. ASSUME NEW q \in Questions \ overwritten' PROVE queue'[q] \in {0, queue[q]}
    BY <1>0, <1>5, FlushWritesBack
  <2> QED
    BY <2>1, <2>2, NothingArrives
<1> QED
  BY <1>1, <1>2, <1>3, <1>4, <1>5 DEF FlushStep

\* What breaks "newest-wins locally ... so replay order cannot corrupt an attempt"
\* (queue.ts:16-17) is a newer answer that passed an older one in the queue, on its
\* way there or with a flush, or an item that was overwritten, and nothing else: no
\* lost response, failed flush, kill of the app or change of the network puts an
\* older answer in the place of a newer one, nor do direct saves, which wait for
\* each other.
THEOREM NewestStandsUnlessOvertaken == QueueSpec => []StaleOnlyWhenOvertaken
<1>1. OInv /\ [QueueNext]_queueVars => OInv'
  <2> SUFFICES ASSUME OInv, [QueueNext]_queueVars PROVE OInv'
    OBVIOUS
  <2>0. QInv'
    BY StepQInv DEF OInv
  <2>1. CASE UNCHANGED queueVars
    BY <2>0, <2>1, NothingArrives DEF queueVars
  <2>2. ASSUME NEW s \in Saves, SaveStep(s) PROVE OInv'
    BY <2>0, <2>2, SaveOrdered
  <2>3. CASE FlushStep
    BY <2>0, <2>3, FlushOrdered
  <2>4. CASE NetworkChanges \/ AttemptEnds
    BY <2>0, <2>4, NothingArrives DEF NetworkChanges, AttemptEnds, device
  <2>5. CASE AppKilled
    <3>1. /\ UNCHANGED <<server, reached, overtaken, queue, overwritten>>
          /\ \A s \in Saves : save'[s].step = "idle"
          /\ flush'.left = {}
      BY <2>5 DEF AppKilled, device, NoSave, Save, NoFlush, Flush
    <3> QED
      BY <2>0, <3>1, NothingArrives
  <2> QED
    BY <2>1, <2>2, <2>3, <2>4, <2>5 DEF QueueNext
<1>2. OInv => StaleOnlyWhenOvertaken
  BY DEF OInv, StaleOnlyWhenOvertaken, Straight, Ordered
<1> QED
  BY <1>1, <1>2, InitOInv, PTL DEF QueueSpec
=============================================================================
