------------------------------ MODULE AnswerQueue ------------------------------
(* The offline queue of a mobile student's exam answers (resilience/queue.ts) *)
(* and the exam screen that feeds and flushes it ([templateId].tsx).  The     *)
(* queue is one value of the device's storage: every change of it is a read,  *)
(* an await and a write of the whole.  A tap is known by its number, newest   *)
(* last; the items of one attempt are kept as a function of the question.     *)
EXTENDS Naturals

CONSTANTS
  Questions, NoQuestion,
  Saves,      \* saves that can be under way at the same time
  MaxTaps     \* bound on the taps of one question

ASSUME QueueAssumption == MaxTaps \in Nat

VARIABLES
  online,     \* what NetInfo last told the screen
  attempt,    \* the attempt on the server: "open", "closed" or "gone"
  server,     \* server[q]: the tap the server holds as the answer, 0 for none
  reached,    \* reached[q]: the newest tap the server ever held
  tapped,     \* tapped[q]: the newest tap
  kept,       \* kept[q]: the newest tap whose chip said queued or saved
  queue,      \* queue[q]: the tap the storage holds for q, 0 for none
  save,       \* save[s]: the step of a save, its tap, the queue it read
  flush,      \* the flush under way: the queue it read, what it has yet to send
  overwritten, \* history: the questions whose queued tap a write replaced by an
               \* older one, or by what was read before that tap was there
  overtaken    \* history: the questions of which a tap reached the server before
               \* an older one that was queued, or on its way there or back

queueVars == <<online, attempt, server, reached, tapped, kept, queue, save, flush, overwritten, overtaken>>
device == <<tapped, kept, queue, overwritten>>

Empty == [q \in Questions |-> 0]
Save(step, q, tap, chained, seen) ==
  [step |-> step, question |-> q, tap |-> tap, chained |-> chained, seen |-> seen]
NoSave == Save("idle", NoQuestion, 0, FALSE, Empty)
Flush(step, item, seen, left, survivors) ==
  [step |-> step, item |-> item, seen |-> seen, left |-> left, survivors |-> survivors]
NoFlush == Flush("idle", NoQuestion, Empty, {}, Empty)
Newer(m, n) == IF m > n THEN m ELSE n

QueueInit ==
  /\ online \in BOOLEAN
  /\ attempt = "open"
  /\ server = Empty /\ reached = Empty
  /\ tapped = Empty /\ kept = Empty
  /\ queue = Empty
  /\ save = [s \in Saves |-> NoSave]
  /\ flush = NoFlush
  /\ overwritten = {} /\ overtaken = {}

-----------------------------------------------------------------------------
(* The screen's saves (runAnswerSave)                                         *)

\* A tap is sent when the screen believes itself online, queued otherwise.
planAnswerSave == IF online THEN "direct" ELSE "enqueue"

Tap(s, q) ==
  /\ save[s].step = "idle"
  /\ tapped[q] < MaxTaps
  /\ tapped' = [tapped EXCEPT ![q] = @ + 1]
  /\ save' = [save EXCEPT ![s] = Save(planAnswerSave, q, tapped[q] + 1, online, Empty)]
  /\ UNCHANGED <<online, attempt, server, reached, overtaken, kept, queue, overwritten, flush>>

\* pendingSavesRef: direct saves of one question run one behind the other.
InTurn_Unchained(s) == TRUE
InTurn(s) ==
  \A t \in Saves \ {s} :
    save[t].chained /\ save[t].question = save[s].question => save[t].tap > save[s].tap

\* An older tap of the question is queued, or in a flush or one of the saves.
OlderWaits(q, tap, saves) ==
  \/ queue[q] # 0 /\ queue[q] < tap
  \/ q \in flush.left /\ flush.seen[q] < tap
  \/ \E s \in saves : save[s].step # "idle" /\ save[s].question = q /\ save[s].tap < tap

\* The server's answer route: the last tap to arrive is the answer.
Store(q, tap, saves) ==
  /\ attempt = "open"
  /\ overtaken' = IF OlderWaits(q, tap, saves) THEN overtaken \cup {q} ELSE overtaken
  /\ server' = [server EXCEPT ![q] = tap]
  /\ reached' = [reached EXCEPT ![q] = Newer(reached[q], tap)]

To(s, step, seen) ==
  save' = [save EXCEPT ![s] =
    Save(step, save[s].question, save[s].tap, save[s].chained, seen)]

SaveArrives(s) ==
  /\ save[s].step = "direct" /\ InTurn(s)
  /\ Store(save[s].question, save[s].tap, {t \in Saves : ~save[t].chained})
  /\ To(s, "accepted", Empty)
  /\ UNCHANGED <<online, attempt, flush, device>>

Keep(q, tap) == kept' = [kept EXCEPT ![q] = Newer(kept[q], tap)]

SaveAnswered(s) ==
  /\ save[s].step = "accepted"
  /\ Keep(save[s].question, save[s].tap)
  /\ save' = [save EXCEPT ![s] = NoSave]
  /\ UNCHANGED <<online, attempt, server, reached, overtaken, tapped, queue, overwritten, flush>>

\* The request or its response is lost, or refused: the tap is parked.
SaveFails(s) ==
  /\ \/ save[s].step = "direct" /\ InTurn(s)
     \/ save[s].step = "accepted"
  /\ To(s, "enqueue", Empty)
  /\ UNCHANGED <<online, attempt, server, reached, overtaken, flush, device>>

\* enqueueAnswer: reads the queue ...
EnqueueReads(s) ==
  /\ save[s].step = "enqueue"
  /\ To(s, "write", queue)
  /\ UNCHANGED <<online, attempt, server, reached, overtaken, flush, device>>

\* ... and writes it back with the answer added or replaced.
WithAnswer_KeepsPending(items, q, tap) ==
  IF items[q] = 0 THEN [items EXCEPT ![q] = tap] ELSE items
WithAnswer(items, q, tap) == [items EXCEPT ![q] = tap]

\* Of the other questions, what came between the read and the write is undone.
OverwrittenBy(s) ==
  {q \in Questions : IF q = save[s].question THEN save[s].tap < queue[q] ELSE save[s].seen[q] # queue[q]}

EnqueueWrites(s) ==
  /\ save[s].step = "write"
  /\ queue' = WithAnswer(save[s].seen, save[s].question, save[s].tap)
  /\ overwritten' = overwritten \cup OverwrittenBy(s)
  /\ Keep(save[s].question, save[s].tap)
  /\ save' = [save EXCEPT ![s] = NoSave]
  /\ UNCHANGED <<online, attempt, server, reached, overtaken, tapped, flush>>

-----------------------------------------------------------------------------
(* The flush (flushAnswers)                                                   *)

Pending(items) == {q \in Questions : items[q] # 0}

\* On reconnect, on entering the screen and before a submit; one at a time.
FlushReads ==
  /\ flush.step = "idle"
  /\ flush' = Flush("send", NoQuestion, queue, Pending(queue), Empty)
  /\ UNCHANGED <<online, attempt, server, reached, overtaken, save, device>>

\* One item after the other; which comes first is left open.
ItemArrives(q) ==
  /\ flush.step = "send" /\ q \in flush.left
  /\ Store(q, flush.seen[q], Saves)
  /\ flush' = Flush("accepted", q, flush.seen, flush.left, flush.survivors)
  /\ UNCHANGED <<online, attempt, save, device>>

ItemAnswered ==
  /\ flush.step = "accepted"
  /\ flush' = Flush("send", NoQuestion, flush.seen, flush.left \ {flush.item}, flush.survivors)
  /\ UNCHANGED <<online, attempt, server, reached, overtaken, save, device>>

\* shouldDrop: only what the server does not find is given up.
Survivors_Forgotten(q) == flush.survivors
Survivors(q) ==
  IF attempt = "gone" THEN flush.survivors
  ELSE [flush.survivors EXCEPT ![q] = flush.seen[q]]

ItemFails(q) ==
  /\ \/ flush.step = "send" /\ q \in flush.left
     \/ flush.step = "accepted" /\ q = flush.item
  /\ flush' = Flush("send", NoQuestion, flush.seen, flush.left \ {q}, Survivors(q))
  /\ UNCHANGED <<online, attempt, server, reached, overtaken, save, device>>

FlushWrites ==
  /\ flush.step = "send" /\ flush.left = {}
  /\ queue' = flush.survivors
  /\ overwritten' = overwritten \cup {q \in Questions : flush.seen[q] # queue[q]}
  /\ flush' = NoFlush
  /\ UNCHANGED <<online, attempt, server, reached, overtaken, tapped, kept, save>>

-----------------------------------------------------------------------------
(* Around them                                                                *)

NetworkChanges ==
  /\ online' = ~online
  /\ UNCHANGED <<attempt, server, reached, overtaken, save, flush, device>>

\* Handed in or expired; with its demo account, the attempt itself goes.
AttemptEnds ==
  /\ \/ attempt = "open" /\ attempt' = "closed"
     \/ attempt # "gone" /\ attempt' = "gone"
  /\ UNCHANGED <<online, server, reached, overtaken, save, flush, device>>

\* The operating system kills the app: the storage is all that stays.
AppKilled ==
  /\ save' = [s \in Saves |-> NoSave]
  /\ flush' = NoFlush
  /\ UNCHANGED <<online, attempt, server, reached, overtaken, device>>

SaveStep(s) ==
  \/ \E q \in Questions : Tap(s, q)
  \/ SaveArrives(s)
  \/ SaveAnswered(s)
  \/ SaveFails(s)
  \/ EnqueueReads(s)
  \/ EnqueueWrites(s)

FlushStep ==
  \/ FlushReads
  \/ \E q \in Questions : ItemArrives(q) \/ ItemFails(q)
  \/ ItemAnswered
  \/ FlushWrites

QueueNext ==
  \/ \E s \in Saves : SaveStep(s)
  \/ FlushStep
  \/ NetworkChanges
  \/ AttemptEnds
  \/ AppKilled

QueueSpec == QueueInit /\ [][QueueNext]_queueVars

-----------------------------------------------------------------------------
(* Properties                                                                 *)

Items == [Questions -> 0 .. MaxTaps]

\* The type invariant; a flush sends only what the queue held.
QueueTypeOK ==
  /\ online \in BOOLEAN /\ attempt \in {"open", "closed", "gone"}
  /\ server \in Items /\ reached \in Items
  /\ tapped \in Items /\ kept \in Items /\ queue \in Items
  /\ save \in [Saves ->
       [step : {"idle", "direct", "accepted", "enqueue", "write"},
        question : Questions \cup {NoQuestion}, tap : 0 .. MaxTaps, chained : BOOLEAN, seen : Items]]
  /\ flush \in [step : {"idle", "send", "accepted"}, item : Questions \cup {NoQuestion},
               seen : Items, left : SUBSET Questions, survivors : Items]
  /\ \A q \in flush.left : flush.seen[q] # 0
  /\ overwritten \subseteq Questions /\ overtaken \subseteq Questions

\* The queue's promise ("must never lose a tap to a train tunnel", queue.ts:4):
\* an answer whose chip said queued or saved has reached the server or is in the
\* queue still.
NothingLost ==
  attempt # "gone" => \A q \in Questions : kept[q] <= Newer(reached[q], queue[q])

\* What of it the code keeps: such an answer is lost only if its item was
\* overwritten, by an enqueue or a flush that read the queue before it was there
\* or by the late enqueue of an older answer.  No lost request or response, no
\* failed flush, no kill of the app and no order of them loses it.
LostOnlyWhenOverwritten ==
  attempt # "gone" =>
    \A q \in Questions \ overwritten : kept[q] <= Newer(reached[q], queue[q])

\* An item that is not overwritten gives way to a newer answer of its question
\* only, and leaves the queue only once the server has had it ("dropped items are
\* reported, never lost silently").
LeavesOnlyWhenDelivered ==
  [][\A q \in Questions \ overwritten' :
       queue'[q] < queue[q] => reached[q] >= queue[q] \/ attempt = "gone"]_queueVars

\* The comment's "replay order cannot corrupt an attempt" (queue.ts:16-17): what
\* is replayed never puts an older answer in the place of a newer one.
NewestStands == \A q \in Questions : server[q] = reached[q]

\* What of it the code keeps: direct saves never pass each other, so that an older
\* answer comes to stand only where a newer one passed it in the queue, on its way
\* there, or with a flush, or where an item was overwritten.
StaleOnlyWhenOvertaken ==
  \A q \in Questions \ (overwritten \cup overtaken) : server[q] = reached[q]
=============================================================================
