# Madarek: specification and verification

Madarek is an Arabic-first learning platform: an Express/TypeScript server over
PostgreSQL (Prisma), a React frontend and an Expo mobile app. These modules
specify, in TLA+, the parts of it whose correctness depends on the order in which
concurrent requests reach the database, or on what is lost between a device and the
server. TLC checks them on small instances; TLAPS proves the main results for all
values of the constants.

Paths below are relative to the repository. `exams:1333` abbreviates line 1333 of
`backend/src/http/routes/exams.routes.ts`, and likewise for the other routes.

1. [The system](#1-the-system)
2. [What makes it hard](#2-what-makes-it-hard)
3. [Modules](#3-modules)
4. [Runs and bounds](#4-runs-and-bounds)
5. [Where the code and its comments disagree](#5-where-the-code-and-its-comments-disagree)
6. [Proofs](#6-proofs)
7. [Checked, not proved](#7-checked-not-proved)
8. [Not modelled](#8-not-modelled)
9. [Plan](#9-plan)

## 1. The system

One Node process serves HTTP. Every handler is an async function of a request: it
reads rows, decides, writes rows, and between any two of its statements other handlers
run. Shared state lives in PostgreSQL at its default isolation, READ COMMITTED (no
transaction of the code asks for another). Three disciplines protect it:

- `SELECT ... FOR UPDATE` on a parent row, then a decision, then a write, in one transaction;
- conditional updates, `updateMany({ where: { id, status } })`, whose count says who won;
- unique indexes, whose violation is a 409.

Where a handler uses none of them, its interleavings are what they are.

| Component | State | Operations that change it | Correct when |
|---|---|---|---|
| Exam attempts (`exams.routes.ts`) | `ExamAttempt`, `ExamAnswer`, a notification | start, answer, submit, manual grade | one attempt per exam; no saved answer is lost or left unmarked; a score is the sum of its marks; a verdict is final |
| Exam templates (`exams.routes.ts`) | `Question.isApproved`, `ExamTemplate` | moderate a question; create, clone, edit, moderate, publish a template | what students sit is what a moderator approved |
| Library (`catalog.routes.ts`, `demo-cohort.ts`) | `Book.availableCopies`, `Loan` | borrow, return, remove the demo students | copies are conserved; one loan per title and reader |
| Seats (`enrollments.routes.ts`, `modules/invites`, `auth.service.ts`) | `Enrollment`, `InviteCode`, `InviteUse` | enrol, drop, register, redeem, create and revoke a code | capacity and the uses of a code hold |
| Watching (`learning.routes.ts`, `curriculum.routes.ts`, `enrollments.routes.ts`) | `WatchEvent`, `AttendanceRecord`, `Enrollment.progressPct` | watch tick, add and delete a lecture, roll call, live join, drop and enrol a student | progress never rewinds and is earned; the teacher's mark stands |
| Mastery (`learning.routes.ts`) | `StudentMastery`, `CheckpointAnswer` | answer a checkpoint | only so many answers count; the level is theirs |
| Mobile answer queue (`resilience/queue.ts`, `[templateId].tsx`) | one value in the device's storage | tap, direct save, enqueue, flush | no answer is lost, none overwritten by an older one |
| Accounts and sessions (`modules/auth`) | `tokenVersion`, `failedLoginCount`, `lockedUntil`, reset tokens | login, refresh, choice of institution, logout, change and reset password, role and status changes | a session ends with the password and the account; lockout holds; a reset link is spent once |
| Governance (`lib/governance.ts`, `owner`, `users`, `permissions`) | roles, active flags | demote, disable, enable | there is always an active owner; the locks do not ring |
| Transcription (`curriculum:722-800`, `modules/ai/stt.ts`) | `Lecture.transcriptStatus` | request, run, fail | one job at a time; every job ends |
| Submissions (`submissions.routes.ts`, `teacher-dashboard.routes.ts`) | `Submission`, the page a teacher grades from | submit, submit again, grade | a grade is of the text the teacher read, and stays on it |
| Training (`training.routes.ts`) | `TrainingEnrollment`, `LessonProgress`, points, badges | enrol, complete a lesson | points, certificate and badge are those of what was completed, once |
| Social (`social.routes.ts`) | RSVPs, entries, rooms, posts | answer an event; enter, close, score and judge a competition; join, post | capacity; no entry after the close; judged once |
| Research papers (`learning.routes.ts`) | `ResearchPaper` | upload, scan, grade, publish | a published paper is final; one upload of a work |
| AI assistant (`lib/ai`) | daily and monthly counters | ask | quotas hold |
| Scheduler, registry sync | an in-memory set, `SyncRun` | periodic and manual sync | one sync per institution at a time |
| Notifications, push, mail, files | rows, external services | fire and forget | out of scope |
| Dashboards, search, catalogue, institutions | none | reads | out of scope |
| Web frontend, rest of the mobile app | session, caches | views | single-flight refresh |

How they interact: attempts depend on templates through the row a start locks and through
the status and window it reads; templates on the question bank through approval. Seats,
watching and submissions meet in `Enrollment`. The mobile queue talks to the answer route
of the attempts. Governance and sessions meet in the `User` row: disabling a user moves the version
that its tokens carry. The removal of the demo cohort deletes rows of all of them.

## 2. What makes it hard

`PROJECT.json` lists the hazards line by line, each with the properties that catch it.
In short:

- *Interleaving of handlers*: two starts, two submits, answer against submit, two graders;
  borrow against return; registrar against invite; two completed lectures; concurrent answers; a login
  or a refresh against a password change; two owners against each other; the last two lessons of a track;
  a grade against a resubmission, a scan against a publication, an entry against the close.
- *Stale reads*: every handler reads and checks before it locks or claims. What it re-reads
  under the lock, and what it does not, decides most of the properties.
- *Deadlines*: answers and submits are accepted for a grace period after `expiresAt`; a late
  submit and a new start both expire the attempt.
- *Failure in the middle*: a transaction rolls back at any statement; a handler without one
  leaves the statements it has run.
- *Retries*: moderation decisions, returns, codes and queued answers are all sent again.
- *The device*: requests and responses are lost, the operating system kills the app, and the
  queue is read and written whole around awaits.

## 3. Modules

Conventions. A request in flight is a record `req[r]` (or `edit`, `post`, `answer`, `save`) with
a `step` and what the handler holds in local variables. One action is one database statement
that another request can slip past, together with everything the handler does up to the next
such point; consecutive reads that no property can tell apart are one action. A statement that
waits for a row lock is an action that is not enabled. The writes of a transaction become visible
at its last step, which is what READ COMMITTED shows to others; the `Abort` actions roll a
transaction back at any step before. A request that a guard refuses changes nothing and is no action.
Operators named `X_Something` are the plausible bugs of operator `X` that the mutation
checks put in its place; no specification uses them.

**ExamData** — rows and pure functions of the engine: `gradeExamAnswer`, the grading loop of submit
(`AutoGraded`, `TotalAwarded`, `finalStatus`), `reconcileManualGrades`, `attemptBlockingStatuses`,
`decideExamStart`. An answer is `"none"`, `"right"` or `"wrong"`; whether a question
is graded by hand is the set `Manual`.

**ExamContract** — the abstract specification: what the engine promises, with five atomic steps
(`Open`, `Save`, `HandIn`, `Expire`, `Finalize`) and no requests, locks or clock.

**ExamAttempts** — the handlers. Start: `StartRead` (the guards), `StartLock` (FOR UPDATE and `findFirst`),
`StartFlip` (an overdue attempt becomes EXPIRED, conditionally), `StartDecide` (`decideExamStart`, create).
Answer: `AnswerRead`, `AnswerLock` (lock and the re-checked guards), `AnswerWrite`. Submit: `SubmitRead`,
`SubmitExpire` or `SubmitLock` and `SubmitClaim` (claim, marks). Grade: `GradeRead`, `GradeClaim`
(claim, marks, notification). `Abort` is a rollback, `TemplateChange` and `Tick` the environment. It implements
`ExamContract` (`ImplementsContract`) by the identity on the shared variables.

**ExamTemplates** — create, clone, publish, edit (a read, then one conditional update) and the moderation
of questions and templates (one unconditional update). Title, duration and the other safe fields are one
counter `version`, which an edit advances. `viewed` is what a moderation page shows; a page in `Retrying` may send
a decision again (the page offers a retry after a failed request,
`frontend/.../OnlineExamsPages.tsx`), the others send it once per reading. To the handler, one page in `Retrying` is any number of
pages: it updates by id, with a decision either way, at any time and as often as it likes. `verdictOn`, `judged`,
`wasApproved` and `takenBack` (the templates a decision reached while they were published, until they are published again)
are history variables: no action reads them.

**ExamSystem** — both on one database and one clock: `live`, the parameter of `ExamAttempts`, becomes the set of
templates that are PUBLISHED and inside their window, and an update of a template row waits for the start
that has it locked. `ImplementsAttempts` says that what `ExamAttempts` assumes of its
environment is what the template handlers do.

**Library** — a borrow claims a copy by a conditional decrement, which locks the book's row and thereby
serialises the `findFirst` for an active loan; a return claims the loan and then adds the copy with a clamp.
No code writes `LoanStatus.OVERDUE`, so it is left out. It implements **Lending** (`ImplementsLending`): a copy lent to a reader who has none of the
title, and a copy taken back, each one atomic step with no request, no lock and no clamp. In `Lending` a copy comes back without a limit that would swallow
it, so the refinement also says that the clamp of the code never bites.

**Seats** — the registrar locks the offering, counts and inserts; a code is redeemed by an account
(`consumeInvite`) or while registering (`registerUser`, whose transaction creates the account as well): evaluate,
claim a use, insert the use, upsert the enrolment. An insert of an enrolment takes a share lock of its offering through the
foreign key, so it waits for the registrar's lock. `byHand` records who was seated by the registrar (the audit log
does in the code). It implements **Roster** (`ImplementsRoster`), where seating by hand, redeeming, leaving, opening an account, issuing and revoking are atomic; a registration
with a code is a redemption that opens the account as well.

**Sessions** — one account. No statement here is in a transaction, so each is an action. `tokens` is the set of refresh
tokens ever issued, each with the version it carries and, as history, the password it was given for; `account` is the row, with
passwords numbered. Login counts a failure on the live row and locks by a conditional update that asks for the count again; a
token carries the version of the row the login *read*; logout, change and reset write on condition of the version they
read, and a reset tries once more. The tokens handed out by a password change and by a choice of institution are known as such
(`by`), since they carry the version of a later read. `died` records a process that died between a failure and its lock.

**Governance** — the owners. A change whose target was read as an owner locks every active owner's row, in the order of the ids, one row per action: a
row another transaction holds is waited for, then locked in its latest version and only then looked at again, so that it stays locked whatever it has become (nobody reads the
result of the statement). An owner who was inactive when the statement found its rows is not among them. `late`, a history, marks the requests that lock while an owner is enabled. The count, the update and
the audit entry follow; the entry's foreign key waits for the actor's row. No route makes an owner.

**Learners**, **LectureProgress** — a tick locks the lecture, reads the prior row, clamps, upserts, marks the student present,
counts and writes `progressPct` (kept as the two counts it is computed from). Prisma's upserts with an
empty `update` are find-then-insert; an insert waits on the unique key another transaction has inserted.
The registrar's `DropStudent` deletes the enrolment and leaves the watch rows, `EnrolAgain` makes a new one at 0; a tick that
read the old enrolment writes its count into whichever row is there when it commits. One offering, one day, STUDENT callers. **Mastery** — the checkpoint handler has no transaction and no lock: one action per statement, and
it may end after any of them (`AnswerFails`). The level is the pair of numbers it was computed from. `counted` and `vouched` are histories: the answers
under way that went into the counters, and the checkpoints whose saved answer did.

**Training** — a completion reads the enrolment, locks it, counts the lessons of the track, claims `completedAt`, and then counts the lessons of *all* tracks for the
first-step badge, which the lock does not cover: the badge's primary key refuses the second, and rolls that completion back. Lessons of a track are fixed.
It implements **Awards** (`ImplementsAwards`): completing a lesson credits the lesson, the track it completes and the first-step badge in one step.

**Submissions** — the row of one student and one assignment. Submitting is an update on condition of the status, a look, an insert. A teacher reads a page (`PageRead`,
teacher-dashboard:448, shown by the modal of `TeacherPages.tsx`), which stays as it was loaded; the request it sends carries no version, so the handler reads the row again
(`GradeRead`) and updates on condition that `submittedAt` is what *it* read (`GradeClaim`); refused, the modal stays open and sends again. A version of the content *is* its stamp; two submissions of one student are taken not to fall in one millisecond.

**Papers**, **Competitions**, **Events** — a paper's upload (lock of the student, duplicate in the window, insert) and its scan, grade and publication (a read, then a claim on the status);
a competition's entry (lock, status and deadline under it, upsert), its close and judgment (claims) and its scores, whose update looks the row up through the status of the competition and
then writes it; the answers to an event (lock, count, upsert), whose capacity no route edits.

**AnswerQueue** — the queue as a function from questions to tap numbers, the screen's saves
(chained per question when online, durable when not) and the flush, with the server's answer route as its other
side. A request may fail before or after the server has acted. The order within a flush is left open, which
allows more than the FIFO of the code. `kept` is what the chips told the student. Reads and writes of the storage overlap as they do in the code. Two histories
say what such an overlap did: `overwritten`, the questions whose item a write of the whole queue replaced by what it had read before, and `overtaken`, those of which a
newer answer reached the server before an older one that was queued or on its way there or back.

The `MC*` modules give small values to the constants; the `*Proofs` modules hold the theorems: `AccountsProofs` those of Seats, Sessions and Governance, `LearningProofs`
those of LectureProgress, Mastery, Training, Submissions, Papers, Competitions and Events. **Accounts** is the conjunction of Seats, Sessions and Governance,
**Learning** that of the learning modules and the queue: no handler of one writes a row of another, so the whole is each of them on its own rows, and what is proved of a part
is true of the whole. `MCAccounts` and `MCLearning` run several
specifications in one: they write no variable of each other and every property is about one of them, so each moves while the others are where they start.
That checks each of them in full and none of their products.

## 4. Runs and bounds

| Run | Instance | Shows |
|---|---|---|
| `attempts_graded` | three requests, one student, one exam with an essay and a choice question, two attempts, clock to 3 | all safety properties and the refinement under every interleaving of start, answer, submit and grade |
| `attempts_practice` | `FairSpec`; two requests on a drill, two attempts, clock to 3 | retakes, expiry, and that no request waits for ever |
| `system_life` | one exam and the clone of it, one edit of each, two author requests, one page that decides at any time and again and again; one attempt at the exam, clock to 1, an opening or closing time | verdicts, publication, and what a sat exam stands on (`SatUnderVerdict`) |
| `library_life` | `LibraryFairSpec`; two titles (one copy, two copies), two readers, three requests, three loans | copies; lending and taking back as `Lending` has them; that no request waits for ever |
| `accounts_life` | one seat, two codes, three students, three requests; then one account with two requests, two links and a lock after two failures; then three users, any of them owners or disabled, and two changes of all three kinds | seats and uses as `Roster` has them; sessions, lock, links, proven changes; when the last owner can go, the locks do not ring |
| `learning_life` | two lectures, two students, two ticks; cap 2, two answers of one student at a time, to two checkpoints of one concept or to one of them and one without a concept; tracks of one and of two lessons, three completions; two submitting requests, two teachers' pages; three taps of one question or one of each of two, two saves at a time; two papers of two works; a competition of two; an event with one place for two | watching, marks, progress; overshoot, level, saved answers; awards as `Awards` has them; grades; what alone loses an answer or lets an older one stand, nothing dropped undelivered; papers, entries, places |

The `violation` runs (`templates_seen`, `system_retry`, `queue_lost`, `queue_stale`, `governance_enabled`, `grade_unseen`) are in section 5.

*Bounds.* `MaxClock` stops the clock, `MaxVersion` the edits of a template, `MaxTaps` the taps of a question; the sets of
attempts, loans and codes bound how many rows can be created; `IdentifierLeft`, `Small` (the clone of an exam is written and moderated while the exam has no attempt and no window), `OneAnswers`, `TwoAsked`, `TapsOfTwo`, `OneActor` (changes of one owner are asked for by one other: who asks decides only what an audit entry waits for; `governance_enabled` leaves it open), `DroppedAlone` (while a student is dropped, the other has not been seen) and `AccountBound` (two versions, two failures, two tokens) are guards that do the same; the `Stamps` of `Submissions` are reused once nothing holds them, so that run is of any length. They are enough for the interesting cases
because every conflict in the code is between two requests on one row, or three where a
third changes what two disagree about: a start that expires an attempt while a submit and an answer of it
are under way, a return that frees the copy two borrows race for, a code whose last use two students want while the
registrar counts; a token of the version before, the one after and a request that read either; two completions of one track and one of another. `Duration`, `Grace` and `MaxClock` put an instant before the deadline, one within the grace period and one after it.
The clock compares in whole units, and every boundary of the code's comparisons is among them. The windows of templates move in the runs of the system (`Times`); `Small` lets an author set an opening time once. Three taps of one
question with two saves, or one of each of two, are every way an item can be overwritten or overtaken: by an older or a newer answer of its own question, or by a write about another.
*Symmetry* is used in
safety runs only, over sets whose members no constant distinguishes.

*Deadlock* is checked in every run: each specification has a step of its environment or a new request to take, and
where a bound exhausts them the handlers' own guards leave a request to repeat.

*Fairness.* `FairSpec` and `LibraryFairSpec` assume, of every request under way, strong fairness of the server's next
statement of it (`SF(Serve(r))`). Node runs every continuation and PostgreSQL answers every statement it can execute. A
statement that waits for a row lock is enabled only between the transactions that hold the row, so weak fairness would
let it be overtaken for ever; PostgreSQL queues the waiters of a row and grants it in turn, which is what strong
fairness says. `Abort` and the environment are under no fairness.
Nothing is assumed about a client: no one must start, answer, submit or grade.

## 5. Where the code and its comments disagree

Each of these is a run in which TLC reaches a state (or a step) that a sentence in the repository rules out; `PROJECT.json`
quotes the sentence.

- `templates_seen`: an approval lands on content edited after the moderator read it (exams:792).
- `system_retry`: a repeated decision takes a published exam back to APPROVED, where it can be edited under its students (exams:792).
  Nothing else does: `ExamsStayApproved` and `ExamsChangeOnlyWhenTakenBack` (section 6) say that, whatever pages decide and repeat, an exam with an attempt is
  published and approved as it stands, and is not edited, unless a decision has reached it after its publication.
- `queue_lost`: a flush writes back what it read before its sends, over whatever was enqueued meanwhile (queue.ts:213). Nothing but such an overwriting loses an answer
  (`LostOnlyWhenOverwritten`, run in `learning_life` and proved), or removes an undelivered item (`LeavesOnlyWhenDelivered`).
- `queue_stale`: an older answer, queued or in a flush that has read it, outlives a newer direct save and is sent over it (`[templateId].tsx`:471).
  That order of events and an overwritten item are the only causes (`StaleOnlyWhenOvertaken`, run and proved).
- `governance_enabled`: an owner who is inactive when a guarded change finds the rows to lock, and is enabled before it counts them, is counted and not locked; another
  guarded change takes that one away, and the first one then takes the last (governance.ts:82). Nothing else takes the last owner (`LastOwnerLeavesOnlyLate`, run in `accounts_life` and proved).
- `grade_unseen`: a student submits again while the grading modal shows the earlier text; the request pins the version the handler reads, and the grade lands on the
  text its teacher has not seen (submissions:283, where the comment says that it never can). What the pin does keep is `GradeIsOfWhatWasChecked`, run in `learning_life` and proved: no resubmission slips between the
  handler's read and its grade, or under the grade afterwards.

The models show other behaviour of the same kind, which no run asserts against and no property claims to exclude:

- no expiry sweep exists, though a comment speaks of one: an attempt whose student does not come back stays IN_PROGRESS (exams:1368);
- two partial edits, each valid against the row it read, store a window that closes before it opens (exams:883-918);
- a redeemed code seats a student in a full offering (invites/service.ts:137, auth.service.ts:343), so what holds of capacity is only `RegistrarNeverOversells`;
- two lectures completed together are counted under different locks and the enrolment misses one (learning:367), so progress is a lower bound of
  the completed lectures (`ProgressIsEarned`), not their number; so does a student who is dropped and enrols again, whose row starts at 0
  beside the completed lectures (enrollments:428);
- answers that read the attempt count together all count past the cap, by as much as `OvershootIsBounded` says (learning:473); the last level written may
  be of an earlier row, and past the cap nothing corrects it (learning:507): what holds is `LevelIsOfCountedAnswers`;
- two requests for a reset link that overlap leave two live links, against password-reset.service.ts:73; the first of them that is used deletes the other (`OneResetPerLink` is what holds);
- a token minted by a password change or a choice of institution carries the version of a later read, so it may outlive a change that fell in between (auth.service.ts:666): `SessionsEndWithThePassword` speaks of the others;
- a change of an ordinary user by an owner and a guarded change can wait for each other through the audit entry's foreign key (owner.routes.ts:435); PostgreSQL breaks the ring by a rollback;
- a score found before the judgment can be written after it, where the update runs as a look-up and a write (social:766);
- outside the models, deleting the demo students' active loans loses the copies (demo-cohort.ts:89).

## 6. Proofs

Every theorem is checked by tlapm from the assumptions named in the modules (`ExamDataAssumption`,
`ExamAttemptsAssumption`, `LibraryAssumption`, ...), which say no more than that constants have their types, that `Nil` is
not a member of the sets it stands outside of, and, where a cardinality is taken, that a set is finite. TLC evaluates them in the runs.

**Contract and refinement** (`ExamContractProofs`, `ExamAttemptsProofs`). `CInv` is inductive for the contract: types, `OneAttempt`,
`MarksMatchAnswers`, `ScoreIsSumOfMarks`, `OneNotice`, `ExpiredIsNeverGraded`. `IInv` adds to it what each request in
flight *knows*: a start that holds its template row knows that no attempt but the one it found blocks it (`StartKnows`); an answer past its
re-check knows the attempt is IN_PROGRESS, a submit past its lock that the answers it read are those stored, a grader
that they are those stored as long as the attempt is SUBMITTED (`AttemptKnows`). The invariants alone are not inductive: `MarksMatchAnswers` is kept by `SubmitClaim`
only because what it graded is what is there. The proof is in rely/guarantee form: each step of a request is `Calm` towards the others
(`Frame`), so what they know survives it, and maps to a step of the contract or a stutter. `Refinement` follows,
and with it every promise of the contract (`NeverTwoAttempts`, `NoLostAnswer`, `ScoreConsistent`, `NotifiedOnce`, `ExpiredStaysBlank`, `VerdictStands`).

**Locks** (`LocksComeBack` of the attempts and of the library, `SystemLocksComeBack`, `SeatLocksComeBack`, `TicksQueueUp`, `LockOrder`). What `RequestsEnd` and `LibraryRequestsEnd` need of the code
apart from fairness is a safety property, and is proved for any number of requests: a locked row is in the hands of a request that is at one of the steps which end by giving it
back (`LocksAreInHand`), and in every set of requests there is one that waits for none of the others (`NoRingOfWaiters`), since the locks are taken in one order: template, then attempt;
loan, then book; code, then offering; lecture, then the session and the mark of the day; owners by id. So nothing is ever waited for in a ring, of whatever length.

**Templates** (`ExamTemplatesProofs`). `TInv` adds to the checked invariants what a request relies on between its read and its write (`EditsSound`),
that no two requests insert one row, and that pages show rows that exist. `TemplateSafety`, `PublicationSafety`,
`BuiltFromVetted`; `TemplatesTyped` and `QueueStaysUnmoderated` (a template waiting in the queue shows no reviewer) are proved and not run.

**Composition** (`ExamSystemProofs`). Every step of the composed system is a step of `ExamAttempts` with `live` read from the templates (`Composition`), so the theorems
above hold of it. `ExamsStayApproved` proves `SatUnderVerdict` with any number of pages and repeated decisions: its invariant (`OnlyOnStanding`) says that a start under way, and every attempt,
is of a template that was live when the start read it and is published still, unless a decision has reached it since. `ExamsChangeOnlyWhenTakenBack` says the same of edits: the cause that `system_retry` exhibits is the
only one. The contract is proved of the
composed system itself: its steps are the contract's (`SystemImplementsContract`), so it keeps the promises (`SystemKeepsPromises`, `SystemVerdictsStand`) with authors and moderators at work.

**Library** (`LibraryProofs`). `LInv`: a borrow past its claim holds the book's row with a copy on the shelf, and past its search no active loan; a return past
its claim holds an ACTIVE loan. `CopiesConserved` is then an argument about cardinalities; `NoSecondLoan`, and `LibraryTyped`, which are proved and not run. `LibraryRefinesLending`: only `BorrowCreate` and `ReturnCopy` change what
others see, and by `LInv` each is a step of `Lending` (a copy is on the shelf, the reader has none of the title, and the clamp takes nothing away).

**Seats** (`AccountsProofs`). `SInv`: a registrar past the lock holds the offering, past the count a free seat; a redeemer past the claim holds the code with a use left.
`CodesAreCounted`, `RegistrarSafety`, and `SeatsRefineRoster`: what `SInv` says a request knows when it writes is the guard of the atomic step it is. `AccountsTyped` is of the three specifications together.

**Sessions** (`AccountsProofs`). `AInv`: what a token vouches for (`Given`) and what a request knows (`Honest`) is true *as long as the row has the version they carry*. Every write that changes the
password or disables the account moves the version (`Forward`), so a step either leaves what they carry true or makes them stale. `AccountSafety`, `LocksConverge`, `LinksResetOnce`, `ChangeSafety`.

**Governance** (`AccountsProofs`). `GOrder`: a request's locked rows come before those it still wants, which alone gives `LockOrder`: of any set of requests, the one that waits for the
highest id waits for nobody in the set (here `Users` has to be finite, as a table is). `GInv` adds that a request that locks, or has counted, and in whose locking no owner was enabled,
has found or locked every active owner, and holds one other than its target from its count on (`LocksOwners`), and that nobody holds a row another has written (`Apart`).
`OwnersStay` is `LastOwnerLeavesOnlyLate`, for every mixture of the changes.

**Learning** (`LearningProofs`). `MInv` counts, for each row, the answers that have read it below the cap and not yet counted: attempts plus these never pass the cap plus the answers in flight less one,
which gives `OvershootIsBounded` for every cap and every number of answers (`MasterySafety`); that an answer past its increment has counted, and that each counted answer has room in the row (`Tallied`), give `SavedIsCounted`. `WInv`: a tick in its transaction is alone on its lecture, the row it will write covers
the row that is there, and what it counted is no more than the student will have completed, whoever was dropped meanwhile (`ProgressSafety`, `WatchingOnlyGrows`).
Training, `CInv`: what a transaction found under its lock is still so (`Found`), and two that hold locks are of two tracks (`Exclude`); `AwardsSafety`, and
`TrainingRefinesAwards`, since with `Found` a commit credits exactly what the atomic completion would (`CommitCompletes`). `LearningTyped` is of the eight specifications together. Submissions, `UInv`: `GradeIsOfWhatWasChecked` and the types are inductive, whatever the pages show; `GradingSafety`.
Papers, `PInv`: each status tells what the row has been through (`Came`), an upload past its check holds the student's row and knows no recent paper of its work (`Handles`); `UploadsAreOne`, `PublicationStands`.
Competitions, `KInv`: a request about to write an entry holds the row, of an open competition (`Enters`); `EntriesStand`. Events, `EInv`: one about to answer holds the row and has found a place (`FindsAPlace`); `EventSafety`.

**Queue** (`AnswerQueueProofs`). All of it is about `QueueSpec`, the code with its overlapping reads and writes. `QInv`: nothing is held before it was tapped, and what a flush has read and will not
put back the server has had. `QueueLosesOnlyOverwritten` and `QueueDelivers` follow for the questions no write has overwritten. `OInv` adds, for those that were not overtaken either, that what is queued, in a flush or
under way behind the server's answer is no older than it; `NewestStandsUnlessOvertaken`.

## 7. Checked, not proved

Liveness (`RequestsEnd`, `LibraryRequestsEnd`) is checked by TLC only: it rests on fairness and `ENABLED`; its safety half is proved (*Locks* in section 6). The properties of the `violation` runs are false of the code;
section 5 names, where there is one, the theorem that says what holds instead. Sums are the folds of the community modules; the proofs use them as
opaque functions of their arguments, which is all the refinement needs. The runs evaluate them. Every other property of a passing run is a theorem for all values of the constants.

The lock theorems, `BuiltFromVetted` and `ExamsChangeOnlyWhenTakenBack` have no run of their own: what they say is short of a question the runs ask already, and a reader who wants to see it on the small instances adds
`LocksAreInHand`, `NoRingOfWaiters`, `SeatLocksInHand`, `SeatsDoNotRing`, `TicksDoNotRing`, `BuiltFromVettedQuestions` or `ChangesOnlyWhenTakenBack` to the properties of the component's run.

## 8. Not modelled

The components with status `not_modelled` in `PROJECT.json`, with their reasons. Within the modelled ones:

- authorisation (roles, capabilities, institution scopes) is a precondition of the actions' subjects, not a state;
- the text of an answer, and whether it matches a key, is the choice of `"right"` or `"wrong"`;
- question rows are not edited once in a template (no route does);
- the window of a practice retake's questions and shuffling have no state;
- the seven days of a refresh token and the wire format of tokens: expiry only takes behaviours away;
- the statuses DRAFT and RETURNED of a submission, which no code writes; the stages of a transcription job, which nothing reads back but the check that starts the next;
- the badges pioneer and polymath, counted outside the lock as first-step is, over several tracks; the first-step badge is taken to be seeded;
- a teacher's leadership positions (teacher.routes.ts:962-985), locked and then checked as `Events` is;
- paper annotations, announcements, the feed and study rooms: rows that no decision of another handler reads;
- rows are removed only by the demo cohort (its effect on an attempt is in `AnswerQueue`), not in `ExamAttempts` or `Library`;
- serialisation failures, deadlock detection and lock timeouts of PostgreSQL are among the rollbacks;
- the device's storage never fails, and a request that the client has given up on does not arrive later.

## 9. Plan

A run asks one question of one group of components; a new component joins an existing MC module the way `MCLearning` joins eight
(disjoint variables, one moves at a time), and its theorems the proof module of its group.

Done, in this order: exam attempts with contract and refinement; templates; their composition; library; seats; learning; mobile queue; their proofs; sessions; governance;
training; submissions; research papers, competitions and events; atomic contracts of the library, the seats and training, and their refinements; locks.

What would come next, most important first:

1. **More contracts**: papers, submissions, competitions, events and the moderation of templates as atomic steps, each implemented by its
   component as the library implements `Lending`.
2. **The demo cohort**: its removal in `Seats`, `Library` and `ExamAttempts` (demo-cohort:89).
3. **Queue**: storage failures, drained items of closed attempts, late arrivals; the queue composed with `ExamAttempts` (an answer reported as kept
   before the deadline is marked).
4. **Transcription jobs**: the check-then-set and the restart, with the promise the code should make first.
5. **Scheduler and AI quota**: the in-memory set, the counters around midnight; the single-flight refresh of the clients.
