-------------------------------- MODULE Papers --------------------------------
(* The research papers of one student (learning.routes.ts): uploaded, scanned, *)
(* graded and published, by requests that read the status, work (a scan parses *)
(* a PDF for seconds), and then claim the row with a conditional update.       *)
EXTENDS Integers

CONSTANTS
  Papers, Works,   \* rows; what a paper is of: a title and a file
  PaperRequests,   \* requests that can be under way at the same time
  Passing,         \* the papers whose scan passes (its result is a hash of the id)
  Reviews,         \* what a grader writes: a grade and a feedback
  NoPaper

ASSUME PapersAssumption == NoPaper \notin Papers \cup Works \cup PaperRequests \cup Reviews

VARIABLES
  paper,        \* paper[p]: the row
  recent,       \* the papers whose uploadedAt is within RESEARCH_DEDUPE_WINDOW_MS
  studentLock,  \* the request that holds the student's User row, or NoPaper
  handling      \* handling[r]: the step of request r, its paper or its work

paperVars == <<paper, recent, studentLock, handling>>

NotUploaded == [status |-> "none", work |-> NoPaper, scanned |-> FALSE, review |-> NoPaper, publications |-> 0]
NotHandling == [step |-> "idle", paper |-> NoPaper, work |-> NoPaper]

PapersInit ==
  /\ paper = [p \in Papers |-> NotUploaded]
  /\ recent = {}
  /\ studentLock = NoPaper
  /\ handling = [r \in PaperRequests |-> NotHandling]

HandlerAt(r, step, p, w) ==
  handling' = [handling EXCEPT ![r] = [step |-> step, paper |-> p, work |-> w]]
HandlerEnds(r) == handling' = [handling EXCEPT ![r] = NotHandling]

SCANNABLE_PAPER_STATUSES == {"UPLOADED", "CHECKS_PASSED", "CHECKS_FAILED"}
GRADEABLE_PAPER_STATUSES == {"CHECKS_PASSED", "CHECKS_FAILED", "GRADED"}
PUBLISHABLE_PAPER_STATUSES == {"GRADED"}

\* POST /me/research: SELECT ... FOR UPDATE of the student, then the duplicate.
StudentFree_NotLocked == TRUE
StudentFree == studentLock = NoPaper

UploadLock(r, w) ==
  /\ handling[r].step = "idle"
  /\ StudentFree
  /\ \A p \in recent : paper[p].work # w
  /\ studentLock' = r
  /\ HandlerAt(r, "create", NoPaper, w)
  /\ UNCHANGED <<paper, recent>>

UploadCreate(r, p) ==
  /\ handling[r].step = "create"
  /\ paper[p] = NotUploaded
  /\ paper' = [paper EXCEPT ![p] = [NotUploaded EXCEPT !.status = "UPLOADED", !.work = handling[r].work]]
  /\ recent' = recent \cup {p}
  /\ studentLock' = NoPaper
  /\ HandlerEnds(r)

\* Five minutes after an upload its duplicate is welcome.
WindowPasses(p) ==
  /\ p \in recent
  /\ recent' = recent \ {p}
  /\ UNCHANGED <<paper, studentLock, handling>>

\* The handlers' first read, a guard that answers 409 early, and what of a row
\* in these statuses each goes on to do.
HandlerReads(r, p, statuses, step) ==
  /\ handling[r].step = "idle"
  /\ paper[p].status \in statuses
  /\ HandlerAt(r, step, p, NoPaper)
  /\ UNCHANGED <<paper, recent, studentLock>>

\* updateMany WHERE status IN (statuses); a count of 0 is a 409.
ClaimsPaper_AnyStatus(p, statuses) == TRUE
ClaimsPaper(p, statuses) == paper[p].status \in statuses

HandlerClaims(r, step, statuses, row) ==
  LET p == handling[r].paper IN
  /\ handling[r].step = step
  /\ paper' = IF ClaimsPaper(p, statuses) THEN [paper EXCEPT ![p] = row] ELSE paper
  /\ HandlerEnds(r)
  /\ UNCHANGED <<recent, studentLock>>

\* POST /research/:id/scan
ScanRead(r, p) == HandlerReads(r, p, SCANNABLE_PAPER_STATUSES, "scan")
ScanClaim(r) ==
  LET p == handling[r].paper IN
  HandlerClaims(r, "scan", SCANNABLE_PAPER_STATUSES,
    [paper[p] EXCEPT !.status = IF p \in Passing THEN "CHECKS_PASSED" ELSE "CHECKS_FAILED",
                     !.scanned = TRUE])

\* POST /research/:id/grade
ReviewRead(r, p) == HandlerReads(r, p, GRADEABLE_PAPER_STATUSES, "grade")
ReviewClaim(r, review) ==
  HandlerClaims(r, "grade", GRADEABLE_PAPER_STATUSES,
    [paper[handling[r].paper] EXCEPT !.status = "GRADED", !.review = review])

\* POST /research/:id/publish
PaperPublishRead(r, p) == HandlerReads(r, p, PUBLISHABLE_PAPER_STATUSES, "publish")
PaperPublishClaim(r) ==
  HandlerClaims(r, "publish", PUBLISHABLE_PAPER_STATUSES,
    [paper[handling[r].paper] EXCEPT !.status = "PUBLISHED", !.publications = @ + 1])

\* A request dies between two of its statements; its transaction rolls back.
HandlerDies(r) ==
  /\ handling[r].step # "idle"
  /\ HandlerEnds(r)
  /\ studentLock' = IF studentLock = r THEN NoPaper ELSE studentLock
  /\ UNCHANGED <<paper, recent>>

PapersNext ==
  \/ \E r \in PaperRequests :
       \/ \E w \in Works : UploadLock(r, w)
       \/ \E p \in Papers :
            UploadCreate(r, p) \/ ScanRead(r, p) \/ ReviewRead(r, p) \/ PaperPublishRead(r, p)
       \/ ScanClaim(r) \/ PaperPublishClaim(r) \/ HandlerDies(r)
       \/ \E review \in Reviews : ReviewClaim(r, review)
  \/ \E p \in Papers : WindowPasses(p)

PapersSpec == PapersInit /\ [][PapersNext]_paperVars

-----------------------------------------------------------------------------
(* Properties                                                                 *)

PapersTypeOK ==
  /\ paper \in [Papers ->
       [status : {"none", "UPLOADED", "CHECKS_PASSED", "CHECKS_FAILED", "GRADED", "PUBLISHED"},
        work : Works \cup {NoPaper}, scanned : BOOLEAN, review : Reviews \cup {NoPaper}, publications : Nat]]
  /\ recent \subseteq Papers
  /\ studentLock \in PaperRequests \cup {NoPaper}
  /\ handling \in [PaperRequests ->
       [step : {"idle", "create", "scan", "grade", "publish"},
        paper : Papers \cup {NoPaper}, work : Works \cup {NoPaper}]]

\* A published paper stays as it was published, however late a scan, a grade or
\* another publication of it ends: it was scanned, then graded, is never out of
\* the archive again, and has one publishedAt.
PublishedStands ==
  [][\A p \in Papers :
       /\ paper[p].status = "PUBLISHED" => paper'[p] = paper[p]
       /\ paper'[p].status = "PUBLISHED" =>
            paper'[p].scanned /\ paper'[p].review \in Reviews /\ paper'[p].publications = 1]_paperVars

\* Of one work the graders' queue is given one paper in any five minutes, however
\* often an upload is sent.
NoDuplicateInWindow ==
  \A p, q \in recent : paper[p].work = paper[q].work => p = q
=============================================================================
