----------------------------- MODULE Submissions -----------------------------
(* A student's submission to an assignment, replaced by the student and graded *)
(* by teachers at the same time (submissions.routes.ts).  The row of one       *)
(* student and one assignment: its unique index keeps them apart.  A version   *)
(* of the content is known by the submittedAt it was stamped with; no two      *)
(* submissions of a student are taken to be made in the same millisecond, and  *)
(* a stamp that no row and no request holds any more is as good as a new one.  *)

CONSTANTS
  Submitters,   \* requests of the student, and of teachers, that can be
  Graders,      \* under way at the same time
  Stamps,       \* submittedAt
  NoStamp

ASSUME SubmissionsAssumption == NoStamp \notin Stamps

VARIABLES
  submission,   \* the row: its status, its stamp; history: the stamp of what was
                \* graded and of what the grader's page showed
  submitting,   \* submitting[r]: the step of a student's request, its stamp
  grading       \* grading[r]: a teacher's page and its request: the step, the
                \* stamp of what the page shows, the one the request read

submissionVars == <<submission, submitting, grading>>

NoSubmission == [status |-> "none", submittedAt |-> NoStamp, graded |-> NoStamp, seen |-> NoStamp]
\* (and DRAFT, which no code writes)
RESUBMITTABLE_STATUSES == {"SUBMITTED", "LATE"}

NotSubmitting == [step |-> "idle", status |-> "none", stamp |-> NoStamp]
NotGrading == [step |-> "idle", shown |-> NoStamp, stamp |-> NoStamp]

SubmissionsInit ==
  /\ submission = NoSubmission
  /\ submitting = [r \in Submitters |-> NotSubmitting]
  /\ grading = [r \in Graders |-> NotGrading]

SubmitterAt(r, step) == submitting' = [submitting EXCEPT ![r].step = step]
SubmitEnds(r) == submitting' = [submitting EXCEPT ![r] = NotSubmitting]
GradeEnds(r) == grading' = [grading EXCEPT ![r] = NotGrading]
Written(r) == [submission EXCEPT !.status = submitting[r].status, !.submittedAt = submitting[r].stamp]

Held == {submission.submittedAt, submission.graded, submission.seen}
        \cup {submitting[r].stamp : r \in Submitters}
        \cup {grading[r].shown : r \in Graders} \cup {grading[r].stamp : r \in Graders}

\* POST .../submit: late or in time, with a fresh stamp.
SubmitRead(r, status) ==
  LET now == CHOOSE t \in Stamps \ Held : TRUE IN
  /\ submitting[r].step = "idle"
  /\ Stamps \ Held # {}
  /\ submitting' = [submitting EXCEPT ![r] = [step |-> "claim", status |-> status, stamp |-> now]]
  /\ UNCHANGED <<submission, grading>>

\* updateMany WHERE status IN (RESUBMITTABLE_STATUSES)
SubmitClaim(r) ==
  /\ submitting[r].step = "claim"
  /\ \/ /\ submission.status \in RESUBMITTABLE_STATUSES
        /\ submission' = Written(r)
        /\ SubmitEnds(r)
     \/ /\ submission.status \notin RESUBMITTABLE_STATUSES
        /\ SubmitterAt(r, "find")
        /\ UNCHANGED submission
  /\ UNCHANGED grading

\* Nothing to replace: a row that is there is graded (409).
SubmitFind(r) ==
  /\ submitting[r].step = "find"
  /\ (IF submission = NoSubmission THEN SubmitterAt(r, "create") ELSE SubmitEnds(r))
  /\ UNCHANGED <<submission, grading>>

\* The first submission; the unique index refuses a second (409).
SubmitCreate(r) ==
  /\ submitting[r].step = "create"
  /\ submission' = IF submission = NoSubmission THEN Written(r) ELSE submission
  /\ SubmitEnds(r)
  /\ UNCHANGED grading

\* GET /teacher/me/pending-submissions: what the grading modal shows from then on.
PageRead(r) ==
  /\ grading[r].step = "idle"
  /\ submission.status \in RESUBMITTABLE_STATUSES
  /\ grading' = [grading EXCEPT ![r] = [step |-> "page", shown |-> submission.submittedAt, stamp |-> NoStamp]]
  /\ UNCHANGED <<submission, submitting>>

\* POST /submissions/:id/grade carries the grade and the feedback, nothing of
\* what the page showed: the handler pins the claim to what it reads itself.
GradeRead(r) ==
  /\ grading[r].step = "page"
  /\ grading' = [grading EXCEPT ![r].step = "claim", ![r].stamp = submission.submittedAt]
  /\ UNCHANGED <<submission, submitting>>

\* updateMany WHERE submittedAt is as read; the notification is in the same
\* transaction.  Else 409 and a rollback, and the modal stays open.
SameVersion_Unchecked(r) == TRUE
SameVersion(r) == submission.submittedAt = grading[r].stamp

GradeClaim(r) ==
  /\ grading[r].step = "claim"
  /\ \/ /\ SameVersion(r)
        /\ submission' = [submission EXCEPT !.status = "GRADED",
                            !.graded = grading[r].stamp, !.seen = grading[r].shown]
        /\ GradeEnds(r)
     \/ /\ ~SameVersion(r)
        /\ grading' = [grading EXCEPT ![r].step = "page", ![r].stamp = NoStamp]
        /\ UNCHANGED submission
  /\ UNCHANGED submitting

\* A request dies between two of its statements, or a page is closed.
SubmissionAborts ==
  /\ \/ \E r \in Submitters : SubmitEnds(r) /\ submitting[r].step # "idle" /\ UNCHANGED grading
     \/ \E r \in Graders :
          grading[r].step # "idle" /\ GradeEnds(r) /\ UNCHANGED submitting
  /\ UNCHANGED submission

SubmissionsNext ==
  \/ \E r \in Submitters :
       \/ \E status \in RESUBMITTABLE_STATUSES : SubmitRead(r, status)
       \/ SubmitClaim(r) \/ SubmitFind(r) \/ SubmitCreate(r)
  \/ \E r \in Graders : PageRead(r) \/ GradeRead(r) \/ GradeClaim(r)
  \/ SubmissionAborts

SubmissionsSpec == SubmissionsInit /\ [][SubmissionsNext]_submissionVars

-----------------------------------------------------------------------------
(* Properties                                                                 *)

Stamp == Stamps \cup {NoStamp}

SubmissionsTypeOK ==
  /\ submission \in [status : {"none", "SUBMITTED", "LATE", "GRADED"}, submittedAt : Stamp, graded : Stamp, seen : Stamp]
  /\ submitting \in [Submitters ->
       [step : {"idle", "claim", "find", "create"}, status : {"none", "SUBMITTED", "LATE"}, stamp : Stamp]]
  /\ grading \in [Graders -> [step : {"idle", "page", "claim"}, shown : Stamp, stamp : Stamp]]

\* A grade stands on the very content its request checked, which no resubmission
\* replaces afterwards, and a submission that has a grade is not set back to
\* ungraded.
GradeIsOfWhatWasChecked ==
  submission.graded # NoStamp => submission.status = "GRADED" /\ submission.graded = submission.submittedAt

\* "The grade can never land on content the teacher never saw"
\* (submissions.routes.ts:280): what carries a grade is what the grader's page
\* showed.
GradedAsSeen == submission.graded # NoStamp => submission.graded = submission.seen
=============================================================================
