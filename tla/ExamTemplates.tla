---------------------------- MODULE ExamTemplates ----------------------------
(* The life of an exam template (exams.routes.ts): authors create, edit, clone *)
(* and publish it, moderators approve or reject it.  Each handler reads the    *)
(* row, decides, and writes with one conditional update; the read and the      *)
(* write are separate actions, since nothing locks the row in between.         *)
EXTENDS Integers

CONSTANTS
  Templates,    \* identifiers ExamTemplate rows can get
  Questions,    \* rows of the question bank
  Paper,        \* Paper[t]: the questions template t is built from
  Moderators,   \* moderation pages open at the same time
  Retrying,     \* those where the answer to a decision can get lost
  Authoring,    \* author requests that can be under way at the same time
  Times,        \* instants a window can open or close at
  MaxVersion,   \* bound of the model: edits of one template
  Nil, Keep     \* NULL, and "field absent from the body"

ASSUME ExamTemplatesAssumption ==
  /\ Paper \in [Templates -> SUBSET Questions]
  /\ Times \subseteq Nat /\ MaxVersion \in Nat
  /\ Retrying \subseteq Moderators
  /\ Nil \notin Moderators /\ Nil \notin Times /\ Keep \notin Times /\ Keep # Nil

VARIABLES
  isApproved,   \* the questions a moderator has approved (Question.isApproved)
  tplStatus,    \* tplStatus[t]: ExamTemplate.status, "none" when there is no row
  version,      \* version[t]: counts the edits of t; stands for its title, duration, ...
  openAt, closeAt, moderatedBy,   \* columns of ExamTemplate
  verdictOn,    \* history: the version of t the standing verdict was given on
  viewed,       \* viewed[m][t]: the version of t the moderation page m shows
  judged,       \* history: the version of t its last moderator had seen
  wasApproved,  \* history: the questions that were ever approved
  takenBack,    \* history: the templates a decision reached since they were last published
  edit          \* edit[r]: the author request r and what it has read

tplRow == <<tplStatus, version, openAt, closeAt, moderatedBy>>
history == <<verdictOn, judged, wasApproved, takenBack>>
tplVars == <<isApproved, tplRow, viewed, history, edit>>

TemplateStatus == {"none", "PENDING_REVIEW", "APPROVED", "REJECTED", "PUBLISHED"}

\* What a handler keeps between its read and its write.
Pending(step, t, from, open, close) ==
  [step |-> step, tpl |-> t, from |-> from, openAt |-> open, closeAt |-> close]
NoEdit == Pending("idle", Nil, "none", Keep, Keep)

TemplateInit ==
  /\ isApproved = {}
  /\ tplStatus = [t \in Templates |-> "none"]
  /\ version = [t \in Templates |-> 0]
  /\ openAt = [t \in Templates |-> Nil]
  /\ closeAt = [t \in Templates |-> Nil]
  /\ moderatedBy = [t \in Templates |-> Nil]
  /\ verdictOn = [t \in Templates |-> Nil]
  /\ viewed = [m \in Moderators |-> [t \in Templates |-> Nil]]
  /\ judged = [t \in Templates |-> Nil]
  /\ wasApproved = {}
  /\ takenBack = {}
  /\ edit = [r \in Authoring |-> NoEdit]

\* openAt >= closeAt is refused when both are set.
Ordered(open, close) == (open # Nil /\ close # Nil) => open < close

\* updateMany WHERE id = t AND status = from: does it find the row?
ClaimsTemplate_AnyStatus(t, from) == TRUE
ClaimsTemplate(t, from) == tplStatus[t] = from

-----------------------------------------------------------------------------
(* The question bank                                                          *)

\* A moderator's verdict on a question; a new question is not approved.
ModerateQuestion(q, approve) ==
  /\ isApproved' = IF approve THEN isApproved \cup {q} ELSE isApproved \ {q}
  /\ wasApproved' = wasApproved \cup isApproved'
  /\ UNCHANGED <<tplRow, viewed, verdictOn, judged, takenBack, edit>>

-----------------------------------------------------------------------------
(* POST /exams/templates and POST /exams/templates/:id/clone                  *)

\* An identifier no row has and no other request is about to use.
Fresh(t) == tplStatus[t] = "none" /\ \A r \in Authoring : edit[r].tpl # t

\* A new row enters the moderation queue, unmoderated.
InsertTemplate(t, open, close) ==
  /\ tplStatus' = [tplStatus EXCEPT ![t] = "PENDING_REVIEW"]
  /\ openAt' = [openAt EXCEPT ![t] = open]
  /\ closeAt' = [closeAt EXCEPT ![t] = close]
  /\ UNCHANGED <<isApproved, version, moderatedBy, viewed, history>>

\* The schema orders the window; every question must be approved when read.
AllApproved(t) == Paper[t] \subseteq isApproved

CreateRead(r, t, open, close) ==
  /\ edit[r].step = "idle"
  /\ Fresh(t)
  /\ Ordered(open, close)
  /\ AllApproved(t)
  /\ edit' = [edit EXCEPT ![r] = Pending("create", t, "none", open, close)]
  /\ UNCHANGED <<isApproved, tplRow, viewed, history>>

CreateWrite(r) ==
  /\ edit[r].step = "create"
  /\ InsertTemplate(edit[r].tpl, edit[r].openAt, edit[r].closeAt)
  /\ edit' = [edit EXCEPT ![r] = NoEdit]

\* A clone copies the questions and not the window.
CloneRead(r, source, t) ==
  /\ edit[r].step = "idle"
  /\ Fresh(t)
  /\ tplStatus[source] # "none"
  /\ Paper[t] = Paper[source]
  /\ edit' = [edit EXCEPT ![r] = Pending("clone", t, "none", Keep, Keep)]
  /\ UNCHANGED <<isApproved, tplRow, viewed, history>>

CloneWrite(r) ==
  /\ edit[r].step = "clone"
  /\ InsertTemplate(edit[r].tpl, Nil, Nil)
  /\ edit' = [edit EXCEPT ![r] = NoEdit]

-----------------------------------------------------------------------------
(* POST /exams/templates/:id/moderate                                         *)

\* The moderator looks at the queue, which lists PENDING_REVIEW templates.
ViewQueue(m, t) ==
  /\ tplStatus[t] = "PENDING_REVIEW"
  /\ viewed' = [viewed EXCEPT ![m][t] = version[t]]
  /\ UNCHANGED <<isApproved, tplRow, history, edit>>

\* ... and sends one decision on something listed there, or the same page sends
\* another when the answer was lost (its retry button).  One update by id: the
\* handler asks neither for the row's status nor for its version.
ModerateTemplate(m, t, approve) ==
  /\ viewed[m][t] # Nil
  /\ tplStatus' = [tplStatus EXCEPT ![t] = IF approve THEN "APPROVED" ELSE "REJECTED"]
  /\ moderatedBy' = [moderatedBy EXCEPT ![t] = m]
  /\ verdictOn' = [verdictOn EXCEPT ![t] = version[t]]
  /\ judged' = [judged EXCEPT ![t] = viewed[m][t]]
  /\ takenBack' = IF tplStatus[t] = "PUBLISHED" THEN takenBack \cup {t} ELSE takenBack
  /\ \/ viewed' = [viewed EXCEPT ![m][t] = Nil]
     \/ m \in Retrying /\ UNCHANGED viewed
  /\ UNCHANGED <<isApproved, version, openAt, closeAt, wasApproved, edit>>

-----------------------------------------------------------------------------
(* POST /exams/templates/:id/publish                                          *)

PublishRead(r, t) ==
  /\ edit[r].step = "idle"
  /\ tplStatus[t] = "APPROVED"
  /\ edit' = [edit EXCEPT ![r] = Pending("publish", t, "none", Keep, Keep)]
  /\ UNCHANGED <<isApproved, tplRow, viewed, history>>

\* The flip fires only while the row is still APPROVED, else 409.
PublishWrite(r) ==
  LET t == edit[r].tpl IN
  /\ edit[r].step = "publish"
  /\ \/ /\ ClaimsTemplate(t, "APPROVED")
        /\ tplStatus' = [tplStatus EXCEPT ![t] = "PUBLISHED"]
        /\ takenBack' = takenBack \ {t}
     \/ ~ClaimsTemplate(t, "APPROVED") /\ UNCHANGED <<tplStatus, takenBack>>
  /\ edit' = [edit EXCEPT ![r] = NoEdit]
  /\ UNCHANGED <<isApproved, version, openAt, closeAt, moderatedBy, viewed, verdictOn, judged, wasApproved>>

-----------------------------------------------------------------------------
(* PATCH /exams/templates/:id                                                 *)

\* decideTemplateEdit: PUBLISHED is locked; a verdict does not survive an edit.
EditAllowed(status) == status \in {"PENDING_REVIEW", "APPROVED", "REJECTED"}
ResetsModeration_RejectedOnly(status) == status = "REJECTED"
ResetsModeration(status) == status \in {"APPROVED", "REJECTED"}

Merged(new, old) == IF new = Keep THEN old ELSE new

\* The reset clears the reviewer along with the verdict.
WithoutReviewer(t) == [moderatedBy EXCEPT ![t] = Nil]

\* The window is checked as merged with the columns read here.
EditRead(r, t, open, close) ==
  /\ edit[r].step = "idle"
  /\ EditAllowed(tplStatus[t])
  /\ Ordered(Merged(open, openAt[t]), Merged(close, closeAt[t]))
  /\ edit' = [edit EXCEPT ![r] = Pending("edit", t, tplStatus[t], open, close)]
  /\ UNCHANGED <<isApproved, tplRow, viewed, history>>

\* The provided fields are written if the row still has the status read.
EditWrite(r) ==
  LET e == edit[r]  t == e.tpl IN
  /\ e.step = "edit"
  /\ version[t] < MaxVersion
  /\ \/ /\ ClaimsTemplate(t, e.from)
        /\ version' = [version EXCEPT ![t] = @ + 1]
        /\ openAt' = [openAt EXCEPT ![t] = Merged(e.openAt, @)]
        /\ closeAt' = [closeAt EXCEPT ![t] = Merged(e.closeAt, @)]
        /\ tplStatus' = IF ResetsModeration(e.from) THEN [tplStatus EXCEPT ![t] = "PENDING_REVIEW"]
                        ELSE tplStatus
        /\ moderatedBy' = IF ResetsModeration(e.from) THEN WithoutReviewer(t)
                          ELSE moderatedBy
     \/ /\ ~ClaimsTemplate(t, e.from)
        /\ UNCHANGED tplRow
  /\ edit' = [edit EXCEPT ![r] = NoEdit]
  /\ UNCHANGED <<isApproved, viewed, history>>

\* The process dies between the read and the write.
AuthoringAborts(r) ==
  /\ edit[r].step # "idle"
  /\ edit' = [edit EXCEPT ![r] = NoEdit]
  /\ UNCHANGED <<isApproved, tplRow, viewed, history>>

Instants == Times \cup {Nil}
Patches == Instants \cup {Keep}

TemplateNext ==
  \/ \E q \in Questions, approve \in BOOLEAN : ModerateQuestion(q, approve)
  \/ \E r \in Authoring :
       \/ \E t \in Templates :
            \/ \E open, close \in Instants : CreateRead(r, t, open, close)
            \/ \E source \in Templates : CloneRead(r, source, t)
            \/ PublishRead(r, t)
            \/ \E open, close \in Patches : EditRead(r, t, open, close)
       \/ CreateWrite(r) \/ CloneWrite(r) \/ PublishWrite(r) \/ EditWrite(r)
       \/ AuthoringAborts(r)
  \/ \E m \in Moderators, t \in Templates :
       \/ ViewQueue(m, t)
       \/ \E approve \in BOOLEAN : ModerateTemplate(m, t, approve)

TemplateSpec == TemplateInit /\ [][TemplateNext]_tplVars

-----------------------------------------------------------------------------
(* Properties                                                                 *)

\* Every row and request has the shape of its declaration, and nothing is ever
\* written to a row that does not exist.
TemplateTypeOK ==
  /\ isApproved \subseteq Questions /\ wasApproved \subseteq Questions /\ takenBack \subseteq Templates
  /\ tplStatus \in [Templates -> TemplateStatus]
  /\ version \in [Templates -> 0..MaxVersion]
  /\ \A t \in Templates : tplStatus[t] = "none" => version[t] = 0 /\ openAt[t] = Nil /\ closeAt[t] = Nil
  /\ openAt \in [Templates -> Instants] /\ closeAt \in [Templates -> Instants]
  /\ moderatedBy \in [Templates -> Moderators \cup {Nil}]
  /\ verdictOn \in [Templates -> 0..MaxVersion \cup {Nil}]
  /\ judged \in [Templates -> 0..MaxVersion \cup {Nil}]
  /\ viewed \in [Moderators -> [Templates -> 0..MaxVersion \cup {Nil}]]
  /\ edit \in [Authoring -> [step : {"idle", "create", "clone", "publish", "edit"},
                              tpl : Templates \cup {Nil}, from : TemplateStatus,
                              openAt : Instants \cup {Keep}, closeAt : Instants \cup {Keep}]]

\* A standing verdict, and a publication, is about the content the row has now:
\* no edit slips under an approval, however it races with the moderator.
VerdictCoversContent ==
  \A t \in Templates : tplStatus[t] \in {"APPROVED", "REJECTED", "PUBLISHED"} => verdictOn[t] = version[t]

\* A template waiting in the queue shows no reviewer, and a judged one shows who
\* judged it: a note about earlier content never reads as a live verdict.
QueueIsUnmoderated ==
  \A t \in Templates : (moderatedBy[t] = Nil) <=> tplStatus[t] \in {"none", "PENDING_REVIEW"}

\* A template is built only from questions a moderator approved at some time,
\* and so is every clone of it.
BuiltFromVettedQuestions ==
  \A t \in Templates : tplStatus[t] # "none" => Paper[t] \subseteq wasApproved

\* A row goes live only from APPROVED, and while it is live no edit touches it.
PublicationStep ==
  \A t \in Templates :
    /\ tplStatus'[t] = "PUBLISHED" => tplStatus[t] \in {"APPROVED", "PUBLISHED"}
    /\ tplStatus[t] = "PUBLISHED" =>
         version'[t] = version[t] /\ openAt'[t] = openAt[t] /\ closeAt'[t] = closeAt[t]
PublicationIsGuarded == [][PublicationStep]_tplVars

\* "The moderators review the current content": an approval is about the content
\* its moderator saw.
ApprovedAsSeen == \A t \in Templates : tplStatus[t] = "APPROVED" => judged[t] = verdictOn[t]
=============================================================================
