------------------------- MODULE ExamTemplatesProofs -------------------------
(* What holds of ExamTemplates for every set of templates, questions, pages   *)
(* and author requests.                                                       *)
EXTENDS ExamTemplates, TLAPS

Creating(r) == edit[r].step \in {"create", "clone"}

\* What the handlers rely on between their read and their write.
EditsSound ==
  \A r \in Authoring :
    /\ edit[r].step # "idle" => edit[r].tpl \in Templates
    /\ Creating(r) => /\ tplStatus[edit[r].tpl] = "none"
                      /\ Paper[edit[r].tpl] \subseteq wasApproved
    /\ edit[r].step = "create" => edit[r].openAt \in Instants /\ edit[r].closeAt \in Instants
    /\ edit[r].step = "edit" => EditAllowed(edit[r].from)

\* No two requests are about to insert the same row.
InsertsDiffer ==
  \A r, x \in Authoring : Creating(r) /\ Creating(x) /\ edit[r].tpl = edit[x].tpl => r = x

PagesShowRows ==
  \A m \in Moderators, t \in Templates : viewed[m][t] # Nil => tplStatus[t] # "none"

TInv ==
  /\ TemplateTypeOK
  /\ isApproved \subseteq wasApproved
  /\ EditsSound /\ InsertsDiffer /\ PagesShowRows
  /\ VerdictCoversContent /\ QueueIsUnmoderated /\ BuiltFromVettedQuestions

LEMMA TInvInit == TemplateInit => TInv
  BY ExamTemplatesAssumption
  DEF TemplateInit, TInv, TemplateTypeOK, EditsSound, InsertsDiffer, PagesShowRows, Creating,
      VerdictCoversContent, QueueIsUnmoderated, BuiltFromVettedQuestions, NoEdit, Pending, TemplateStatus,
      Instants

\* A moderator's verdict on a question only adds to what was ever approved.
LEMMA ModerateQuestionGood ==
  ASSUME TInv, NEW q \in Questions, NEW approve \in BOOLEAN, ModerateQuestion(q, approve)
  PROVE  TInv'
<1> USE DEF TInv, ModerateQuestion, tplRow
<1>1. TemplateTypeOK'
  BY DEF TemplateTypeOK
<1>2. (isApproved \subseteq wasApproved)'
  OBVIOUS
<1>3. EditsSound' /\ InsertsDiffer' /\ PagesShowRows'
  BY DEF EditsSound, InsertsDiffer, PagesShowRows, Creating
<1>4. VerdictCoversContent' /\ QueueIsUnmoderated' /\ BuiltFromVettedQuestions'
  BY DEF VerdictCoversContent, QueueIsUnmoderated, BuiltFromVettedQuestions
<1> QED
  BY <1>1, <1>2, <1>3, <1>4

\* A read leaves the rows alone and records a request that is sound.
LEMMA ReadGood ==
  ASSUME TInv, UNCHANGED <<isApproved, tplRow, viewed, history>>,
         NEW r \in Authoring, NEW e, edit' = [edit EXCEPT ![r] = e],
         e \in [step : {"idle", "create", "clone", "publish", "edit"},
                tpl : Templates \cup {Nil}, from : TemplateStatus,
                openAt : Instants \cup {Keep}, closeAt : Instants \cup {Keep}],
         e.step # "idle" => e.tpl \in Templates,
         e.step \in {"create", "clone"} => Fresh(e.tpl) /\ Paper[e.tpl] \subseteq wasApproved,
         e.step = "create" => e.openAt \in Instants /\ e.closeAt \in Instants,
         e.step = "edit" => EditAllowed(e.from)
  PROVE  TInv'
<1> USE DEF TInv, tplRow, history
<1>0. edit \in [Authoring -> [step : {"idle", "create", "clone", "publish", "edit"},
                tpl : Templates \cup {Nil}, from : TemplateStatus,
                openAt : Instants \cup {Keep}, closeAt : Instants \cup {Keep}]]
  BY DEF TemplateTypeOK
<1>1. edit'[r] = e /\ \A x \in Authoring : x # r => edit'[x] = edit[x]
  BY <1>0
<1>2. TemplateTypeOK'
  BY <1>0 DEF TemplateTypeOK
<1>3. EditsSound'
  BY <1>1 DEF EditsSound, Creating, Fresh
<1>4. InsertsDiffer'
  BY <1>1 DEF InsertsDiffer, Creating, Fresh
<1>5. /\ (isApproved \subseteq wasApproved)' /\ PagesShowRows'
      /\ VerdictCoversContent' /\ QueueIsUnmoderated' /\ BuiltFromVettedQuestions'
  BY DEF PagesShowRows, VerdictCoversContent, QueueIsUnmoderated, BuiltFromVettedQuestions
<1> QED
  BY <1>2, <1>3, <1>4, <1>5

\* The four reads are instances of it.
LEMMA ReadsGood ==
  ASSUME TInv, NEW r \in Authoring, NEW t \in Templates,
         \/ \E open, close \in Instants : CreateRead(r, t, open, close)
         \/ \E source \in Templates : CloneRead(r, source, t)
         \/ PublishRead(r, t)
         \/ \E open, close \in Patches : EditRead(r, t, open, close)
  PROVE  TInv'
<1>1. CASE \E open, close \in Instants : CreateRead(r, t, open, close)
  <2>1. PICK open \in Instants, close \in Instants : CreateRead(r, t, open, close)
    BY <1>1
  <2>2. Paper[t] \subseteq wasApproved
    BY <2>1 DEF CreateRead, AllApproved, TInv
  <2> DEFINE e == Pending("create", t, "none", open, close)
  <2>3. edit' = [edit EXCEPT ![r] = e]
    BY <2>1 DEF CreateRead
  <2> QED
    BY <2>1, <2>2, <2>3, ReadGood DEF CreateRead, TemplateStatus, Pending
<1>2. CASE \E source \in Templates : CloneRead(r, source, t)
  <2>1. PICK source \in Templates : CloneRead(r, source, t)
    BY <1>2
  <2>2. Paper[t] \subseteq wasApproved
    BY <2>1 DEF CloneRead, TInv, BuiltFromVettedQuestions
  <2> DEFINE e == Pending("clone", t, "none", Keep, Keep)
  <2>3. edit' = [edit EXCEPT ![r] = e]
    BY <2>1 DEF CloneRead
  <2> QED
    BY <2>1, <2>2, <2>3, ReadGood DEF CloneRead, TemplateStatus, Pending
<1>3. CASE PublishRead(r, t)
  <2> DEFINE e == Pending("publish", t, "none", Keep, Keep)
  <2>1. edit' = [edit EXCEPT ![r] = e]
    BY <1>3 DEF PublishRead
  <2> QED
    BY <1>3, <2>1, ReadGood DEF PublishRead, TemplateStatus, Pending
<1>4. CASE \E open, close \in Patches : EditRead(r, t, open, close)
  <2>1. PICK open \in Patches, close \in Patches : EditRead(r, t, open, close)
    BY <1>4
  <2> DEFINE e == Pending("edit", t, tplStatus[t], open, close)
  <2>2. edit' = [edit EXCEPT ![r] = e]
    BY <2>1 DEF EditRead
  <2>3. tplStatus[t] \in TemplateStatus
    BY DEF TInv, TemplateTypeOK
  <2>4. open \in Instants \cup {Keep} /\ close \in Instants \cup {Keep}
    BY DEF Patches, Instants
  <2> QED
    BY <2>1, <2>2, <2>3, <2>4, ReadGood DEF EditRead, Pending
<1> QED
  BY <1>1, <1>2, <1>3, <1>4

LEMMA AbortGood ==
  ASSUME TInv, NEW r \in Authoring, AuthoringAborts(r)
  PROVE  TInv'
<1>1. edit' = [edit EXCEPT ![r] = NoEdit]
  BY DEF AuthoringAborts
<1> QED
  BY <1>1, ReadGood DEF AuthoringAborts, TemplateStatus, NoEdit, Pending

\* A new row takes an identifier that no page shows and no other request uses.
LEMMA InsertGood ==
  ASSUME TInv, NEW r \in Authoring, CreateWrite(r) \/ CloneWrite(r)
  PROVE  TInv'
<1> DEFINE t == edit[r].tpl
<1>1. /\ t \in Templates /\ Creating(r) /\ tplStatus[t] = "none" /\ Paper[t] \subseteq wasApproved
      /\ edit' = [edit EXCEPT ![r] = NoEdit]
      /\ tplStatus' = [tplStatus EXCEPT ![t] = "PENDING_REVIEW"]
      /\ openAt' \in [Templates -> Instants] /\ closeAt' \in [Templates -> Instants]
      /\ UNCHANGED <<isApproved, version, moderatedBy, viewed, history>>
  BY DEF TInv, EditsSound, Creating, CreateWrite, CloneWrite, InsertTemplate, TemplateTypeOK, Instants
<1> HIDE DEF t
<1>2. NoEdit \in [step : {"idle", "create", "clone", "publish", "edit"},
                 tpl : Templates \cup {Nil}, from : TemplateStatus,
                 openAt : Instants \cup {Keep}, closeAt : Instants \cup {Keep}]
  BY DEF NoEdit, Pending, TemplateStatus
<1>0. \A u \in Templates : tplStatus'[u] = "none" => openAt'[u] = openAt[u] /\ closeAt'[u] = closeAt[u]
                                                    /\ tplStatus[u] = "none"
  BY DEF CreateWrite, CloneWrite, InsertTemplate, TInv, TemplateTypeOK, EditsSound, Creating
<1>3. TemplateTypeOK'
  BY <1>0, <1>1, <1>2 DEF TInv, TemplateTypeOK, history, TemplateStatus
<1>4. /\ tplStatus'[t] = "PENDING_REVIEW" /\ \A u \in Templates : u # t => tplStatus'[u] = tplStatus[u]
      /\ edit'[r] = NoEdit /\ \A x \in Authoring : x # r => edit'[x] = edit[x]
      /\ NoEdit.step = "idle"
  BY <1>1 DEF TInv, TemplateTypeOK, NoEdit, Pending
<1>5. EditsSound'
  <2>1. ASSUME NEW x \in Authoring, x # r, Creating(x) PROVE edit[x].tpl # t
    BY <1>1, <2>1 DEF TInv, InsertsDiffer, t
  <2> QED
    BY <1>1, <1>4, <2>1 DEF TInv, EditsSound, Creating, history
<1>6. InsertsDiffer' /\ PagesShowRows'
  BY <1>1, <1>4 DEF TInv, InsertsDiffer, PagesShowRows, Creating
<1>7. VerdictCoversContent' /\ QueueIsUnmoderated' /\ BuiltFromVettedQuestions'
  BY <1>1, <1>4
  DEF TInv, VerdictCoversContent, QueueIsUnmoderated, BuiltFromVettedQuestions, history
<1> QED
  BY <1>1, <1>3, <1>5, <1>6, <1>7 DEF TInv, history

\* A look at the queue and a decision leave the requests alone.
LEMMA ModerationGood ==
  ASSUME TInv, NEW m \in Moderators, NEW t \in Templates,
         ViewQueue(m, t) \/ \E approve \in BOOLEAN : ModerateTemplate(m, t, approve)
  PROVE  TInv'
<1>1. CASE ViewQueue(m, t)
  <2>1. viewed' \in [Moderators -> [Templates -> 0..MaxVersion \cup {Nil}]]
    BY <1>1 DEF ViewQueue, TInv, TemplateTypeOK
  <2>2. TemplateTypeOK'
    BY <1>1, <2>1 DEF ViewQueue, TInv, TemplateTypeOK, tplRow, history
  <2>3. PagesShowRows'
    BY <1>1 DEF ViewQueue, TInv, TemplateTypeOK, PagesShowRows, tplRow
  <2> QED
    BY <1>1, <2>2, <2>3
    DEF ViewQueue, TInv, EditsSound, InsertsDiffer, Creating, VerdictCoversContent,
        QueueIsUnmoderated, BuiltFromVettedQuestions, tplRow, history
<1>2. ASSUME NEW approve \in BOOLEAN, ModerateTemplate(m, t, approve) PROVE TInv'
  <2> USE <1>2 DEF ModerateTemplate
  <2>1. \A n \in Moderators, u \in Templates : viewed'[n][u] # Nil => viewed'[n][u] = viewed[n][u]
    BY DEF TInv, TemplateTypeOK
  <2>2. viewed' \in [Moderators -> [Templates -> 0..MaxVersion \cup {Nil}]]
    BY DEF TInv, TemplateTypeOK
  <2>3. tplStatus[t] # "none" /\ tplStatus'[t] \in {"APPROVED", "REJECTED"}
    BY DEF TInv, PagesShowRows, TemplateTypeOK
  <2>4. \A u \in Templates : u # t => tplStatus'[u] = tplStatus[u]
    BY DEF TInv, TemplateTypeOK
  <2>5. TemplateTypeOK'
    <3>1. viewed[m][t] \in 0..MaxVersion \cup {Nil} /\ version[t] \in 0..MaxVersion
      BY DEF TInv, TemplateTypeOK
    <3> QED
      BY <2>2, <3>1 DEF TInv, TemplateTypeOK, TemplateStatus
  <2>6. EditsSound' /\ InsertsDiffer'
    BY <2>3, <2>4 DEF TInv, EditsSound, InsertsDiffer, Creating
  <2>7. PagesShowRows'
    BY <2>1, <2>3, <2>4 DEF TInv, PagesShowRows
  <2>8. VerdictCoversContent' /\ QueueIsUnmoderated'
    BY <2>3, <2>4, ExamTemplatesAssumption
    DEF TInv, TemplateTypeOK, VerdictCoversContent, QueueIsUnmoderated
  <2>9. BuiltFromVettedQuestions'
    BY <2>3, <2>4 DEF TInv, BuiltFromVettedQuestions
  <2> QED
    BY <2>5, <2>6, <2>7, <2>8, <2>9 DEF TInv
<1> QED
  BY <1>1, <1>2

\* What the two conditional updates, publish and edit, do to the rows.
LEMMA ConditionalUpdate ==
  ASSUME TInv, NEW r \in Authoring, PublishWrite(r) \/ EditWrite(r)
  PROVE  /\ UNCHANGED <<isApproved, viewed, verdictOn, judged, wasApproved>>
         /\ \A t \in takenBack \ takenBack' : tplStatus'[t] = "PUBLISHED"
         /\ edit' = [edit EXCEPT ![r] = NoEdit]
         /\ TemplateTypeOK'
         /\ \A t \in Templates :
              \/ tplStatus'[t] = tplStatus[t] /\ version'[t] = version[t] /\ moderatedBy'[t] = moderatedBy[t]
                 /\ openAt'[t] = openAt[t] /\ closeAt'[t] = closeAt[t]
              \/ /\ tplStatus[t] = "APPROVED" /\ tplStatus'[t] = "PUBLISHED"
                 /\ version'[t] = version[t] /\ moderatedBy'[t] = moderatedBy[t]
              \/ /\ tplStatus[t] = "PENDING_REVIEW" /\ tplStatus'[t] = "PENDING_REVIEW"
                 /\ moderatedBy'[t] = moderatedBy[t]
              \/ /\ tplStatus[t] \in {"APPROVED", "REJECTED"} /\ tplStatus'[t] = "PENDING_REVIEW"
                 /\ moderatedBy'[t] = Nil
<1> DEFINE t == edit[r].tpl
<1>0. NoEdit \in [step : {"idle", "create", "clone", "publish", "edit"},
                 tpl : Templates \cup {Nil}, from : TemplateStatus,
                 openAt : Instants \cup {Keep}, closeAt : Instants \cup {Keep}]
  BY DEF NoEdit, Pending, TemplateStatus
<1>1. CASE PublishWrite(r)
  <2>1. t \in Templates
    BY <1>1 DEF PublishWrite, TInv, EditsSound
  <2>2. TemplateTypeOK'
    BY <1>0, <1>1 DEF PublishWrite, TInv, TemplateTypeOK, TemplateStatus, history
  <2> QED
    BY <1>1, <2>1, <2>2 DEF PublishWrite, ClaimsTemplate, TInv, TemplateTypeOK
<1>2. CASE EditWrite(r)
  <2>1. t \in Templates /\ EditAllowed(edit[r].from) /\ edit[r].openAt \in Instants \cup {Keep}
        /\ edit[r].closeAt \in Instants \cup {Keep} /\ version[t] \in 0..MaxVersion
        /\ version[t] < MaxVersion /\ openAt[t] \in Instants /\ closeAt[t] \in Instants
    BY <1>2 DEF EditWrite, TInv, EditsSound, TemplateTypeOK
  <2>2. version[t] + 1 \in 0..MaxVersion
    BY <2>1, ExamTemplatesAssumption
  <2>3. Merged(edit[r].openAt, openAt[t]) \in Instants /\ Merged(edit[r].closeAt, closeAt[t]) \in Instants
    BY <2>1 DEF Merged
  <2>4. CASE ~ClaimsTemplate(t, edit[r].from)
    BY <1>0, <1>2, <2>4 DEF EditWrite, tplRow, history, TInv, TemplateTypeOK
  <2>5. CASE ClaimsTemplate(t, edit[r].from)
    <3>1. /\ version' = [version EXCEPT ![t] = version[t] + 1]
          /\ openAt' = [openAt EXCEPT ![t] = Merged(edit[r].openAt, openAt[t])]
          /\ closeAt' = [closeAt EXCEPT ![t] = Merged(edit[r].closeAt, closeAt[t])]
          /\ tplStatus' = IF ResetsModeration(edit[r].from) THEN [tplStatus EXCEPT ![t] = "PENDING_REVIEW"]
                          ELSE tplStatus
          /\ moderatedBy' = IF ResetsModeration(edit[r].from) THEN [moderatedBy EXCEPT ![t] = Nil]
                            ELSE moderatedBy
          /\ edit' = [edit EXCEPT ![r] = NoEdit]
          /\ UNCHANGED <<isApproved, viewed, history>>
      BY <1>2, <2>5 DEF EditWrite, WithoutReviewer
    <3>2. TemplateTypeOK'
      BY <1>0, <2>1, <2>2, <2>3, <2>5, <3>1
      DEF TInv, TemplateTypeOK, TemplateStatus, history, WithoutReviewer, ClaimsTemplate, EditAllowed
    <3>3. tplStatus[t] = edit[r].from /\ edit[r].from \in {"PENDING_REVIEW", "APPROVED", "REJECTED"}
      BY <2>1, <2>5 DEF ClaimsTemplate, EditAllowed
    <3> QED
      BY <2>1, <3>1, <3>2, <3>3 DEF TInv, TemplateTypeOK, ResetsModeration, WithoutReviewer, history
  <2> QED
    BY <2>4, <2>5
<1> QED
  BY <1>1, <1>2

LEMMA UpdateGood ==
  ASSUME TInv, NEW r \in Authoring, PublishWrite(r) \/ EditWrite(r)
  PROVE  TInv'
<1>1. NoEdit.step = "idle"
  BY DEF NoEdit, Pending
<1>2. edit'[r] = NoEdit /\ \A x \in Authoring : x # r => edit'[x] = edit[x]
  BY ConditionalUpdate DEF TInv, TemplateTypeOK
<1>3. \A t \in Templates : (tplStatus'[t] = "none") <=> (tplStatus[t] = "none")
  BY ConditionalUpdate
<1>4. EditsSound' /\ InsertsDiffer' /\ PagesShowRows'
  BY <1>1, <1>2, <1>3, ConditionalUpdate
  DEF TInv, EditsSound, InsertsDiffer, PagesShowRows, Creating, history
<1>5. VerdictCoversContent' /\ QueueIsUnmoderated'
  BY ConditionalUpdate DEF TInv, VerdictCoversContent, QueueIsUnmoderated, history
<1>6. BuiltFromVettedQuestions' /\ (isApproved \subseteq wasApproved)'
  BY <1>3, ConditionalUpdate DEF TInv, BuiltFromVettedQuestions, history
<1> QED
  BY <1>4, <1>5, <1>6, ConditionalUpdate DEF TInv

LEMMA TInvStep == TInv /\ [TemplateNext]_tplVars => TInv'
<1> SUFFICES ASSUME TInv, [TemplateNext]_tplVars PROVE TInv'
  OBVIOUS
<1>1. CASE UNCHANGED tplVars
  BY <1>1
  DEF TInv, tplVars, tplRow, history, TemplateTypeOK, EditsSound, InsertsDiffer, PagesShowRows, Creating,
      VerdictCoversContent, QueueIsUnmoderated, BuiltFromVettedQuestions
<1>2. CASE TemplateNext
  BY <1>2, ModerateQuestionGood, ReadsGood, AbortGood, InsertGood, ModerationGood, UpdateGood DEF TemplateNext
<1> QED
  BY <1>1, <1>2

\* The invariant of the template handlers, for every instance.
THEOREM TemplateInvariance == TemplateSpec => []TInv
  BY TInvInit, TInvStep, PTL DEF TemplateSpec

\* Types, verdicts, the queue and the questions behind a template.
THEOREM TemplateSafety ==
  TemplateSpec => [](TemplateTypeOK /\ VerdictCoversContent /\ QueueIsUnmoderated /\ BuiltFromVettedQuestions)
<1>1. TInv => TemplateTypeOK /\ VerdictCoversContent /\ QueueIsUnmoderated /\ BuiltFromVettedQuestions
  BY DEF TInv
<1> QED
  BY <1>1, TemplateInvariance, PTL

\* A moderator's queue never holds a template with a verdict.
THEOREM QueueStaysUnmoderated == TemplateSpec => []QueueIsUnmoderated
  BY TemplateSafety, PTL

\* Every template is built from questions that were approved when it was.
THEOREM BuiltFromVetted == TemplateSpec => []BuiltFromVettedQuestions
  BY TemplateSafety, PTL

\* Templates, questions and the requests that edit them keep their types.
THEOREM TemplatesTyped == TemplateSpec => []TemplateTypeOK
  BY TemplateSafety, PTL

\* Publication is reached only from APPROVED, and no edit touches a live row.
LEMMA PublicationGuarded == TInv /\ [TemplateNext]_tplVars => [PublicationStep]_tplVars
<1> SUFFICES ASSUME TInv, TemplateNext PROVE PublicationStep
  OBVIOUS
<1>1. ASSUME UNCHANGED tplRow PROVE PublicationStep
  BY <1>1 DEF tplRow, PublicationStep
<1>2. ASSUME NEW r \in Authoring, CreateWrite(r) \/ CloneWrite(r) PROVE PublicationStep
  <2>1. /\ edit[r].tpl \in Templates /\ tplStatus[edit[r].tpl] = "none"
        /\ tplStatus' = [tplStatus EXCEPT ![edit[r].tpl] = "PENDING_REVIEW"]
        /\ openAt' = [openAt EXCEPT ![edit[r].tpl] = openAt'[edit[r].tpl]]
        /\ closeAt' = [closeAt EXCEPT ![edit[r].tpl] = closeAt'[edit[r].tpl]]
        /\ version' = version
    BY <1>2 DEF TInv, EditsSound, Creating, TemplateTypeOK, CreateWrite, CloneWrite, InsertTemplate
  <2> QED
    BY <2>1 DEF PublicationStep, TInv, TemplateTypeOK
<1>3. ASSUME NEW r \in Authoring, PublishWrite(r) \/ EditWrite(r) PROVE PublicationStep
  BY <1>3, ConditionalUpdate DEF PublicationStep
<1>4. ASSUME NEW m \in Moderators, NEW t \in Templates, NEW approve \in BOOLEAN,
             ModerateTemplate(m, t, approve)
      PROVE  PublicationStep
  BY <1>4 DEF ModerateTemplate, PublicationStep, TInv, TemplateTypeOK
<1> QED
  BY <1>1, <1>2, <1>3, <1>4
  DEF TemplateNext, ModerateQuestion, CreateRead, CloneRead, PublishRead, EditRead, AuthoringAborts, ViewQueue

\* PublicationIsGuarded, for every instance.
THEOREM PublicationSafety == TemplateSpec => PublicationIsGuarded
  BY TInvInit, TInvStep, PublicationGuarded, PTL DEF TemplateSpec, PublicationIsGuarded
=============================================================================
