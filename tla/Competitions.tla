----------------------------- MODULE Competitions -----------------------------
(* A competition (social.routes.ts).  Entering locks its row and reads the     *)
(* status under the lock; closing, scoring and judging are conditional updates *)
(* after a plain read.                                                         *)

CONSTANTS
  Entrants,
  Contests,   \* requests that can be under way at the same time
  Contents,   \* what an entry says
  Nothing

ASSUME CompetitionsAssumption == Nothing \notin Entrants \cup Contests \cup Contents

VARIABLES
  competition,  \* its status, whether its deadline is past, the request that locks it
  entry,        \* entry[m]: what member m entered, or Nothing
  scored,       \* the members whose entry has a score
  contest       \* contest[r]: the step of request r, whose entry and what it says

competitionVars == <<competition, entry, scored, contest>>

NotContesting == [step |-> "idle", entrant |-> Nothing, content |-> Nothing]

CompetitionsInit ==
  /\ competition = [status |-> "OPEN", past |-> FALSE, lock |-> Nothing]
  /\ entry = [m \in Entrants |-> Nothing]
  /\ scored = {}
  /\ contest = [r \in Contests |-> NotContesting]

ContestAt(r, step, m, content) ==
  contest' = [contest EXCEPT ![r] = [step |-> step, entrant |-> m, content |-> content]]
ContestEnds(r) == contest' = [contest EXCEPT ![r] = NotContesting]
Entered == {m \in Entrants : entry[m] # Nothing}

\* SELECT ... FOR UPDATE waits for who has the row.
CompetitionFree_NotLocked == TRUE
CompetitionFree == competition.lock = Nothing

\* POST /competitions/:id/enter
EnterLock(r, m, content) ==
  /\ contest[r].step = "idle"
  /\ CompetitionFree
  /\ competition.status = "OPEN" /\ ~competition.past
  /\ competition' = [competition EXCEPT !.lock = r]
  /\ ContestAt(r, "enter", m, content)
  /\ UNCHANGED <<entry, scored>>

\* The upsert leaves the score of an entry it replaces.
EnterWrite(r) ==
  /\ contest[r].step = "enter"
  /\ entry' = [entry EXCEPT ![contest[r].entrant] = contest[r].content]
  /\ competition' = [competition EXCEPT !.lock = Nothing]
  /\ ContestEnds(r)
  /\ UNCHANGED scored

\* updateMany WHERE status IN (statuses); it waits for who has the row.
CLOSABLE_COMPETITION_STATUSES == {"OPEN"}
JUDGEABLE_COMPETITION_STATUSES == {"CLOSED"}
Claimable(statuses) == CompetitionFree /\ competition.status \in statuses

\* POST /competitions/:id/close
CloseCompetition ==
  /\ Claimable(CLOSABLE_COMPETITION_STATUSES)
  /\ competition' = [competition EXCEPT !.status = "CLOSED"]
  /\ UNCHANGED <<entry, scored, contest>>

\* POST .../score: the update finds the row, of a competition that is not JUDGED,
\* and then writes it; the status may have changed in between.
ScoreFind(r, m) ==
  /\ contest[r].step = "idle"
  /\ m \in Entered
  /\ competition.status # "JUDGED"
  /\ ContestAt(r, "score", m, Nothing)
  /\ UNCHANGED <<competition, entry, scored>>

\* A score, or null, which clears it.
ScoreWrite(r) ==
  /\ contest[r].step = "score"
  /\ scored' \in {scored \cup {contest[r].entrant}, scored \ {contest[r].entrant}}
  /\ ContestEnds(r)
  /\ UNCHANGED <<competition, entry>>

\* POST /competitions/:id/judge
canFinalizeJudging == Entered = {} \/ scored # {}

JudgeRead(r) ==
  /\ contest[r].step = "idle"
  /\ competition.status = "CLOSED" /\ canFinalizeJudging
  /\ ContestAt(r, "judge", Nothing, Nothing)
  /\ UNCHANGED <<competition, entry, scored>>

JudgeClaim(r) ==
  /\ contest[r].step = "judge"
  /\ IF Claimable(JUDGEABLE_COMPETITION_STATUSES)
     THEN competition' = [competition EXCEPT !.status = "JUDGED"]
     ELSE competition.status \notin JUDGEABLE_COMPETITION_STATUSES /\ UNCHANGED competition
  /\ ContestEnds(r)
  /\ UNCHANGED <<entry, scored>>

\* A request dies: its transaction rolls back.
ContestDies(r) ==
  /\ contest[r].step # "idle"
  /\ ContestEnds(r)
  /\ competition' = [competition EXCEPT !.lock = IF @ = r THEN Nothing ELSE @]
  /\ UNCHANGED <<entry, scored>>

DeadlinePasses ==
  /\ competition' = [competition EXCEPT !.past = TRUE]
  /\ UNCHANGED <<entry, scored, contest>>

CompetitionsNext ==
  \/ \E r \in Contests :
       \/ \E m \in Entrants :
            (\E content \in Contents : EnterLock(r, m, content)) \/ ScoreFind(r, m)
       \/ EnterWrite(r) \/ ScoreWrite(r) \/ JudgeRead(r) \/ JudgeClaim(r) \/ ContestDies(r)
  \/ CloseCompetition \/ DeadlinePasses

CompetitionsSpec == CompetitionsInit /\ [][CompetitionsNext]_competitionVars

-----------------------------------------------------------------------------
(* Properties                                                                 *)

CompetitionsTypeOK ==
  /\ competition \in [status : {"OPEN", "CLOSED", "JUDGED"}, past : BOOLEAN, lock : Contests \cup {Nothing}]
  /\ entry \in [Entrants -> Contents \cup {Nothing}]
  /\ scored \subseteq Entered
  /\ contest \in [Contests ->
       [step : {"idle", "enter", "score", "judge"},
        entrant : Entrants \cup {Nothing}, content : Contents \cup {Nothing}]]

\* What is judged is what was entered: no entry is made or replaced once the
\* competition is closed, not even by a request that found it open, and however
\* often it is closed or judged it is closed once and then judged once.
EntriesStandWhenClosed ==
  [][/\ entry' # entry => competition.status = "OPEN"
     /\ competition'.status # competition.status =>
          <<competition.status, competition'.status>> \in {<<"OPEN", "CLOSED">>, <<"CLOSED", "JUDGED">>}]_competitionVars
=============================================================================
