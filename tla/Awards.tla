-------------------------------- MODULE Awards --------------------------------
(* What training promises a user, with no requests and no locks: enrolling in  *)
(* a track and completing a lesson, each one atomic step with everything it    *)
(* earns.  Training implements this specification.                             *)
EXTENDS Integers

CONSTANTS Tracks, Lessons, trackOf

VARIABLES enrollment, lessonsDone, lessonPoints, trackAwards, firstStep

awardVars == <<enrollment, lessonsDone, lessonPoints, trackAwards, firstStep>>

Init ==
  /\ enrollment = [k \in Tracks |-> "none"]
  /\ lessonsDone = {}
  /\ lessonPoints = [l \in Lessons |-> 0]
  /\ trackAwards = [k \in Tracks |-> 0]
  /\ firstStep = FALSE

Enroll(k) ==
  /\ enrollment[k] = "none"
  /\ enrollment' = [enrollment EXCEPT ![k] = "open"]
  /\ UNCHANGED <<lessonsDone, lessonPoints, trackAwards, firstStep>>

\* With lesson l the track k has all its lessons, for the first time.
Completes(k, l) ==
  /\ enrollment[k] # "completed"
  /\ {m \in Lessons : trackOf[m] = k} \subseteq lessonsDone \cup {l}

\* A lesson is credited the first time it is completed, its track the moment its
\* last lesson is, and the first-step badge with the first.
Complete(l) ==
  LET k == trackOf[l] IN
  /\ lessonsDone' = lessonsDone \cup {l}
  /\ lessonPoints' = IF l \in lessonsDone THEN lessonPoints ELSE [lessonPoints EXCEPT ![l] = @ + 1]
  /\ enrollment' = [enrollment EXCEPT ![k] = IF Completes(k, l) \/ @ = "completed" THEN "completed" ELSE "open"]
  /\ trackAwards' = IF Completes(k, l) THEN [trackAwards EXCEPT ![k] = @ + 1] ELSE trackAwards
  /\ firstStep' = TRUE

Next == \/ \E k \in Tracks : Enroll(k)
        \/ \E l \in Lessons : Complete(l)

Spec == Init /\ [][Next]_awardVars
=============================================================================
