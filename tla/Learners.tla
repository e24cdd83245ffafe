-------------------------------- MODULE Learners -------------------------------
(* Whom the learning modules are about.                                       *)
CONSTANTS
  Students,
  Nil        \* no student, no lecture, no concept

ASSUME LearnersAssumption == Nil \notin Students
=============================================================================
