--------------------------- MODULE MCExamAttempts ---------------------------
(* Small instances of ExamAttempts.                                           *)
EXTENDS ExamAttempts, TLC

CONSTANTS quiz, drill, essay, mcq

\* One essay question, judged by hand, and one machine-graded question.
MCPaper == [t \in Templates |-> Questions]
MCPoints == [q \in Questions |-> IF q = mcq THEN 2 ELSE 1]

\* Requests, and identifiers of attempts, are interchangeable.
Symmetric == Permutations(Reqs) \cup Permutations(Attempts)
=============================================================================
