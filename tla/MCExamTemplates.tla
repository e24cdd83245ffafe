--------------------------- MODULE MCExamTemplates ---------------------------
(* Small instances of ExamTemplates.                                          *)
EXTENDS ExamTemplates, TLC

MCPaper == [t \in Templates |-> Questions]

\* Author requests, and templates over the same question, are interchangeable.
Symmetric == Permutations(Authoring) \cup Permutations(Templates)
=============================================================================
