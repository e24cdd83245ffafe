---------------------------- MODULE MCAnswerQueue ----------------------------
(* Small instances of AnswerQueue.                                            *)
EXTENDS AnswerQueue, TLC

Symmetric == Permutations(Questions) \cup Permutations(Saves)
=============================================================================
