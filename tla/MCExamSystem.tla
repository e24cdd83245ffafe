---------------------------- MODULE MCExamSystem ----------------------------
(* Small instances of ExamSystem.                                             *)
EXTENDS ExamSystem, TLC

CONSTANT t1

MCPaper == [t \in Templates |-> Questions]
MCPoints == [q \in Questions |-> 1]

\* Requests and identifiers are interchangeable, but for the template students sit.
Symmetric == UNION {Permutations(S) : S \in {Reqs, Attempts, Authoring, Templates \ {t1}}}

\* Students sit the template t1.  Its clone stands beside it as long as no exam has
\* begun and no window is set; once set, an opening time is moved no more.
Unsat == status = [a \in Attempts |-> "none"] /\ clock = 0 /\ \A r \in Reqs : req[r].step = "idle"
Unwindowed == /\ \A t \in Templates : openAt[t] = Nil /\ closeAt[t] = Nil
              /\ \A r \in Authoring : edit[r].openAt \notin Times /\ edit[r].closeAt \notin Times
Alone == /\ \A t \in Templates \ {t1} : tplStatus[t] = "none"
         /\ \A r \in Authoring : edit[r].tpl \in {t1, Nil}
         /\ \A r \in Authoring : edit[r].step = "edit" => edit[r].openAt = Keep
Small == Alone \/ (Unsat /\ Unwindowed)

MCSystemSpec == SystemInit /\ [][SystemNext /\ Small']_sysVars
=============================================================================
