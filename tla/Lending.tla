-------------------------------- MODULE Lending --------------------------------
(* What the library promises about its copies and loans, with no requests and  *)
(* no locks: lending a copy and taking it back, each one atomic step.  Library  *)
(* implements this specification.                                              *)
EXTENDS Integers

CONSTANTS Books, Readers, Loans, totalCopies, Nil

VARIABLES availableCopies, status, bookOf, readerOf

lendingVars == <<availableCopies, status, bookOf, readerOf>>

Init ==
  /\ availableCopies = totalCopies
  /\ status = [l \in Loans |-> "none"]
  /\ bookOf = [l \in Loans |-> Nil]
  /\ readerOf = [l \in Loans |-> Nil]

HasOut(u, b) == \E l \in Loans : status[l] = "ACTIVE" /\ bookOf[l] = b /\ readerOf[l] = u

\* A copy leaves the shelf for a reader who has none of the book.
Lend(l, b, u) ==
  /\ status[l] = "none"
  /\ availableCopies[b] > 0
  /\ ~HasOut(u, b)
  /\ availableCopies' = [availableCopies EXCEPT ![b] = @ - 1]
  /\ status' = [status EXCEPT ![l] = "ACTIVE"]
  /\ bookOf' = [bookOf EXCEPT ![l] = b]
  /\ readerOf' = [readerOf EXCEPT ![l] = u]

\* A copy that is out comes back, once: one more on the shelf, and no limit that
\* would have to swallow it.
TakeBack(l) ==
  /\ status[l] = "ACTIVE"
  /\ availableCopies' = [availableCopies EXCEPT ![bookOf[l]] = @ + 1]
  /\ status' = [status EXCEPT ![l] = "RETURNED"]
  /\ UNCHANGED <<bookOf, readerOf>>

Next ==
  \E l \in Loans :
    \/ \E b \in Books, u \in Readers : Lend(l, b, u)
    \/ TakeBack(l)

Spec == Init /\ [][Next]_lendingVars
=============================================================================
