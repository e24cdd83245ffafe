------------------------------- MODULE Library -------------------------------
(* Borrowing and returning library books (catalog.routes.ts).  A borrow and a  *)
(* return are transactions under READ COMMITTED; the only locks are those of   *)
(* their conditional updates, which hold the row they changed until the        *)
(* commit.  One action per statement another request can slip past; the writes *)
(* of a transaction become visible at its last step.                          *)
EXTENDS Integers, FiniteSets

CONSTANTS
  Books, Readers,
  Loans,        \* identifiers Loan rows can get
  totalCopies,  \* totalCopies[b]
  Reqs,         \* requests that can be under way at the same time
  Nil

ASSUME LibraryAssumption ==
  /\ totalCopies \in [Books -> Nat]
  /\ IsFiniteSet(Loans)
  /\ Nil \notin Reqs

VARIABLES
  availableCopies,            \* availableCopies[b]
  status, bookOf, readerOf,   \* the Loan rows; "none": no row yet
  bookLock, loanLock,         \* the request whose transaction has changed the row
  req                         \* req[r]: the step of request r, and what it is about

libVars == <<availableCopies, status, bookOf, readerOf, bookLock, loanLock, req>>
rows == <<availableCopies, status, bookOf, readerOf>>

At(step, b, u, l) == [step |-> step, book |-> b, reader |-> u, loan |-> l]
Idle == At("idle", Nil, Nil, Nil)

LibraryInit ==
  /\ availableCopies = totalCopies
  /\ status = [l \in Loans |-> "none"]
  /\ bookOf = [l \in Loans |-> Nil]
  /\ readerOf = [l \in Loans |-> Nil]
  /\ bookLock = [b \in Books |-> Nil]
  /\ loanLock = [l \in Loans |-> Nil]
  /\ req = [r \in Reqs |-> Idle]

\* An UPDATE of a row waits for the transaction that has changed it, then has
\* it until the commit or the rollback.
LockBook_NotKept(r, b) == bookLock[b] = Nil /\ UNCHANGED bookLock
LockBook(r, b) == bookLock[b] = Nil /\ bookLock' = [bookLock EXCEPT ![b] = r]

FreeBook_Leaked(b) == UNCHANGED bookLock
FreeBook(b) == bookLock' = [bookLock EXCEPT ![b] = Nil]

ActiveLoans(b) == {l \in Loans : status[l] = "ACTIVE" /\ bookOf[l] = b}

-----------------------------------------------------------------------------
(* POST /library/loans                                                        *)

\* The book is looked up.
BorrowRead(r, b, u) ==
  /\ req[r].step = "idle"
  /\ req' = [req EXCEPT ![r] = At("borrowClaim", b, u, Nil)]
  /\ UNCHANGED <<rows, bookLock, loanLock>>

\* updateMany WHERE id = b AND availableCopies > 0, decrement; 409 when it
\* finds nothing.
OnShelf(b) == availableCopies[b] > 0

BorrowClaim(r) ==
  LET b == req[r].book IN
  /\ req[r].step = "borrowClaim"
  /\ \/ /\ OnShelf(b)
        /\ LockBook(r, b)
        /\ req' = [req EXCEPT ![r] = At("borrowFind", b, req[r].reader, Nil)]
     \/ /\ ~OnShelf(b)
        /\ bookLock[b] = Nil
        /\ req' = [req EXCEPT ![r] = Idle]
        /\ UNCHANGED bookLock
  /\ UNCHANGED <<rows, loanLock>>

\* The reader has the book already: everything is rolled back.
HasBook(u, b) == \E l \in ActiveLoans(b) : readerOf[l] = u

BorrowFind(r) ==
  LET b == req[r].book  u == req[r].reader IN
  /\ req[r].step = "borrowFind"
  /\ \/ /\ HasBook(u, b)
        /\ FreeBook(b)
        /\ req' = [req EXCEPT ![r] = Idle]
     \/ /\ ~HasBook(u, b)
        /\ req' = [req EXCEPT ![r] = At("borrowCreate", b, u, Nil)]
        /\ UNCHANGED bookLock
  /\ UNCHANGED <<rows, loanLock>>

\* The loan is created and the transaction commits, the decrement with it.
BorrowCreate(r, l) ==
  LET b == req[r].book  u == req[r].reader IN
  /\ req[r].step = "borrowCreate"
  /\ status[l] = "none"
  /\ status' = [status EXCEPT ![l] = "ACTIVE"]
  /\ bookOf' = [bookOf EXCEPT ![l] = b]
  /\ readerOf' = [readerOf EXCEPT ![l] = u]
  /\ availableCopies' = [availableCopies EXCEPT ![b] = @ - 1]
  /\ FreeBook(b)
  /\ req' = [req EXCEPT ![r] = Idle]
  /\ UNCHANGED loanLock

-----------------------------------------------------------------------------
(* POST /library/loans/:id/return                                             *)

\* The loan is read; that it is the caller's own never changes.
ReturnRead(r, l) ==
  /\ req[r].step = "idle"
  /\ status[l] # "none"
  /\ req' = [req EXCEPT ![r] = At("returnClaim", Nil, Nil, l)]
  /\ UNCHANGED <<rows, bookLock, loanLock>>

\* updateMany WHERE id = l AND status = ACTIVE; 409 when it finds nothing.
StillOut_AnyStatus(l) == TRUE
StillOut(l) == status[l] = "ACTIVE"

ReturnClaim(r) ==
  LET l == req[r].loan IN
  /\ req[r].step = "returnClaim"
  /\ loanLock[l] = Nil
  /\ \/ /\ StillOut(l)
        /\ loanLock' = [loanLock EXCEPT ![l] = r]
        /\ req' = [req EXCEPT ![r] = At("returnCopy", Nil, Nil, l)]
     \/ /\ ~StillOut(l)
        /\ req' = [req EXCEPT ![r] = Idle]
        /\ UNCHANGED loanLock
  /\ UNCHANGED <<rows, bookLock>>

\* The copy is put back, never above totalCopies, and the transaction commits.
ReturnCopy(r) ==
  LET l == req[r].loan  b == bookOf[l] IN
  /\ req[r].step = "returnCopy"
  /\ bookLock[b] = Nil
  /\ status' = [status EXCEPT ![l] = "RETURNED"]
  /\ availableCopies' = IF availableCopies[b] < totalCopies[b]
                        THEN [availableCopies EXCEPT ![b] = @ + 1] ELSE availableCopies
  /\ loanLock' = [loanLock EXCEPT ![l] = Nil]
  /\ req' = [req EXCEPT ![r] = Idle]
  /\ UNCHANGED <<bookOf, readerOf, bookLock>>

-----------------------------------------------------------------------------
\* The process dies, or the transaction times out, before the commit.
Abort(r) ==
  /\ req[r].step # "idle"
  /\ bookLock' = [b \in Books |-> IF bookLock[b] = r THEN Nil ELSE bookLock[b]]
  /\ loanLock' = [l \in Loans |-> IF loanLock[l] = r THEN Nil ELSE loanLock[l]]
  /\ req' = [req EXCEPT ![r] = Idle]
  /\ UNCHANGED rows

\* Bound of the model: a borrow begins only while an identifier is left for it.
Borrowing == {"borrowClaim", "borrowFind", "borrowCreate"}
IdentifierLeft ==
  Cardinality({r \in Reqs : req[r].step \in Borrowing})
    < Cardinality({l \in Loans : status[l] = "none"})

Borrow(r) == IdentifierLeft /\ \E b \in Books, u \in Readers : BorrowRead(r, b, u)

\* A reader sends a request.
Send(r) == Borrow(r) \/ \E l \in Loans : ReturnRead(r, l)

\* The server works on one.
Serve(r) ==
  \/ BorrowClaim(r) \/ BorrowFind(r) \/ ReturnClaim(r) \/ ReturnCopy(r)
  \/ \E l \in Loans : BorrowCreate(r, l)

LibraryNext == \E r \in Reqs : Send(r) \/ Serve(r) \/ Abort(r)

LibrarySpec == LibraryInit /\ [][LibraryNext]_libVars

\* A request whose next statement can run again and again runs it.
LibraryFairSpec == LibrarySpec /\ \A r \in Reqs : SF_libVars(Serve(r))

-----------------------------------------------------------------------------
(* Properties                                                                 *)

\* Rows, locks and requests have the shape of their declarations, and the count
\* on the shelf stays within 0..totalCopies.
LibraryTypeOK ==
  /\ availableCopies \in [Books -> Nat]
  /\ \A b \in Books : availableCopies[b] <= totalCopies[b]
  /\ status \in [Loans -> {"none", "ACTIVE", "RETURNED"}]
  /\ bookOf \in [Loans -> Books \cup {Nil}]
  /\ readerOf \in [Loans -> Readers \cup {Nil}]
  /\ bookLock \in [Books -> Reqs \cup {Nil}]
  /\ loanLock \in [Loans -> Reqs \cup {Nil}]
  /\ req \in [Reqs -> [step : Borrowing \cup {"idle", "returnClaim", "returnCopy"},
                       book : Books \cup {Nil}, reader : Readers \cup {Nil}, loan : Loans \cup {Nil}]]

\* No copy is lost and none invented, however borrows, returns and repeated
\* returns race: on the shelf plus out is what the library owns.
CopiesConserved ==
  \A b \in Books : availableCopies[b] + Cardinality(ActiveLoans(b)) = totalCopies[b]

\* A reader never has two loans of one book, though no unique index says so: the
\* row lock of the claim serialises the find-then-create.
OneLoanPerReader ==
  \A l, k \in Loans :
    status[l] = "ACTIVE" /\ status[k] = "ACTIVE" /\ bookOf[l] = bookOf[k] /\ readerOf[l] = readerOf[k]
    => l = k

\* A return is never stuck behind a borrow, nor the reverse: a borrow takes the
\* book and a return the loan and then the book, and both always end.
LibraryRequestsEnd == \A r \in Reqs : req[r].step # "idle" ~> req[r].step = "idle"

\* The claims, the locks and the clamp of the return add up to lending a copy and
\* taking it back in one step each: no interleaving shows anything else.
LendingContract == INSTANCE Lending
ImplementsLending == LendingContract!Spec

\* What holds of the locks at every moment, whatever is scheduled: a locked row is
\* in the hands of the request whose next commit gives it back, and of the requests
\* that wait for each other's rows there is always one that waits for none: a return
\* takes the loan and then the book, a borrow the book alone.
WaitsFor(r, p) ==
  \/ req[r].step = "borrowClaim" /\ bookLock[req[r].book] = p
  \/ req[r].step = "returnClaim" /\ loanLock[req[r].loan] = p
  \/ req[r].step = "returnCopy" /\ bookLock[bookOf[req[r].loan]] = p

HoldsBook == {"borrowFind", "borrowCreate"}
LocksAreInHand ==
  /\ \A b \in Books : bookLock[b] # Nil =>
       req[bookLock[b]].step \in HoldsBook /\ req[bookLock[b]].book = b
  /\ \A l \in Loans : loanLock[l] # Nil =>
       req[loanLock[l]].step = "returnCopy" /\ req[loanLock[l]].loan = l
NoRingOfWaiters ==
  \A R \in (SUBSET Reqs) \ {{}} : \E r \in R : \A p \in R : ~WaitsFor(r, p)
=============================================================================
