---------------------------- MODULE LibraryProofs ----------------------------
(* No copy is lost, and no reader has a book twice, for any number of books,   *)
(* readers, loans and concurrent requests.                                    *)
EXTENDS Library, FiniteSetTheorems, TLAPS

\* What a request under way has in hand: rows that exist, and the locks of the
\* rows its transaction has changed, with what its conditions found there.
InHand(r) ==
  /\ req[r].step \in Borrowing => req[r].book \in Books /\ req[r].reader \in Readers
  /\ req[r].step \in {"borrowFind", "borrowCreate"} =>
       bookLock[req[r].book] = r /\ availableCopies[req[r].book] > 0
  /\ req[r].step = "borrowCreate" => ~HasBook(req[r].reader, req[r].book)
  /\ req[r].step \in {"returnClaim", "returnCopy"} => req[r].loan \in Loans /\ status[req[r].loan] # "none"
  /\ req[r].step = "returnCopy" => loanLock[req[r].loan] = r /\ status[req[r].loan] = "ACTIVE"

LoansHaveOwners == \A l \in Loans : status[l] # "none" => bookOf[l] \in Books /\ readerOf[l] \in Readers

LInv ==
  /\ LibraryTypeOK
  /\ LoansHaveOwners
  /\ \A r \in Reqs : InHand(r)
  /\ CopiesConserved
  /\ OneLoanPerReader

LEMMA InitLInv == LibraryInit => LInv
<1> SUFFICES ASSUME LibraryInit PROVE LInv
  OBVIOUS
<1> USE LibraryAssumption DEF LibraryInit
<1>1. LibraryTypeOK /\ LoansHaveOwners
  BY DEF LibraryTypeOK, LoansHaveOwners, Idle, At
<1>2. ASSUME NEW r \in Reqs PROVE InHand(r)
  BY DEF InHand, Idle, At, Borrowing
<1>3. \A b \in Books : ActiveLoans(b) = {}
  BY DEF ActiveLoans
<1>4. CopiesConserved
  BY <1>3, FS_EmptySet DEF CopiesConserved
<1> QED
  BY <1>1, <1>2, <1>4 DEF LInv, OneLoanPerReader

\* Only the two commits change the rows; the other steps move locks about.
\* A step of request r that changes no row keeps the invariant if r has in hand
\* what its next step needs, and if the locks of the others are left alone.
LEMMA RowsAlone ==
  ASSUME LInv, UNCHANGED rows, LibraryTypeOK', NEW r \in Reqs, InHand(r)',
         \A p \in Reqs \ {r} :
           /\ req'[p] = req[p]
           /\ \A b \in Books : bookLock[b] = p => bookLock'[b] = p
           /\ \A l \in Loans : loanLock[l] = p => loanLock'[l] = p
  PROVE  LInv'
<1>1. ASSUME NEW p \in Reqs \ {r} PROVE InHand(p)'
  BY <1>1 DEF LInv, InHand, rows, HasBook, ActiveLoans, Borrowing
<1> QED
  BY <1>1 DEF LInv, rows, LoansHaveOwners, CopiesConserved, OneLoanPerReader, ActiveLoans

LEMMA CreateKeeps ==
  ASSUME LInv, NEW r \in Reqs, NEW l \in Loans, BorrowCreate(r, l)
  PROVE  LInv'
<1> USE LibraryAssumption
<1>0. PICK b, u : b = req[r].book /\ u = req[r].reader
  OBVIOUS
<1>1. /\ b \in Books /\ u \in Readers /\ bookLock[b] = r
      /\ availableCopies[b] \in Nat \ {0} /\ ~HasBook(u, b) /\ status[l] = "none"
  BY <1>0 DEF BorrowCreate, LInv, InHand, Borrowing, LibraryTypeOK
<1>2. /\ status' = [status EXCEPT ![l] = "ACTIVE"]
      /\ bookOf' = [bookOf EXCEPT ![l] = b]
      /\ readerOf' = [readerOf EXCEPT ![l] = u]
      /\ availableCopies' = [availableCopies EXCEPT ![b] = availableCopies[b] - 1]
      /\ bookLock' = [bookLock EXCEPT ![b] = Nil]
      /\ req' = [req EXCEPT ![r] = Idle] /\ loanLock' = loanLock
  BY <1>0 DEF BorrowCreate, FreeBook
<1>3. LibraryTypeOK'
  <2>0. availableCopies \in [Books -> Nat] /\ \A c \in Books : availableCopies[c] <= totalCopies[c]
    BY DEF LInv, LibraryTypeOK
  <2>1. availableCopies' \in [Books -> Nat] /\ \A c \in Books : availableCopies'[c] <= totalCopies[c]
    <3>1. availableCopies[b] - 1 \in Nat /\ availableCopies[b] - 1 <= totalCopies[b]
      BY <1>1, <2>0
    <3> QED
      BY <1>1, <1>2, <2>0, <3>1
  <2> QED
    BY <1>1, <1>2, <2>1 DEF LInv, LibraryTypeOK, Idle, At
<1>4. LoansHaveOwners'
  BY <1>1, <1>2 DEF LInv, LibraryTypeOK, LoansHaveOwners
<1>5. ActiveLoans(b)' = ActiveLoans(b) \cup {l} /\ l \notin ActiveLoans(b)
      /\ \A c \in Books \ {b} : ActiveLoans(c)' = ActiveLoans(c)
  BY <1>1, <1>2 DEF LInv, LibraryTypeOK, ActiveLoans
<1>6. \A p \in Reqs : InHand(p)'
  <2>1. InHand(r)'
    BY <1>2 DEF InHand, Idle, At, Borrowing, LInv, LibraryTypeOK
  <2>2. ASSUME NEW p \in Reqs \ {r} PROVE InHand(p)'
    <3>1. req'[p] = req[p] /\ InHand(p)
      BY <1>2 DEF LInv, LibraryTypeOK
    <3>2. req[p].step \in {"borrowFind", "borrowCreate"} =>
            req[p].book \in Books \ {b} /\ bookLock'[req[p].book] = p /\ availableCopies'[req[p].book] > 0
      BY <1>1, <1>2, <3>1 DEF InHand, LInv, LibraryTypeOK, Borrowing
    <3>3. req[p].step = "borrowCreate" => ~HasBook(req[p].reader, req[p].book)'
      BY <1>1, <1>2, <1>5, <3>1, <3>2 DEF InHand, HasBook, LInv, LibraryTypeOK, ActiveLoans
    <3>4. req[p].step \in {"returnClaim", "returnCopy"} => req[p].loan \in Loans /\ status'[req[p].loan] # "none"
      BY <1>2, <3>1 DEF InHand, LInv, LibraryTypeOK
    <3>5. req[p].step = "returnCopy" => loanLock'[req[p].loan] = p /\ status'[req[p].loan] = "ACTIVE"
      BY <1>2, <3>1 DEF InHand, LInv, LibraryTypeOK
    <3> QED
      BY <3>1, <3>2, <3>3, <3>4, <3>5 DEF InHand
  <2> QED
    BY <2>1, <2>2
<1>7. CopiesConserved'
  <2>1. IsFiniteSet(ActiveLoans(b))
    BY FS_Subset DEF ActiveLoans
  <2>2. Cardinality(ActiveLoans(b)') = Cardinality(ActiveLoans(b)) + 1 /\ Cardinality(ActiveLoans(b)) \in Nat
    BY <1>5, <2>1, FS_AddElement, FS_CardinalityType
  <2>3. availableCopies[b] + Cardinality(ActiveLoans(b)) = totalCopies[b]
    BY <1>1 DEF LInv, CopiesConserved
  <2>4. availableCopies'[b] + Cardinality(ActiveLoans(b)') = totalCopies[b]
    BY <1>1, <1>2, <2>2, <2>3 DEF LInv, LibraryTypeOK
  <2>5. \A c \in Books \ {b} : availableCopies'[c] + Cardinality(ActiveLoans(c)') = totalCopies[c]
    BY <1>2, <1>5 DEF LInv, LibraryTypeOK, CopiesConserved
  <2> QED
    BY <2>4, <2>5 DEF CopiesConserved
<1>8. OneLoanPerReader'
  BY <1>1, <1>2 DEF LInv, LibraryTypeOK, OneLoanPerReader, HasBook, ActiveLoans
<1> QED
  BY <1>3, <1>4, <1>6, <1>7, <1>8 DEF LInv

LEMMA ReturnKeeps ==
  ASSUME LInv, NEW r \in Reqs, ReturnCopy(r)
  PROVE  LInv'
<1> USE LibraryAssumption
<1>0. PICK l, b : l = req[r].loan /\ b = bookOf[l]
  OBVIOUS
<1>1. /\ l \in Loans /\ status[l] = "ACTIVE" /\ loanLock[l] = r
      /\ b \in Books /\ readerOf[l] \in Readers /\ bookLock[b] = Nil
  BY <1>0 DEF ReturnCopy, LInv, InHand, LoansHaveOwners
<1>2. ActiveLoans(b)' = ActiveLoans(b) \ {l} /\ l \in ActiveLoans(b)
      /\ \A c \in Books \ {b} : ActiveLoans(c)' = ActiveLoans(c)
  BY <1>0, <1>1 DEF LInv, LibraryTypeOK, ActiveLoans, ReturnCopy
<1>3. /\ IsFiniteSet(ActiveLoans(b))
      /\ Cardinality(ActiveLoans(b)') = Cardinality(ActiveLoans(b)) - 1
      /\ Cardinality(ActiveLoans(b)) \in Nat \ {0}
  <2>1. IsFiniteSet(ActiveLoans(b))
    BY FS_Subset DEF ActiveLoans
  <2> QED
    BY <1>2, <2>1, FS_RemoveElement, FS_CardinalityType, FS_EmptySet
<1>4. /\ availableCopies[b] \in Nat /\ totalCopies[b] \in Nat
      /\ availableCopies[b] + Cardinality(ActiveLoans(b)) = totalCopies[b]
  BY <1>1 DEF LInv, LibraryTypeOK, CopiesConserved
<1>5. availableCopies' = [availableCopies EXCEPT ![b] = availableCopies[b] + 1]
  BY <1>0, <1>3, <1>4 DEF ReturnCopy
<1>6. /\ status' = [status EXCEPT ![l] = "RETURNED"] /\ UNCHANGED <<bookOf, readerOf, bookLock>>
      /\ loanLock' = [loanLock EXCEPT ![l] = Nil] /\ req' = [req EXCEPT ![r] = Idle]
  BY <1>0 DEF ReturnCopy
<1>7. LibraryTypeOK'
  <2>1. availableCopies[b] + 1 <= totalCopies[b]
    BY <1>3, <1>4
  <2>2. availableCopies' \in [Books -> Nat] /\ \A c \in Books : availableCopies'[c] <= totalCopies[c]
    BY <1>1, <1>5, <2>1 DEF LInv, LibraryTypeOK
  <2> QED
    BY <1>1, <1>6, <2>2 DEF LInv, LibraryTypeOK, Idle, At
<1>8. LoansHaveOwners'
  BY <1>1, <1>6 DEF LInv, LibraryTypeOK, LoansHaveOwners
<1>9. \A p \in Reqs : InHand(p)'
  <2>1. InHand(r)'
    BY <1>6 DEF InHand, Idle, At, Borrowing, LInv, LibraryTypeOK
  <2>2. ASSUME NEW p \in Reqs \ {r} PROVE InHand(p)'
    <3>1. req'[p] = req[p] /\ InHand(p)
      BY <1>6 DEF LInv, LibraryTypeOK
    <3>2. req[p].step \in {"borrowFind", "borrowCreate"} =>
            bookLock'[req[p].book] = p /\ availableCopies'[req[p].book] > 0
      BY <1>1, <1>5, <1>6, <3>1 DEF InHand, LInv, LibraryTypeOK, Borrowing
    <3>3. req[p].step = "borrowCreate" => ~HasBook(req[p].reader, req[p].book)'
      BY <1>1, <1>6, <3>1 DEF InHand, HasBook, LInv, LibraryTypeOK, ActiveLoans
    <3>4. req[p].step \in {"returnClaim", "returnCopy"} => req[p].loan \in Loans /\ status'[req[p].loan] # "none"
      BY <1>1, <1>6, <3>1 DEF InHand, LInv, LibraryTypeOK
    <3>5. req[p].step = "returnCopy" => loanLock'[req[p].loan] = p /\ status'[req[p].loan] = "ACTIVE"
      BY <1>1, <1>6, <3>1 DEF InHand, LInv, LibraryTypeOK
    <3> QED
      BY <3>1, <3>2, <3>3, <3>4, <3>5 DEF InHand
  <2> QED
    BY <2>1, <2>2
<1>10. CopiesConserved'
  <2>1. availableCopies'[b] + Cardinality(ActiveLoans(b)') = totalCopies[b]
    BY <1>1, <1>3, <1>4, <1>5 DEF LInv, LibraryTypeOK
  <2>2. \A c \in Books \ {b} : availableCopies'[c] + Cardinality(ActiveLoans(c)') = totalCopies[c]
    BY <1>2, <1>5 DEF LInv, LibraryTypeOK, CopiesConserved
  <2> QED
    BY <2>1, <2>2 DEF CopiesConserved
<1>11. OneLoanPerReader'
  BY <1>1, <1>6 DEF LInv, LibraryTypeOK, OneLoanPerReader
<1> QED
  BY <1>7, <1>8, <1>9, <1>10, <1>11 DEF LInv

LEMMA StepLInv == LInv /\ [LibraryNext]_libVars => LInv'
<1> SUFFICES ASSUME LInv, [LibraryNext]_libVars PROVE LInv'
  OBVIOUS
<1> USE LibraryAssumption
<1>1. CASE UNCHANGED libVars
  BY <1>1 DEF libVars, LInv, LibraryTypeOK, LoansHaveOwners, InHand, HasBook, ActiveLoans,
              CopiesConserved, OneLoanPerReader
<1>2. ASSUME NEW r \in Reqs, NEW b \in Books, NEW u \in Readers, BorrowRead(r, b, u) PROVE LInv'
  <2>1. LibraryTypeOK' /\ InHand(r)'
    BY <1>2 DEF BorrowRead, rows, LInv, LibraryTypeOK, InHand, At, Borrowing
  <2> QED
    BY <1>2, <2>1, RowsAlone DEF BorrowRead, LInv, LibraryTypeOK
<1>3. ASSUME NEW r \in Reqs, BorrowClaim(r) PROVE LInv'
  <2>1. LibraryTypeOK' /\ InHand(r)'
    BY <1>3 DEF BorrowClaim, LockBook, OnShelf, rows, LInv, LibraryTypeOK, InHand, At, Idle, Borrowing
  <2> QED
    BY <1>3, <2>1, RowsAlone DEF BorrowClaim, LockBook, LInv, LibraryTypeOK
<1>4. ASSUME NEW r \in Reqs, BorrowFind(r) PROVE LInv'
  <2>1. LibraryTypeOK' /\ InHand(r)'
    BY <1>4 DEF BorrowFind, FreeBook, HasBook, ActiveLoans, rows, LInv, LibraryTypeOK, InHand, At, Idle, Borrowing
  <2>2. bookLock[req[r].book] = r
    BY <1>4 DEF BorrowFind, LInv, InHand
  <2> QED
    BY <1>4, <2>1, <2>2, RowsAlone DEF BorrowFind, FreeBook, LInv, LibraryTypeOK
<1>5. ASSUME NEW r \in Reqs, NEW l \in Loans, ReturnRead(r, l) PROVE LInv'
  <2>1. LibraryTypeOK' /\ InHand(r)'
    BY <1>5 DEF ReturnRead, rows, LInv, LibraryTypeOK, InHand, At, Borrowing
  <2> QED
    BY <1>5, <2>1, RowsAlone DEF ReturnRead, LInv, LibraryTypeOK
<1>6. ASSUME NEW r \in Reqs, ReturnClaim(r) PROVE LInv'
  <2>1. LibraryTypeOK' /\ InHand(r)'
    BY <1>6 DEF ReturnClaim, StillOut, rows, LInv, LibraryTypeOK, InHand, At, Idle, Borrowing
  <2> QED
    BY <1>6, <2>1, RowsAlone DEF ReturnClaim, LInv, LibraryTypeOK
<1>7. ASSUME NEW r \in Reqs, Abort(r) PROVE LInv'
  <2>1. LibraryTypeOK' /\ InHand(r)'
    BY <1>7 DEF Abort, rows, LInv, LibraryTypeOK, InHand, At, Idle, Borrowing
  <2> QED
    BY <1>7, <2>1, RowsAlone DEF Abort, LInv, LibraryTypeOK
<1> QED
  BY <1>1, <1>2, <1>3, <1>4, <1>5, <1>6, <1>7, CreateKeeps, ReturnKeeps
  DEF LibraryNext, Send, Borrow, Serve

THEOREM LibraryInvariance == LibrarySpec => []LInv
  BY InitLInv, StepLInv, PTL DEF LibrarySpec

\* Shelf and loans add up, and no reader has a book twice, for every library.
THEOREM LibrarySafety == LibrarySpec => [](LibraryTypeOK /\ CopiesConserved /\ OneLoanPerReader)
<1>1. LInv => LibraryTypeOK /\ CopiesConserved /\ OneLoanPerReader
  BY DEF LInv
<1> QED
  BY <1>1, LibraryInvariance, PTL

\* No reader ever holds two loans of one book.
THEOREM NoSecondLoan == LibrarySpec => []OneLoanPerReader
  BY LibrarySafety, PTL

\* Books, loans and the requests on them keep their types.
THEOREM LibraryTyped == LibrarySpec => []LibraryTypeOK
  BY LibrarySafety, PTL

-----------------------------------------------------------------------------
(* The library implements Lending: the commit of a borrow is the lending, the  *)
(* commit of a return the taking back, and nothing else shows in the rows.     *)

LEMMA CreateLends ==
  ASSUME LInv, NEW r \in Reqs, NEW l \in Loans, BorrowCreate(r, l)
  PROVE  LendingContract!Lend(l, req[r].book, req[r].reader) /\ req[r].book \in Books /\ req[r].reader \in Readers
<1>1. InHand(r) /\ req[r].step = "borrowCreate"
  BY DEF BorrowCreate, LInv
<1>2. ~LendingContract!HasOut(req[r].reader, req[r].book)
  BY <1>1 DEF InHand, HasBook, ActiveLoans, LendingContract!HasOut
<1> QED
  BY <1>1, <1>2 DEF BorrowCreate, LendingContract!Lend, InHand, Borrowing

\* The clamp of the return never bites: a loan that is out leaves room on the shelf.
LEMMA ReturnTakesBack ==
  ASSUME LInv, NEW r \in Reqs, ReturnCopy(r)
  PROVE  req[r].loan \in Loans /\ LendingContract!TakeBack(req[r].loan)
<1> DEFINE l == req[r].loan  b == bookOf[req[r].loan]
<1>1. l \in Loans /\ status[l] = "ACTIVE" /\ b \in Books
  BY DEF ReturnCopy, LInv, InHand, LoansHaveOwners
<1>2. availableCopies[b] < totalCopies[b]
  <2>1. l \in ActiveLoans(b) /\ IsFiniteSet(ActiveLoans(b))
    BY <1>1, LibraryAssumption, FS_Subset DEF ActiveLoans
  <2>2. Cardinality(ActiveLoans(b)) \in Nat \ {0}
    BY <2>1, FS_CardinalityType, FS_EmptySet
  <2>3. availableCopies[b] \in Nat /\ availableCopies[b] + Cardinality(ActiveLoans(b)) = totalCopies[b]
    BY <1>1 DEF LInv, LibraryTypeOK, CopiesConserved
  <2> QED
    BY <2>2, <2>3
<1> QED
  BY <1>1, <1>2 DEF ReturnCopy, LendingContract!TakeBack

LEMMA LibraryStepMaps ==
  LInv /\ [LibraryNext]_libVars => [LendingContract!Next]_(LendingContract!lendingVars)
<1> SUFFICES ASSUME LInv, [LibraryNext]_libVars
             PROVE  LendingContract!Next \/ UNCHANGED rows
  BY DEF rows, LendingContract!lendingVars
<1>1. ASSUME NEW r \in Reqs, NEW l \in Loans, BorrowCreate(r, l) PROVE LendingContract!Next
  BY <1>1, CreateLends DEF LendingContract!Next
<1>2. ASSUME NEW r \in Reqs, ReturnCopy(r) PROVE LendingContract!Next
  BY <1>2, ReturnTakesBack DEF LendingContract!Next
<1> QED
  BY <1>1, <1>2
  DEF LibraryNext, Send, Borrow, Serve, BorrowRead, BorrowClaim, BorrowFind, ReturnRead, ReturnClaim, Abort,
      libVars, rows

\* Every execution of the handlers shows lendings and returns in one step each.
THEOREM LibraryRefinesLending == LibrarySpec => ImplementsLending
<1>1. LibraryInit => LendingContract!Init
  BY DEF LibraryInit, LendingContract!Init
<1> QED
  BY <1>1, LibraryStepMaps, LibraryInvariance, PTL DEF LibrarySpec, ImplementsLending, LendingContract!Spec

-----------------------------------------------------------------------------
(* The row locks.                                                             *)

\* A step of request r hands over no lock but its own, and after it r is where
\* the locks it then has put it.
LEMMA HandsOver ==
  ASSUME LibraryTypeOK, LocksAreInHand, NEW r \in Reqs,
         \A p \in Reqs \ {r} : req'[p] = req[p],
         \A b \in Books : bookLock'[b] \in {Nil, bookLock[b], r},
         \A l \in Loans : loanLock'[l] \in {Nil, loanLock[l], r},
         \A b \in Books : bookLock'[b] = r => req'[r].step \in HoldsBook /\ req'[r].book = b,
         \A l \in Loans : loanLock'[l] = r => req'[r].step = "returnCopy" /\ req'[r].loan = l
  PROVE  LocksAreInHand'
  BY LibraryAssumption DEF LocksAreInHand, LibraryTypeOK

LEMMA StepInHand == LInv /\ LocksAreInHand /\ [LibraryNext]_libVars => LocksAreInHand'
<1> SUFFICES ASSUME LInv, LocksAreInHand, [LibraryNext]_libVars PROVE LocksAreInHand'
  OBVIOUS
<1>0. LibraryTypeOK
  BY DEF LInv
<1>1. CASE UNCHANGED libVars
  BY <1>1 DEF libVars, LocksAreInHand
<1>2. ASSUME NEW r \in Reqs, Send(r) \/ Serve(r) \/ Abort(r) PROVE LocksAreInHand'
  <2>0. /\ \A b \in Books : bookLock[b] = r => req[r].step \in HoldsBook /\ req[r].book = b
        /\ \A l \in Loans : loanLock[l] = r => req[r].step = "returnCopy" /\ req[r].loan = l
    BY LibraryAssumption DEF LocksAreInHand
  <2> USE DEF HoldsBook
  <2>1. CASE Send(r)
    <3>1. /\ UNCHANGED <<bookLock, loanLock>> /\ req[r].step = "idle"
          /\ \A p \in Reqs \ {r} : req'[p] = req[p]
      BY <1>0, <2>1 DEF Send, Borrow, BorrowRead, ReturnRead, LibraryTypeOK
    <3> QED
      BY <1>0, <2>0, <3>1, HandsOver
  <2>2. CASE BorrowClaim(r)
    <3>1. /\ req[r].step = "borrowClaim" /\ loanLock' = loanLock
          /\ \A p \in Reqs \ {r} : req'[p] = req[p]
          /\ \/ /\ req'[r].step = "borrowFind" /\ req'[r].book = req[r].book
                /\ bookLock' = [bookLock EXCEPT ![req[r].book] = r]
             \/ bookLock' = bookLock
      BY <1>0, <2>2 DEF BorrowClaim, LockBook, LibraryTypeOK, At
    <3>2. \A b \in Books : bookLock'[b] \in {bookLock[b], r}
      BY <1>0, <3>1 DEF LibraryTypeOK
    <3>3. \A b \in Books : bookLock'[b] = r => req'[r].step \in HoldsBook /\ req'[r].book = b
      BY <1>0, <2>0, <3>1 DEF LibraryTypeOK
    <3>4. \A l \in Loans : loanLock'[l] # r
      BY <2>0, <3>1
    <3> QED
      BY <1>0, <3>1, <3>2, <3>3, <3>4, HandsOver
  <2>3. CASE BorrowFind(r)
    <3>1. /\ req[r].step = "borrowFind" /\ loanLock' = loanLock
          /\ \A p \in Reqs \ {r} : req'[p] = req[p]
          /\ \/ bookLock' = [bookLock EXCEPT ![req[r].book] = Nil]
             \/ /\ req'[r].step = "borrowCreate" /\ req'[r].book = req[r].book
                /\ bookLock' = bookLock
      BY <1>0, <2>3 DEF BorrowFind, FreeBook, LibraryTypeOK, At
    <3>2. \A b \in Books : bookLock'[b] \in {Nil, bookLock[b]}
      BY <1>0, <3>1 DEF LibraryTypeOK
    <3>3. \A b \in Books : bookLock'[b] = r => req'[r].step \in HoldsBook /\ req'[r].book = b
      BY <1>0, <2>0, <3>1, LibraryAssumption DEF LibraryTypeOK
    <3>4. \A l \in Loans : loanLock'[l] # r
      BY <2>0, <3>1
    <3> QED
      BY <1>0, <3>1, <3>2, <3>3, <3>4, HandsOver
  <2>4. ASSUME NEW l \in Loans, BorrowCreate(r, l) PROVE LocksAreInHand'
    <3>1. /\ req[r].step = "borrowCreate" /\ loanLock' = loanLock
          /\ \A p \in Reqs \ {r} : req'[p] = req[p]
          /\ bookLock' = [bookLock EXCEPT ![req[r].book] = Nil]
      BY <1>0, <2>4 DEF BorrowCreate, FreeBook, LibraryTypeOK
    <3>2. \A b \in Books : bookLock'[b] \in {Nil, bookLock[b]} /\ bookLock'[b] # r
      BY <1>0, <2>0, <3>1, LibraryAssumption DEF LibraryTypeOK
    <3>3. \A k \in Loans : loanLock'[k] # r
      BY <2>0, <3>1
    <3> QED
      BY <1>0, <3>1, <3>2, <3>3, HandsOver
  <2>5. CASE ReturnClaim(r)
    <3>1. /\ req[r].step = "returnClaim" /\ bookLock' = bookLock
          /\ \A p \in Reqs \ {r} : req'[p] = req[p]
          /\ \/ /\ req'[r].step = "returnCopy" /\ req'[r].loan = req[r].loan
                /\ loanLock' = [loanLock EXCEPT ![req[r].loan] = r]
             \/ loanLock' = loanLock
      BY <1>0, <2>5 DEF ReturnClaim, LibraryTypeOK, At
    <3>2. \A l \in Loans : loanLock'[l] \in {loanLock[l], r}
      BY <1>0, <3>1 DEF LibraryTypeOK
    <3>3. \A l \in Loans : loanLock'[l] = r => req'[r].step = "returnCopy" /\ req'[r].loan = l
      BY <1>0, <2>0, <3>1 DEF LibraryTypeOK
    <3>4. \A b \in Books : bookLock'[b] # r
      BY <2>0, <3>1
    <3> QED
      BY <1>0, <3>1, <3>2, <3>3, <3>4, HandsOver
  <2>6. CASE ReturnCopy(r)
    <3>1. /\ req[r].step = "returnCopy" /\ bookLock' = bookLock
          /\ \A p \in Reqs \ {r} : req'[p] = req[p]
          /\ loanLock' = [loanLock EXCEPT ![req[r].loan] = Nil]
      BY <1>0, <2>6 DEF ReturnCopy, LibraryTypeOK
    <3>2. \A l \in Loans : loanLock'[l] \in {Nil, loanLock[l]} /\ loanLock'[l] # r
      BY <1>0, <2>0, <3>1, LibraryAssumption DEF LibraryTypeOK
    <3>3. \A b \in Books : bookLock'[b] # r
      BY <2>0, <3>1
    <3> QED
      BY <1>0, <3>1, <3>2, <3>3, HandsOver
  <2>7. CASE Abort(r)
    <3>1. /\ \A p \in Reqs \ {r} : req'[p] = req[p]
          /\ \A b \in Books : bookLock'[b] \in {Nil, bookLock[b]} /\ bookLock'[b] # r
          /\ \A l \in Loans : loanLock'[l] \in {Nil, loanLock[l]} /\ loanLock'[l] # r
      BY <1>0, <2>7, LibraryAssumption DEF Abort, LibraryTypeOK
    <3> QED
      BY <1>0, <3>1, HandsOver
  <2> QED
    BY <1>2, <2>1, <2>2, <2>3, <2>4, <2>5, <2>6, <2>7 DEF Serve
<1> QED
  BY <1>1, <1>2 DEF LibraryNext

\* Whoever holds a book waits for nobody, and whoever holds a loan waits for a
\* book at most.
LEMMA SomebodyGoes == ASSUME LInv, LocksAreInHand PROVE NoRingOfWaiters
<1> SUFFICES ASSUME NEW R \in (SUBSET Reqs) \ {{}} PROVE \E r \in R : \A p \in R : ~WaitsFor(r, p)
  BY DEF NoRingOfWaiters
<1>0. /\ \A r \in Reqs : req[r].step = "borrowClaim" => req[r].book \in Books
      /\ \A r \in Reqs : req[r].step \in {"returnClaim", "returnCopy"} =>
           req[r].loan \in Loans /\ bookOf[req[r].loan] \in Books
  BY DEF LInv, InHand, Borrowing, LoansHaveOwners
<1>1. ASSUME NEW r \in Reqs, NEW p \in Reqs, WaitsFor(r, p)
      PROVE  /\ req[p].step \in HoldsBook \/ (req[p].step = "returnCopy" /\ req[r].step = "returnClaim")
             /\ req[r].step \notin HoldsBook
  BY <1>0, <1>1, LibraryAssumption DEF WaitsFor, LocksAreInHand, HoldsBook
<1>2. CASE \E r \in R : req[r].step \in HoldsBook
  BY <1>1, <1>2
<1>3. CASE /\ \A r \in R : req[r].step \notin HoldsBook
           /\ \E r \in R : req[r].step = "returnCopy"
  BY <1>1, <1>3
<1>4. CASE \A r \in R : req[r].step \notin HoldsBook \cup {"returnCopy"}
  BY <1>1, <1>4
<1> QED
  BY <1>2, <1>3, <1>4

\* No row lock outlives the request that took it, and borrows and returns never
\* wait for each other in a ring: the half of LibraryRequestsEnd that needs no
\* fairness.
THEOREM LocksComeBack == LibrarySpec => [](LocksAreInHand /\ NoRingOfWaiters)
<1>1. LibraryInit => LocksAreInHand
  BY DEF LibraryInit, LocksAreInHand
<1>2. LInv /\ LocksAreInHand => NoRingOfWaiters
  BY SomebodyGoes
<1> QED
  BY <1>1, <1>2, StepInHand, LibraryInvariance, PTL DEF LibrarySpec
=============================================================================
