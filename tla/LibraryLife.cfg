\* Two titles with one and two copies, two readers, three requests, three loans in all.
CONSTANTS
  Nil = Nil
  b1 = b1
  b2 = b2
  Books = {b1, b2}
  Readers = {u1, u2}
  Loans = {l1, l2, l3}
  totalCopies <- MCCopies
  Reqs = {r1, r2, r3}
SPECIFICATION LibraryFairSpec
INVARIANTS
  CopiesConserved
PROPERTIES
  ImplementsLending
  LibraryRequestsEnd
