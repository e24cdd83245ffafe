\* A teacher whose page is open while the student submits again.
CONSTANTS
  Submitters = {w1}
  Graders = {g1}
  NoStamp = NoStamp
  Stamps = {m1, m2, m3, m4, m5}
SPECIFICATION SubmissionsSpec
INVARIANTS
  GradedAsSeen
