\* The code's own reads and writes of the queue, which may overlap.
CONSTANTS
  NoQuestion = NoQuestion
  Questions = {q1, q2}
  Saves = {s1, s2}
  MaxTaps = 2
SPECIFICATION QueueSpec
INVARIANTS
  NothingLost
