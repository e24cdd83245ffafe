\* An item that was left behind is sent at the next flush.
CONSTANTS
  NoQuestion = NoQuestion
  Questions = {q1, q2}
  Saves = {s1, s2}
  MaxTaps = 2
SPECIFICATION QueueSpec
INVARIANTS
  NewestStands
