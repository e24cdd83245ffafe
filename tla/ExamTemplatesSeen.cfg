\* A moderator, and an author who edits what the moderator is reading.
CONSTANTS
  Nil = Nil
  Keep = Keep
  Templates = {t1}
  Questions = {q1}
  Paper <- MCPaper
  Moderators = {m1}
  Retrying = {m1}
  Authoring = {e1}
  Times = {1}
  MaxVersion = 2
SPECIFICATION TemplateSpec
INVARIANTS
  ApprovedAsSeen
