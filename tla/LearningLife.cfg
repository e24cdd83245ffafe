\* Two lectures, two students, two ticks of either that interleave; a cap of two,
\* two answers of one student at a time, to two checkpoints of the concept and one
\* without; tracks of one and two lessons and three completions; submissions that
\* overlap, two teachers; three taps of one question, or one of each of two; two
\* papers of two works; a competition of two; an event with one place for two.
CONSTANTS
  Nil = Nil
  Students = {s1, s2}
  Lectures = {l1, l2}
  duration <- MCDuration
  Seconds <- MCSeconds
  Posts = {p1, p2}
  k2 = k2
  k3 = k3
  q1 = q1
  c1 = c1
  Checkpoints = {k1, k2, k3}
  Concepts = {c1}
  conceptOf <- MCConceptOf
  MASTERY_ATTEMPT_CAP = 2
  Answers = {a1, a2}
  n1 = n1
  t1 = t1
  t2 = t2
  Tracks = {t1, t2}
  Lessons = {n1, n2, n3}
  trackOf <- MCTrackOf
  Completions = {r1, r2, r3}
  NoLesson = NoLesson
  Submitters = {w1, w2}
  Graders = {g1, g2}
  NoStamp = NoStamp
  Stamps = {m1, m2, m3, m4}
  NoQuestion = NoQuestion
  Questions = {q1, q2}
  Saves = {e1, e2}
  MaxTaps = 3
  Papers = {d1, d2}
  Works = {v1, v2}
  PaperRequests = {h1, h2}
  Passing = {d1}
  Reviews = {good}
  NoPaper = NoPaper
  Entrants = {x1, x2}
  Contests = {o1, o2}
  Contents = {y1, y2}
  Nothing = Nothing
  Members = {u1, u2}
  Rsvps = {i1, i2}
  capacityOfEvent = 1
  NoRsvp = NoRsvp
SPECIFICATION MCSpec
SYMMETRY Symmetric
INVARIANTS
  LearningTypeOK
  ProgressIsEarned
  OvershootIsBounded
  LevelIsOfCountedAnswers
  SavedIsCounted
  GradeIsOfWhatWasChecked
  LostOnlyWhenOverwritten
  
  NoDuplicateInWindow
  EventNeverOversold
PROPERTIES
  ImplementsAwards
  WatchNeverRewinds
  TeacherMarkStands
  LeavesOnlyWhenDelivered
  PublishedStands
  EntriesStandWhenClosed
