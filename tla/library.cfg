SPECIFICATION Spec
CONSTANTS
  p1 = p1  p2 = p2  s1 = s1  s2 = s2  s3 = s3  u1 = u1  u2 = u2  u3 = u3  h1 = h1  h2 = h2
  None = None
  Projects = {p1, p2}
  Shots = {s1, s2, s3}
  Uploads = {u1, u2, u3}
  Threads = {h1, h2}
  MaxCount <- MCMaxCount
  MaxRefs = 3
  MaxSeconds = 15
  MinSegment = 2
  MaxSegment = 15
  Lengths = {8, 16}
  Positions = {0}
  MaxClears = 2
  Tasks = {"task 1", "task 2"}
  MaxSent = 3
  MaxPageClears = 1
INVARIANTS
  TypeOK
  LimitsHold
  AudioHasItsPicture
  FilesMatchRows
  OrderIsTotal
  TagsNameTheReferences
  TimelineIsCurrent
  NewestIsFollowed
SYMMETRY MCSymmetry
CHECK_DEADLOCK FALSE
