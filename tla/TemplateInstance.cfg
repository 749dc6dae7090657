CONSTANTS
  x = x  c = c  k = k  v1 = v1  v2 = v2
  Objs <- MCObjs
  Custom = {c}
  Kept = {k}
  Contents = {v1, v2}
  Absent = Absent
  Templates <- MCTemplates
  Broken = Broken
  MaxEdits = 2
  MaxErrors = 1
SPECIFICATION FairSpec
PROPERTIES
  RecordedIsApplied
  FollowsTemplate
  Decided
