CONSTANTS
  acme = acme  other = other  alice = alice  root = root  t1 = t1 

  Names = {x}
  Accounts = {acme, other}
  NoAccount = NoAccount
  Users = {alice, root}
  Admin = {root}
  Members <- MCMembers
  Limit <- MCLimit
  NoLimit = NoLimit
  Instances <- MCInstances
  NoTemplate = NoTemplate
  Generated = {}
  HasRole = {acme}
  Clients = {c1, c2}
  Gone = Gone
  MaxUid = 2
SPECIFICATION FairSpec
INVARIANTS
  AccessAfterTemplates
  SuccessIsReady
  NoneForgotten
PROPERTIES
  LimitHolds
  Answered
  AccessEnds
CHECK_DEADLOCK FALSE
