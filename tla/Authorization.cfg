CONSTANTS
  Users <- MCUsers
  Namespaces <- MCNamespaces
  Accounts <- MCAccounts
  Subjects <- MCSubjects
  SubjectSets <- MCSubjectSets
  RuleSets <- MCRuleSets
  Bindings <- MCBindings
  Roles <- MCRoles
  Requests <- MCRequests
SPECIFICATION Spec
INVARIANTS
  IndexIsExact
  OneView
  MembersReachSpaces
  NoEscalation
  BreakdownExact
