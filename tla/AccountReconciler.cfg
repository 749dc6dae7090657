CONSTANTS
  Acct = Acct
  Absent = Absent
  Namespaces = {nsA}
  RoleBindings = {rb1}
  ClusterRoles = {cr1, cr2, cr3, cr4, cr5, cr6}
  ClusterRoleBindings = {crb1, crb2, crb3, crb4, crb5, crb6}
  SubjectLists = {john, jane}
  FirstSubjects = john
  MaxEdits = 2
  MaxErrors = 1
SPECIFICATION FairSpec
PROPERTIES
  SubjectsConverge
  RoleConverges
  StatusConverges
