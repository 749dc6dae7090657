CONSTANTS
  nsA = nsA
  nsB = nsB
  r1 = r1
  r2 = r2
  r3 = r3
  r4 = r4
  r5 = r5
  Namespaces = {nsA, nsB}
  Waiters = {r1, r2, r3, r4, r5}
  Workers = {k1, k2}
  Untracked = {r5}
  NoNs = NoNs
  NsOf <- MCNsOf
SPECIFICATION FairSpec
INVARIANTS
  ExclusiveNamespace
  NoLostWakeup
  DeleteDropsNothing
PROPERTY
  ImplementsLine
