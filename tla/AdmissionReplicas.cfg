CONSTANTS
  nsA = nsA
  nsB = nsB
  nsC = nsC
  rep1 = rep1
  rep2 = rep2
  p1 = p1
  p2 = p2
  p3 = p3
  w1 = w1
  w2 = w2
  w3 = w3
  w4 = w4
  NoProc = NoProc
  NumQuotas = 1
  Hard <- OneHard
  Namespaces = {nsA, nsB, nsC}
  Owned = {nsA, nsB}
  Replicas = {rep1, rep2}
  Procs = {p1, p2, p3}
  NsOf <- MCNsOf
  RepOf <- TwoReplicas
  Waiters = {w1, w2, w3, w4}
  ProcOf <- MCProcOf
  Amount <- OneAmount
  DryRun = {}
  Refused <- NoneRefused
  MaxRetries = 1
  SharedLru = TRUE
  MaxBatch = 2
SPECIFICATION Spec
INVARIANTS
  NamespacesAddUp
  WithinHard
