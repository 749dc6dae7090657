CONSTANTS
  nsA = nsA
  nsB = nsB
  nsC = nsC
  rep1 = rep1
  rep2 = rep2
  p1 = p1
  p2 = p2
  p3 = p3
  w1 = w1
  w2 = w2
  w3 = w3
  w4 = w4
  NoProc = NoProc
  NumQuotas = 2
  Hard <- ScopedHard
  Namespaces = {nsA, nsB}
  Owned = {nsA, nsB}
  Replicas = {rep1}
  Procs = {p1}
  NsOf <- MCNsOf
  RepOf <- OneReplica
  Waiters = {w1, w2}
  ProcOf <- MCProcOf
  Amount <- ScopedAmount
  DryRun = {}
  Refused <- NoneRefused
  MaxRetries = 1
  SharedLru = FALSE
  MaxBatch = 2
SPECIFICATION FairSpec
PROPERTIES
  RejectionIsFinal
