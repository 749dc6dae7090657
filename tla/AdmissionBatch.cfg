CONSTANTS
  nsA = nsA
  nsB = nsB
  nsC = nsC
  rep1 = rep1
  rep2 = rep2
  p1 = p1
  p2 = p2
  p3 = p3
  w1 = w1
  w2 = w2
  w3 = w3
  w4 = w4
  NoProc = NoProc
  NumQuotas = 2
  Hard <- TwoHard
  Namespaces = {nsA, nsB}
  Owned = {nsA, nsB}
  Replicas = {rep1}
  Procs = {p1, p2}
  NsOf <- MCNsOf
  RepOf <- OneReplica
  Waiters = {w1, w2, w3}
  ProcOf <- MCProcOf
  Amount <- TwoAmount
  DryRun = {w2}
  Refused <- W2Refused
  MaxRetries = 1
  SharedLru = FALSE
  MaxBatch = 2
SPECIFICATION FairSpec
INVARIANTS
  TypeOK
  NoLostCharge
  ChargesAlone
  AdmittedIsCharged
PROPERTIES
  BatchesEnd
