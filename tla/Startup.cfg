CONSTANTS
  r1 = r1
  r2 = r2
  accounts = accounts
  c1 = c1
  c2 = c2
  c3 = c3
  c4 = c4
  c5 = c5
  c6 = c6
  Certs = {c1, c2, c3, c4, c5, c6}
  Replicas = {r1, r2}
  Crds = {accounts}
  InitialSecrets = {"absent", "invalid"}
  MaxFaults = 2
SPECIFICATION FairSpec
INVARIANTS
  OneCertificate
  ServesEstablished
PROPERTIES
  TrustConverges
CHECK_DEADLOCK FALSE
