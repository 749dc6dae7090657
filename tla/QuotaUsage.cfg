CONSTANTS
  Ids = {a, b}
  ContainerSpecs <- MCContainerSpecs
  PodSpecs <- MCPodSpecs
  ServiceSpecs <- MCServiceSpecs
  ClaimSpecs <- MCClaimSpecs
  Things <- MCThings
  Quotas <- MCQuotas
  None = None
  MaxCalls = 3
  MaxEdits = 1
  MaxFailures = 1
SYMMETRY Symmetry
SPECIFICATION Spec
INVARIANTS
  NeverUndercharged
  ReleaseNoticed
  LimitsHold
