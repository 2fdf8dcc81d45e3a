\* A PolicyServer without policies: the parts of its spec are edited, its rollout is
\* restarted, it is deleted and created again, at any moment, with one fault.
SPECIFICATION FairSpec
CONSTANTS
  s1 = s1
  s2 = s2
  cap = cap
  ap = ap
  ca1 = ca1
  ca2 = ca2
  ca3 = ca3
  ca4 = ca4
  None = None
  Servers = {s1}
  Specs <- Edits
  Policies = {}
  Owner <- NoneOwned
  Namespaced = {}
  CAs = {ca1, ca2, ca3}
  MaxWrites = 2
  MaxFaults = 1
INVARIANTS TypeOK DeploymentCanStart ConditionsAreTrue RestMeansInStep
PROPERTIES SpecIsFollowed RestartIsKept
\* The system is at rest once everything is reconciled and users have no more to do.
CHECK_DEADLOCK FALSE
