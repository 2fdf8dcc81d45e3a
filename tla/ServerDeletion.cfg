\* A PolicyServer with a bound policy is created, deleted and created again, and users
\* delete the policy too, at any moment, with one fault.
SPECIFICATION FairSpec
CONSTANTS
  s1 = s1
  s2 = s2
  cap = cap
  ap = ap
  ca1 = ca1
  ca2 = ca2
  ca3 = ca3
  ca4 = ca4
  None = None
  Servers = {s1}
  Specs <- PlainSpec
  Policies = {cap}
  Owner <- CapOwned
  Namespaced = {}
  CAs = {ca1, ca2, ca3}
  MaxWrites = 2
  MaxFaults = 1
INVARIANTS IInv NothingIsLeft DeletionIsUnderWay RestMeansListed
PROPERTIES ServerDeletionCompletes ImplementsOwnership
\* The system is at rest once everything is reconciled and users have no more to do.
CHECK_DEADLOCK FALSE
