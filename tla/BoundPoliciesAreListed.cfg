\* A policy of each kind; one List of GetPolicies fails.
SPECIFICATION Spec
CONSTANTS
  s1 = s1
  s2 = s2
  cap = cap
  ap = ap
  ca1 = ca1
  ca2 = ca2
  ca3 = ca3
  ca4 = ca4
  None = None
  Servers = {s1}
  Specs <- PlainSpec
  Policies = {ap, cap}
  Owner <- BothOwned
  Namespaced = {ap}
  CAs = {ca1, ca2, ca3, ca4}
  MaxWrites = 1
  MaxFaults = 1
PROPERTY BoundPoliciesAreListed
\* The system is at rest once everything is reconciled and users have no more to do.
CHECK_DEADLOCK FALSE
