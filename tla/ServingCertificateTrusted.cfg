\* Two PolicyServers are created while the cache of the secrets lags.
SPECIFICATION Spec
CONSTANTS
  s1 = s1
  s2 = s2
  cap = cap
  ap = ap
  ca1 = ca1
  ca2 = ca2
  ca3 = ca3
  ca4 = ca4
  None = None
  Servers = {s1, s2}
  Specs <- PlainSpec
  Policies = {}
  Owner <- NoneOwned
  Namespaced = {}
  CAs = {ca1, ca2, ca3, ca4}
  MaxWrites = 1
  MaxFaults = 0
INVARIANT ServingCertificateTrusted
\* The system is at rest once everything is reconciled and users have no more to do.
CHECK_DEADLOCK FALSE
