\* A policy and its PolicyServer are deleted; nothing fails.
SPECIFICATION Spec
CONSTANTS
  s1 = s1
  s2 = s2
  cap = cap
  ap = ap
  ca1 = ca1
  ca2 = ca2
  ca3 = ca3
  ca4 = ca4
  None = None
  Servers = {s1}
  Specs <- PlainSpec
  Policies = {cap}
  Owner <- CapOwned
  Namespaced = {}
  CAs = {ca1, ca2, ca3, ca4}
  MaxWrites = 1
  MaxFaults = 0
INVARIANT WebhookNeverOutlivesServer
\* The system is at rest once everything is reconciled and users have no more to do.
CHECK_DEADLOCK FALSE
