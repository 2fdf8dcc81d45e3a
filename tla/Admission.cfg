\* An AdmissionPolicy is created, edited twice, before or after
\* it is deleted, with its finalizer or without; two faults, one of which
\* may be a restart with another default PolicyServer.
SPECIFICATION FairSpec
CONSTANTS
  None = None
  Policies <- OnePolicy
  Name <- OneName
  Namespace <- OneNamespace
  Servers = {"default", "other"}
  DefaultServers = {"", "default"}
  LaggingWebhooks = {"validating"}
  MaxEdits = 2
  MaxFaults = 2
INVARIANTS TypeOK PolicyDeletionIsUnderWay RestMeansRegistered ProgressInv
PROPERTIES EnforcementNeverWeakens FinalizerGoesLast NamedPolicyDeletionCompletes WebhooksSettle
\* The system is at rest once everything is reconciled and users have no more to do.
CHECK_DEADLOCK FALSE
