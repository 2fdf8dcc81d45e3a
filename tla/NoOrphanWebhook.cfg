\* spec.mutating may be toggled; the informers do not lag, nothing fails.
SPECIFICATION Spec
CONSTANTS
  None = None
  Policies <- OnePolicy
  Name <- OneName
  Namespace <- OneNamespace
  Servers = {"default"}
  DefaultServers = {"default"}
  LaggingWebhooks = {}
  MaxEdits = 1
  MaxFaults = 0
PROPERTY NoOrphanWebhook
\* The system is at rest once everything is reconciled and users have no more to do.
CHECK_DEADLOCK FALSE
