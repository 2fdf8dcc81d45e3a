\* Policy c of namespace a-b and policy b-c of namespace a; nothing fails.
SPECIFICATION Spec
CONSTANTS
  None = None
  Policies <- Neighbours
  Name <- NeighbourNames
  Namespace <- NeighbourNamespaces
  Servers = {"default"}
  DefaultServers = {"default"}
  LaggingWebhooks = {}
  MaxEdits = 0
  MaxFaults = 0
INVARIANT OwnNamespaceOnly
\* The system is at rest once everything is reconciled and users have no more to do.
CHECK_DEADLOCK FALSE
