--------------------------- MODULE MCPolicyRollout ---------------------------
(* Instances of PolicyRollout for TLC. *)
EXTENDS PolicyRollout, TLC

CONSTANTS cap, ap, a, b, s1, s2

OnePolicy   == {cap}
OneAdmissionPolicy == {ap}
NoPolicies  == {}
OneSlot     == {s1}
TwoSlots    == {s1, s2}

\* Specs of a policy, in the order the user gives them.
OneSpec     == << a >>
EditedSpec  == << a, b >>
SameSpec    == << a, a >>

\* A controller that finds a PolicyServer already reconciled, with no policies:
\* a reachable state of Spec, for runs whose question is what comes after it.
RunningInit ==
    /\ policy = [p \in Policies |-> NoPolicy]
    /\ status = [p \in Policies |-> NewStatus]
    /\ webhook = [p \in Policies |-> None]
    /\ policyServer = TRUE
    /\ serverStatus = TRUE
    /\ configMap = << NoEntries >>
    /\ deployment = [version |-> 1, revision |-> 1]
    /\ replicaSets = {1}
    /\ pods = [k \in Slots |-> [version |-> 1, loaded |-> 1, ready |-> TRUE]]
    /\ policyCache = [p \in Policies |-> NoPolicy]
    /\ policyServerCache = TRUE
    /\ replicaSetCache = 1
    /\ podCache = ListedPods
    /\ webhookCache = [p \in Policies |-> None]
    /\ queue = {}
    /\ serverQueue = FALSE
    /\ worker = [p \in Policies |-> IdleWorker]
    /\ serverWorker = IdleServerWorker
    /\ faults = 0

\* A controller that starts before anything exists, with its faults behind it.
StartingInit ==
    /\ policy = [p \in Policies |-> NoPolicy]
    /\ status = [p \in Policies |-> NewStatus]
    /\ webhook = [p \in Policies |-> None]
    /\ policyServer = FALSE
    /\ serverStatus = FALSE
    /\ configMap = << >>
    /\ deployment = [version |-> 0, revision |-> 0]
    /\ replicaSets = {}
    /\ pods = [k \in Slots |-> Vacant]
    /\ policyCache = policy
    /\ policyServerCache = FALSE
    /\ replicaSetCache = 0
    /\ podCache = ListedPods
    /\ webhookCache = webhook
    /\ queue = {}
    /\ serverQueue = FALSE
    /\ worker = [p \in Policies |-> IdleWorker]
    /\ serverWorker = IdleServerWorker
    /\ faults = MaxFaults

\* Policies that came, and were edited, before their PolicyServer.
EarlyInit ==
    /\ policy = [p \in Policies |-> [phase |-> "live", gen |-> MaxGen]]
    /\ status = [p \in Policies |-> NewStatus]
    /\ webhook = [p \in Policies |-> None]
    /\ policyServer = FALSE
    /\ serverStatus = FALSE
    /\ configMap = << >>
    /\ deployment = [version |-> 0, revision |-> 0]
    /\ replicaSets = {}
    /\ pods = [k \in Slots |-> Vacant]
    /\ policyCache = policy
    /\ policyServerCache = FALSE
    /\ replicaSetCache = 0
    /\ podCache = ListedPods
    /\ webhookCache = webhook
    /\ queue = Policies
    /\ serverQueue = FALSE
    /\ worker = [p \in Policies |-> IdleWorker]
    /\ serverWorker = IdleServerWorker
    /\ faults = 0

\* A controller that finds every policy bound to the PolicyServer enforced with
\* its first spec: again a reachable state of Spec.
EnforcedPolicy == [p \in Policies |-> IF p \in Bound THEN [phase |-> "live", gen |-> 1] ELSE NoPolicy]
EnforcedRules  == [p \in Policies |-> IF p \in Bound THEN Rules[1] ELSE None]
EnforcedStatus == [p \in Policies |-> IF p \in Bound
                     THEN [policyStatus |-> "active", mode |-> Entry[1],
                           active |-> TRUE, reachable |-> TRUE, upToDate |-> TRUE]
                     ELSE NewStatus]
EnforcedEntries == [p \in Policies |-> IF p \in Bound THEN Entry[1] ELSE None]

EnforcedInit ==
    /\ policy = EnforcedPolicy
    /\ status = EnforcedStatus
    /\ webhook = EnforcedRules
    /\ policyServer = TRUE
    /\ serverStatus = TRUE
    /\ configMap = << EnforcedEntries >>
    /\ deployment = [version |-> 1, revision |-> 1]
    /\ replicaSets = {1}
    /\ pods = [k \in Slots |-> [version |-> 1, loaded |-> 1, ready |-> TRUE]]
    /\ policyCache = policy
    /\ policyServerCache = TRUE
    /\ replicaSetCache = 1
    /\ podCache = ListedPods
    /\ webhookCache = webhook
    /\ queue = {}
    /\ serverQueue = FALSE
    /\ worker = [p \in Policies |-> IdleWorker]
    /\ serverWorker = IdleServerWorker
    /\ faults = 0

EditSpec == (EarlyInit \/ EnforcedInit) /\ [][Next]_vars /\ Fairness
DeletionSpec == EnforcedInit /\ [][Next]_vars /\ Fairness
RolloutSpec == (StartingInit \/ RunningInit) /\ [][Next]_vars

SlotSymmetry == Permutations(Slots)
=============================================================================
