------------------------- MODULE PolicyRolloutProofs -------------------------
(***************************************************************************)
(* Type correctness of PolicyRollout, and what the status of a policy says *)
(* about its webhook: a policy that is said to be active has one.  For any *)
(* number of policies, pods, specs, crashes and API errors.                *)
(***************************************************************************)
EXTENDS PolicyRollout, TLAPS

TypeInv == TypeOK /\ WorkersHoldPolicies /\ RevisionFollowsVersion

\* The empty cluster is of the right type.
LEMMA InitTypeInv == Init => TypeInv
<1> SUFFICES ASSUME Init PROVE TypeInv
  OBVIOUS
<1>1. configMap \in Seq(Configs) /\ Len(configMap) = 0
  BY DEF Init
<1>2. /\ deployment \in [version : Versions, revision : Versions]
      /\ replicaSets \in SUBSET (Versions \ {0})
      /\ pods \in [Slots -> PodType]
      /\ podCache \in [Slots -> ListedPodType]
      /\ replicaSetCache \in Versions
  BY <1>1 DEF Init, Versions, PodType, ListedPodType, Vacant, Unlisted
<1>3. /\ policy \in [Policies -> Objects]
      /\ policyCache \in [Policies -> Objects]
      /\ webhook \in [Policies -> AllRules \cup {None}]
      /\ webhookCache \in [Policies -> AllRules \cup {None}]
  BY DEF Init, Objects
<1>4. status \in [Policies -> Statuses]
  BY DEF Init, NewStatus, Statuses
<1>5. worker \in [Policies -> Workers] /\ WorkersHoldPolicies
  BY DEF Init, IdleWorker, Workers, Outcomes, Objects, WorkersHoldPolicies
<1>6. serverWorker \in [pc : {"idle", "configMap", "deployment", "status"}, desired : Configs]
  BY DEF Init, IdleServerWorker, NoEntries, Configs
<1>7. /\ policyServer \in BOOLEAN /\ serverStatus \in BOOLEAN /\ policyServerCache \in BOOLEAN
      /\ queue \in SUBSET Policies /\ serverQueue \in BOOLEAN
  BY DEF Init
<1>8. faults \in 0 .. MaxFaults
  <2>1. MaxFaults \in Nat
    BY ConstantsAssumption
  <2> QED
    BY <2>1 DEF Init
<1>9. RevisionFollowsVersion
  BY DEF Init, RevisionFollowsVersion
<1> QED
  BY <1>1, <1>2, <1>3, <1>4, <1>5, <1>6, <1>7, <1>8, <1>9 DEF TypeInv, TypeOK

\* The users' writes of one policy: it is another one afterwards, and a deletion is not
\* taken back.
WritesPolicy(p) ==
    /\ policy' \in [Policies -> Objects] /\ policy'[p] # policy[p] /\ policy[p].phase # "gone"
    /\ \A q \in Policies \ {p} : policy'[q] = policy[q]
    /\ policy'[p].phase # "absent" /\ policy[p].gen <= policy'[p].gen
    /\ policy[p].phase = "deleting" => policy'[p].phase \in {"deleting", "gone"}
    /\ UNCHANGED << status, webhook, policyServer, serverStatus, configMap, deployment,
                    replicaSets, pods, caches, queue, serverQueue, worker,
                    serverWorker, faults >>

LEMMA UsersWrite ==
  ASSUME TypeInv, NEW p \in Policies, WritePolicy(p) \/ DeletePolicy(p) \/ RemoveFinalizerByHand(p)
  PROVE  WritesPolicy(p)
<1>1. policy \in [Policies -> Objects] /\ policy[p] \in Objects
  BY DEF TypeInv, TypeOK
<1>2. CASE WritePolicy(p)
  <2> DEFINE new == [phase |-> IF policy[p].phase = "deleting" THEN "deleting" ELSE "live",
                     gen |-> policy[p].gen + 1]
  <2>1. policy[p].gen \in 0 .. MaxGen /\ policy[p].gen < MaxGen /\ policy[p].phase # "gone"
    BY <1>1, <1>2, ConstantsAssumption DEF WritePolicy, Objects, NoPolicy, Gens
  <2>2. new.gen \in Gens /\ new.gen > policy[p].gen
    BY <2>1, ConstantsAssumption DEF Gens
  <2>3. /\ new \in Objects /\ new # policy[p] /\ new.phase # "absent" /\ policy[p].gen <= new.gen
        /\ policy[p].phase = "deleting" => new.phase = "deleting"
    BY <2>1, <2>2 DEF Objects, Gens
  <2>4. policy' = [policy EXCEPT ![p] = new]
    BY <1>2 DEF WritePolicy
  <2> HIDE DEF new
  <2> QED
    BY <1>1, <1>2, <2>1, <2>3, <2>4 DEF WritePolicy, WritesPolicy
<1>3. ASSUME NEW phase \in {"deleting", "gone"}, policy[p].phase \in {"live", "deleting"},
             policy[p].phase # phase,
             policy' = [policy EXCEPT ![p].phase = phase],
             UNCHANGED << status, webhook, policyServer, serverStatus, configMap, deployment,
                          replicaSets, pods, caches, queue, serverQueue, worker,
                          serverWorker, faults >>
      PROVE  WritesPolicy(p)
  <2> DEFINE new == [policy[p] EXCEPT !.phase = phase]
  <2>1. policy[p].gen \in Gens /\ policy[p] \in [phase : {"live", "deleting", "gone"}, gen : Gens]
    BY <1>1, <1>3 DEF Objects, NoPolicy
  <2>2. new \in Objects /\ new.phase = phase /\ new # policy[p] /\ policy[p].gen <= new.gen
    BY <1>3, <2>1, ConstantsAssumption DEF Objects, Gens
  <2>3. policy' = [policy EXCEPT ![p] = new]
    BY <1>1, <1>3
  <2> HIDE DEF new
  <2> QED
    BY <1>1, <1>3, <2>2, <2>3 DEF WritesPolicy
<1>4. CASE DeletePolicy(p)
  BY <1>3, <1>4 DEF DeletePolicy
<1>5. CASE RemoveFinalizerByHand(p)
  BY <1>3, <1>5 DEF RemoveFinalizerByHand
<1> QED
  BY <1>2, <1>4, <1>5

\* What users create, edit and delete.
LEMMA UserType == ASSUME TypeInv, User PROVE TypeInv'
<1>1. CASE CreatePolicyServer
  BY <1>1 DEF CreatePolicyServer, TypeInv, TypeOK, WorkersHoldPolicies, RevisionFollowsVersion,
     Versions, caches
<1>2. ASSUME NEW p \in Policies, WritesPolicy(p) PROVE TypeInv'
  BY <1>2 DEF WritesPolicy, TypeInv, TypeOK, WorkersHoldPolicies, RevisionFollowsVersion,
     Versions, caches
<1> QED
  BY <1>1, <1>2, UsersWrite DEF User

\* A cache that catches up takes the type of what it caches.
LEMMA InformersType == ASSUME TypeInv, Informers PROVE TypeInv'
<1>1. Configured \subseteq Policies
  BY DEF Configured
<1>2. CASE SyncPolicyServer
  BY <1>1, <1>2 DEF SyncPolicyServer, findPoliciesForPolicyServer, TypeInv, TypeOK,
     WorkersHoldPolicies, RevisionFollowsVersion,
     Versions, cluster
<1>3. ASSUME NEW p \in Policies, SyncPolicy(p) PROVE TypeInv'
  BY <1>3 DEF SyncPolicy, TypeInv, TypeOK, WorkersHoldPolicies, RevisionFollowsVersion,
     Versions, cluster
<1>4. CASE SyncPods
  <2>1. ListedPods \in [Slots -> ListedPodType]
    BY DEF ListedPods, ListedPodType, PodType, TypeInv, TypeOK
  <2> QED
    BY <1>1, <1>4, <2>1 DEF SyncPods, findPoliciesForPod, TypeInv, TypeOK,
             WorkersHoldPolicies, RevisionFollowsVersion,
     Versions, cluster
<1>5. CASE SyncReplicaSets
  BY <1>5 DEF SyncReplicaSets, TypeInv, TypeOK, WorkersHoldPolicies, RevisionFollowsVersion,
     Versions, cluster
<1>6. ASSUME NEW p \in Policies, SyncWebhook(p) PROVE TypeInv'
  BY <1>6 DEF SyncWebhook, TypeInv, TypeOK, WorkersHoldPolicies, RevisionFollowsVersion,
     Versions, cluster
<1> QED
  BY <1>2, <1>3, <1>4, <1>5, <1>6 DEF Informers

\* Rollouts and pods.
LEMMA KubernetesType == ASSUME TypeInv, Kubernetes PROVE TypeInv'
<1>1. CASE RollOut
  BY <1>1 DEF RollOut, TypeInv, TypeOK, WorkersHoldPolicies, RevisionFollowsVersion,
     Versions, caches
<1>2. ASSUME NEW v \in replicaSets, ScaleDown(v) PROVE TypeInv'
  BY <1>2 DEF ScaleDown, TypeInv, TypeOK, WorkersHoldPolicies, RevisionFollowsVersion,
     Versions, caches
<1>3. ASSUME NEW k \in Slots, NEW v \in replicaSets, CreatePod(k, v) PROVE TypeInv'
  BY <1>3 DEF CreatePod, TypeInv, TypeOK, WorkersHoldPolicies, RevisionFollowsVersion,
     Versions, caches, PodType
<1>4. ASSUME NEW k \in Slots, StartPod(k) PROVE TypeInv'
  <2>1. Len(configMap) \in Nat /\ pods \in [Slots -> PodType]
    BY DEF TypeInv, TypeOK
  <2>2. pods' \in [Slots -> PodType]
    BY <1>4, <2>1 DEF StartPod, PodType
  <2> QED
    BY <1>4, <2>2 DEF StartPod, TypeInv, TypeOK, WorkersHoldPolicies, RevisionFollowsVersion,
     Versions, caches
<1>5. ASSUME NEW k \in Slots, ReplacePod(k) PROVE TypeInv'
  BY <1>5 DEF ReplacePod, TypeInv, TypeOK, WorkersHoldPolicies, RevisionFollowsVersion,
     Versions, caches, PodType, Vacant
<1>6. ASSUME NEW k \in Slots, PodBecomesReady(k) PROVE TypeInv'
  <2> DEFINE pod == [pods[k] EXCEPT !.ready = TRUE]
  <2>1. pods \in [Slots -> PodType] /\ pods' = [pods EXCEPT ![k] = pod]
    BY <1>6 DEF PodBecomesReady, TypeInv, TypeOK
  <2>2. pod \in PodType
    BY <2>1 DEF PodType
  <2> HIDE DEF pod
  <2>3. pods' \in [Slots -> PodType]
    BY <2>1, <2>2
  <2> QED
    BY <1>6, <2>3 DEF PodBecomesReady, TypeInv, TypeOK, WorkersHoldPolicies,
       RevisionFollowsVersion, Versions, caches
<1> QED
  BY <1>1, <1>2, <1>3, <1>4, <1>5, <1>6 DEF Kubernetes

\* GetPolicies (reconciler.go:259) returns the policies of a ConfigMap.
LEMMA GetPoliciesType ==
  ASSUME TypeInv PROVE GetPolicies \in Configs
  BY DEF TypeInv, TypeOK, GetPolicies, Configs, Entries, Objects, NoPolicy

\* The steps of PolicyServerReconciler.
LEMMA PolicyServerType == ASSUME TypeInv, ReconcilePolicyServer PROVE TypeInv'
<1>1. CASE StartPolicyServerReconcile
  <2>1. serverWorker' \in [pc : {"idle", "configMap", "deployment", "status"}, desired : Configs]
    BY <1>1, GetPoliciesType DEF StartPolicyServerReconcile, TypeInv, TypeOK
  <2>2. faults' \in 0 .. MaxFaults
    BY <1>1, ConstantsAssumption DEF StartPolicyServerReconcile, TypeInv, TypeOK
  <2>3. UNCHANGED << cluster, caches, queue, worker >> /\ serverQueue' = FALSE
    BY <1>1 DEF StartPolicyServerReconcile
  <2> QED
    BY <2>1, <2>2, <2>3 DEF TypeInv, TypeOK, WorkersHoldPolicies, RevisionFollowsVersion,
       Versions, cluster, caches
<1>2. CASE ReconcilePolicyServerConfigMap
  <2>1. serverWorker' \in [pc : {"idle", "configMap", "deployment", "status"}, desired : Configs]
    BY <1>2 DEF ReconcilePolicyServerConfigMap, IdleServerWorker, NoEntries, Configs
  <2>2. configMap' \in Seq(Configs) /\ Len(configMap) <= Len(configMap')
    BY <1>2 DEF ReconcilePolicyServerConfigMap, TypeInv, TypeOK
  <2>3. UNCHANGED << policy, status, webhook, policyServer, serverStatus, deployment,
                     replicaSets, pods, caches, queue, serverQueue, worker, faults >>
    BY <1>2 DEF ReconcilePolicyServerConfigMap
  <2>4. Versions \subseteq Versions'
    BY <2>2 DEF Versions, TypeInv, TypeOK
  <2> QED
    BY <2>1, <2>2, <2>3, <2>4 DEF TypeInv, TypeOK, WorkersHoldPolicies,
       RevisionFollowsVersion, caches
<1>3. CASE ReconcilePolicyServerDeployment
  <2>1. Len(configMap) \in Versions /\ deployment.revision <= Len(configMap)
    BY DEF TypeInv, TypeOK, Versions
  <2>2. deployment' \in [version : Versions, revision : Versions] /\ RevisionFollowsVersion'
    BY <1>3, <2>1
    DEF ReconcilePolicyServerDeployment, policyServerConfigMapVersion, RevisionFollowsVersion,
        TypeInv, TypeOK
  <2>3. serverWorker' \in [pc : {"idle", "configMap", "deployment", "status"}, desired : Configs]
    BY <1>3 DEF ReconcilePolicyServerDeployment, TypeInv, TypeOK
  <2>4. UNCHANGED << policy, status, webhook, policyServer, serverStatus, configMap,
                     replicaSets, pods, caches, queue, serverQueue, worker, faults >>
    BY <1>3 DEF ReconcilePolicyServerDeployment
  <2> QED
    BY <2>2, <2>3, <2>4 DEF TypeInv, TypeOK, WorkersHoldPolicies, Versions, caches
<1>4. CASE UpdatePolicyServerStatus
  <2>1. serverWorker' \in [pc : {"idle", "configMap", "deployment", "status"}, desired : Configs]
    BY <1>4 DEF UpdatePolicyServerStatus, IdleServerWorker, NoEntries, Configs
  <2>2. queue' \in SUBSET Policies
    BY <1>4 DEF UpdatePolicyServerStatus, findPoliciesForPolicyServer, Configured, TypeInv, TypeOK
  <2> QED
    BY <1>4, <2>1, <2>2 DEF UpdatePolicyServerStatus, TypeInv, TypeOK, WorkersHoldPolicies,
       RevisionFollowsVersion, Versions, caches
<1> QED
  BY <1>1, <1>2, <1>3, <1>4 DEF ReconcilePolicyServer

\* The reconcile of p moves on with what it holds of p.
LEMMA WorkerMoves ==
  ASSUME TypeInv, NEW p \in Policies, NEW w \in Workers, Becomes(p, w),
         w.pc # "idle" => w.seen.phase \in {"live", "deleting"} /\ policy'[p].phase # "absent",
         \A q \in Policies \ {p} : policy'[q] = policy[q]
  PROVE  worker' \in [Policies -> Workers] /\ WorkersHoldPolicies'
  BY DEF TypeInv, TypeOK, WorkersHoldPolicies, Becomes

\* A reconcile that has ended is a worker.
LEMMA IdleWorkerType == IdleWorker \in Workers /\ IdleWorker.pc = "idle"
  BY DEF IdleWorker, Workers, Outcomes, Objects

\* The reconcile of p goes to its end, with whatever outcome.
LEMMA ConcludeMoves ==
  ASSUME TypeInv, NEW p \in Policies, worker[p].pc # "idle", NEW o \in Outcomes,
         Conclude(p, o), UNCHANGED policy
  PROVE  worker' \in [Policies -> Workers] /\ WorkersHoldPolicies'
<1> DEFINE w == [worker[p] EXCEPT !.pc = "inspect", !.outcome = o, !.revision = 0, !.version = 0]
<1>1. worker[p] \in Workers
  BY DEF TypeInv, TypeOK
<1>2. w \in Workers /\ w.seen = worker[p].seen
  BY <1>1 DEF Workers
<1>3. w.seen.phase \in {"live", "deleting"} /\ policy[p].phase # "absent"
  BY <1>2 DEF TypeInv, WorkersHoldPolicies
<1>4. Becomes(p, w)
  BY DEF Conclude
<1> HIDE DEF w
<1> QED
  BY <1>2, <1>3, <1>4, WorkerMoves

\* What a reconcile writes to the webhook is some rules, or what it was.
LEMMA ReconciledWebhookType ==
  ASSUME TypeInv, NEW p \in Policies, worker[p].pc # "idle"
  PROVE  ReconciledWebhook(p) \in AllRules \cup {None}
<1>1. worker[p].seen \in Objects /\ worker[p].seen.phase \in {"live", "deleting"}
  BY DEF TypeInv, TypeOK, WorkersHoldPolicies, Workers
<1>2. worker[p].seen.gen \in Gens
  BY <1>1 DEF Objects, NoPolicy
<1> QED
  BY <1>2 DEF ReconciledWebhook, AllRules, TypeInv, TypeOK

\* The last update goes through: the policy was as it had been read, and is gone.
RemovesPolicy(p) ==
    /\ IsCurrent(p) /\ UNCHANGED queue
    /\ policy' \in [Policies -> Objects]
    /\ policy'[p].phase = "gone" /\ policy'[p].gen = policy[p].gen
    /\ \A q \in Policies \ {p} : policy'[q] = policy[q]

LEMMA Removes ==
  ASSUME TypeInv, NEW p \in Policies, RemoveFinalizer(p)
  PROVE  RemovesPolicy(p) \/ (~IsCurrent(p) /\ UNCHANGED policy /\ queue' = queue \cup {p})
<1>1. CASE ~IsCurrent(p)
  BY <1>1 DEF RemoveFinalizer
<1>2. CASE IsCurrent(p)
  <2>1. policy[p] \in Objects /\ policy[p].phase \in {"live", "deleting"}
    BY <1>2 DEF RemoveFinalizer, IsCurrent, TypeInv, TypeOK, WorkersHoldPolicies
  <2>2. /\ [policy[p] EXCEPT !.phase = "gone"] \in Objects
        /\ [policy[p] EXCEPT !.phase = "gone"].phase = "gone"
        /\ [policy[p] EXCEPT !.phase = "gone"].gen = policy[p].gen
    BY <2>1 DEF Objects, NoPolicy
  <2>3. policy' = [policy EXCEPT ![p] = [policy[p] EXCEPT !.phase = "gone"]] /\ UNCHANGED queue
    BY <1>2 DEF RemoveFinalizer, TypeInv, TypeOK
  <2> QED
    BY <1>2, <2>2, <2>3 DEF RemovesPolicy, TypeInv, TypeOK
<1> QED
  BY <1>1, <1>2

\* The steps of startReconciling (policy_utils.go:69).
LEMMA PolicyType == ASSUME TypeInv, NEW p \in Policies, ReconcilePolicy(p) PROVE TypeInv'
<1>1. worker[p] \in Workers
  BY DEF TypeInv, TypeOK
<1>2. ASSUME NEW w \in Workers, w.seen = worker[p].seen, worker[p].pc # "idle",
             Becomes(p, w), UNCHANGED policy
      PROVE  worker' \in [Policies -> Workers] /\ WorkersHoldPolicies'
  <2>1. w.seen.phase \in {"live", "deleting"} /\ policy[p].phase # "absent"
    BY <1>2 DEF TypeInv, WorkersHoldPolicies
  <2> QED
    BY <1>2, <2>1, WorkerMoves
<1>3. CASE StartReconciling(p)
  <2>1. CASE policy[p].phase \in {"absent", "gone"}
    BY <1>3, <2>1 DEF StartReconciling, TypeInv, TypeOK, WorkersHoldPolicies, RevisionFollowsVersion,
       Versions, cluster, caches
  <2>2. CASE policy[p].phase \notin {"absent", "gone"}
    <3> DEFINE first == FirstStep(p)
               w == [IdleWorker EXCEPT !.seen = policy[p], !.pc = first.pc,
                                       !.outcome = first.outcome]
    <3>1. policy[p] \in Objects /\ policy[p].phase \in {"live", "deleting"}
      BY <2>2 DEF TypeInv, TypeOK, Objects, NoPolicy
    <3>2. first \in [pc : {"deleteWebhook", "inspect", "deployment"},
                     outcome : {"none", "unscheduled", "scheduled", "pending"}]
      BY DEF FirstStep
    <3>3. Becomes(p, w) /\ UNCHANGED policy
      BY <1>3, <2>2 DEF StartReconciling, cluster
    <3> HIDE DEF first
    <3>4. w \in Workers /\ w.seen = policy[p]
      BY <3>1, <3>2 DEF IdleWorker, Workers, Outcomes
    <3> HIDE DEF w
    <3>5. worker' \in [Policies -> Workers] /\ WorkersHoldPolicies'
      BY <3>1, <3>3, <3>4, WorkerMoves
    <3> QED
      BY <1>3, <3>5 DEF StartReconciling, TypeInv, TypeOK, RevisionFollowsVersion,
         Versions, cluster, caches
  <2> QED
    BY <2>1, <2>2
<1>4. CASE GetDeployment(p)
  <2> DEFINE w == [worker[p] EXCEPT !.pc = "configMap", !.revision = deployment.revision]
  <2>0. deployment.revision \in Nat
    <3>1. Len(configMap) \in Nat /\ deployment.revision \in Versions
      BY DEF TypeInv, TypeOK
    <3> QED
      BY <3>1 DEF Versions
  <2>1. w \in Workers /\ w.seen = worker[p].seen
    BY <1>1, <2>0 DEF Workers
  <2>2. worker[p].pc # "idle" /\ UNCHANGED policy /\ (Becomes(p, w) \/ Conclude(p, "pending"))
    BY <1>4 DEF GetDeployment, cluster
  <2> HIDE DEF w
  <2>3. worker' \in [Policies -> Workers] /\ WorkersHoldPolicies'
    BY <1>2, <2>1, <2>2, ConcludeMoves DEF Outcomes
  <2> QED
    BY <1>4, <2>3 DEF GetDeployment, TypeInv, TypeOK, RevisionFollowsVersion, Versions, cluster, caches
<1>5. CASE GetConfigMap(p)
  <2> DEFINE w == [worker[p] EXCEPT !.pc = "pods", !.version = Len(configMap)]
  <2>1. Len(configMap) \in Nat
    BY DEF TypeInv, TypeOK
  <2>2. w \in Workers /\ w.seen = worker[p].seen
    BY <1>1, <2>1 DEF Workers
  <2>3. worker[p].pc # "idle" /\ UNCHANGED policy /\ (Becomes(p, w) \/ Conclude(p, "unreachable"))
    BY <1>5 DEF GetConfigMap, cluster
  <2> HIDE DEF w
  <2>4. worker' \in [Policies -> Workers] /\ WorkersHoldPolicies'
    BY <1>2, <2>2, <2>3, ConcludeMoves DEF Outcomes
  <2> QED
    BY <1>5, <2>4 DEF GetConfigMap, TypeInv, TypeOK, RevisionFollowsVersion, Versions, cluster, caches
<1>6. CASE ListReplicaSetsAndPods(p)
  <2> DEFINE w == [worker[p] EXCEPT !.pc = "webhook", !.revision = 0, !.version = 0]
  <2>1. w \in Workers /\ w.seen = worker[p].seen
    BY <1>1 DEF Workers
  <2>2. worker[p].pc # "idle" /\ UNCHANGED policy /\ (Becomes(p, w) \/ Conclude(p, "unreachable"))
    BY <1>6 DEF ListReplicaSetsAndPods, cluster
  <2> HIDE DEF w
  <2>3. worker' \in [Policies -> Workers] /\ WorkersHoldPolicies'
    BY <1>2, <2>1, <2>2, ConcludeMoves DEF Outcomes
  <2> QED
    BY <1>6, <2>3 DEF ListReplicaSetsAndPods, TypeInv, TypeOK, RevisionFollowsVersion, Versions,
       cluster, caches
<1>7. CASE ReconcileWebhookConfiguration(p)
  <2>1. worker[p].pc # "idle" /\ UNCHANGED policy
        /\ (Conclude(p, "registered") \/ Conclude(p, "notRegistered"))
    BY <1>7 DEF ReconcileWebhookConfiguration
  <2>2. worker' \in [Policies -> Workers] /\ WorkersHoldPolicies'
    BY <2>1, ConcludeMoves DEF Outcomes
  <2>3. webhook' \in [Policies -> AllRules \cup {None}]
    BY <1>7, <2>1, ReconciledWebhookType DEF ReconcileWebhookConfiguration, TypeInv, TypeOK
  <2> QED
    BY <1>7, <2>2, <2>3 DEF ReconcileWebhookConfiguration, TypeInv, TypeOK, RevisionFollowsVersion,
       Versions, caches
<1>8. CASE SetPolicyStatus(p)
  <2> DEFINE u == IF p \in Bound /\ deployment.version # 0
                  THEN deployment.version = Len(configMap) ELSE status[p].upToDate
             m == IF p \in Bound /\ deployment.version # 0
                  THEN configMap[Len(configMap)][p] ELSE status[p].mode
             w == [worker[p] EXCEPT !.pc = "update", !.upToDate = u, !.mode = m]
  <2>1. deployment.version # 0 => configMap[Len(configMap)] \in Configs
    BY DEF TypeInv, TypeOK, Versions
  <2>2. status[p].upToDate \in BOOLEAN /\ status[p].mode \in Entries \cup {None}
    BY DEF TypeInv, TypeOK, Statuses
  <2>3. m \in Entries \cup {None}
    BY <2>1, <2>2 DEF Configs
  <2>4. u \in BOOLEAN
    BY <2>2
  <2>5. worker[p].pc # "idle" /\ UNCHANGED policy /\ Becomes(p, w)
    BY <1>8 DEF SetPolicyStatus, cluster
  <2> HIDE DEF u, m
  <2>6. w \in Workers /\ w.seen = worker[p].seen
    BY <1>1, <2>3, <2>4 DEF Workers
  <2> HIDE DEF w
  <2>7. worker' \in [Policies -> Workers] /\ WorkersHoldPolicies'
    BY <1>2, <2>5, <2>6
  <2> QED
    BY <1>8, <2>7 DEF SetPolicyStatus, TypeInv, TypeOK, RevisionFollowsVersion, Versions, cluster, caches
<1>9. CASE UpdateStatus(p)
  <2>1. Becomes(p, IdleWorker) /\ UNCHANGED policy
    BY <1>9 DEF UpdateStatus
  <2>2. worker' \in [Policies -> Workers] /\ WorkersHoldPolicies'
    BY <2>1, IdleWorkerType, WorkerMoves
  <2>3. ReconciledStatus(p) \in Statuses
    BY <1>1 DEF ReconciledStatus, PolicyStatus, PolicyUniquelyReachable, PolicyActive, Statuses,
       Workers, TypeInv, TypeOK
  <2>4. status' \in [Policies -> Statuses]
    BY <1>9, <2>3 DEF UpdateStatus, TypeInv, TypeOK
  <2>5. queue' \in SUBSET Policies
    BY <1>9 DEF UpdateStatus, TypeInv, TypeOK
  <2>6. serverQueue' \in BOOLEAN
    BY <1>9 DEF UpdateStatus, TypeInv, TypeOK
  <2> QED
    BY <1>9, <2>2, <2>4, <2>5, <2>6 DEF UpdateStatus, TypeInv, TypeOK, RevisionFollowsVersion,
       Versions, caches
<1>10. CASE DeleteWebhook(p)
  <2> DEFINE w == [worker[p] EXCEPT !.pc = "removeFinalizer"]
  <2>1. w \in Workers /\ w.seen = worker[p].seen
    BY <1>1 DEF Workers
  <2>2. worker[p].pc # "idle" /\ UNCHANGED policy /\ Becomes(p, w)
    BY <1>10 DEF DeleteWebhook
  <2> HIDE DEF w
  <2>3. worker' \in [Policies -> Workers] /\ WorkersHoldPolicies'
    BY <1>2, <2>1, <2>2
  <2>4. webhook' \in [Policies -> AllRules \cup {None}]
    BY <1>10 DEF DeleteWebhook, DeletedWebhook, TypeInv, TypeOK
  <2> QED
    BY <1>10, <2>3, <2>4 DEF DeleteWebhook, TypeInv, TypeOK, RevisionFollowsVersion, Versions, caches
<1>11. CASE RemoveFinalizer(p)
  <2>1. RemovesPolicy(p) \/ (UNCHANGED policy /\ queue' = queue \cup {p})
    BY <1>11, Removes
  <2>2. policy' \in [Policies -> Objects] /\ \A q \in Policies \ {p} : policy'[q] = policy[q]
    BY <2>1 DEF RemovesPolicy, TypeInv, TypeOK
  <2>3. queue' \in SUBSET Policies
    BY <2>1 DEF RemovesPolicy, TypeInv, TypeOK
  <2>4. worker' \in [Policies -> Workers] /\ WorkersHoldPolicies'
    BY <1>11, <2>2, IdleWorkerType, WorkerMoves DEF RemoveFinalizer
  <2> QED
    BY <1>11, <2>2, <2>3, <2>4 DEF RemoveFinalizer, TypeInv, TypeOK, RevisionFollowsVersion,
       Versions, caches
<1> QED
  BY <1>3, <1>4, <1>5, <1>6, <1>7, <1>8, <1>9, <1>10, <1>11 DEF ReconcilePolicy

\* Errors, evictions and restarts.
LEMMA FaultsType == ASSUME TypeInv, Faults PROVE TypeInv'
<1>1. faults < MaxFaults /\ faults' = faults + 1 => faults' \in 0 .. MaxFaults
  BY ConstantsAssumption DEF TypeInv, TypeOK
<1>2. CASE Crash
  <2>1. ListedPods \in [Slots -> ListedPodType]
    BY DEF ListedPods, ListedPodType, PodType, TypeInv, TypeOK
  <2>2. worker' \in [Policies -> Workers] /\ WorkersHoldPolicies'
    BY <1>2 DEF Crash, IdleWorker, Workers, Outcomes, Objects, WorkersHoldPolicies
  <2>3. serverWorker' \in [pc : {"idle", "configMap", "deployment", "status"}, desired : Configs]
    BY <1>2 DEF Crash, IdleServerWorker, NoEntries, Configs
  <2>4. queue' \in SUBSET Policies
    BY <1>2 DEF Crash
  <2> QED
    BY <1>1, <1>2, <2>1, <2>2, <2>3, <2>4
    DEF Crash, TypeInv, TypeOK, RevisionFollowsVersion, Versions, cluster
<1>3. CASE ServerApiError
  <2>1. serverWorker' \in [pc : {"idle", "configMap", "deployment", "status"}, desired : Configs]
    BY <1>3 DEF ServerApiError, IdleServerWorker, NoEntries, Configs
  <2>2. queue' \in SUBSET Policies
    BY <1>3 DEF ServerApiError, findPoliciesForPolicyServer, Configured, TypeInv, TypeOK
  <2>3. serverStatus' \in BOOLEAN
    BY <1>3 DEF ServerApiError, TypeInv, TypeOK
  <2> QED
    BY <1>1, <1>3, <2>1, <2>2, <2>3
    DEF ServerApiError, TypeInv, TypeOK, WorkersHoldPolicies, RevisionFollowsVersion, Versions, caches
<1>4. ASSUME NEW k \in Slots, EvictPod(k) PROVE TypeInv'
  <2>1. pods' \in [Slots -> PodType]
    BY <1>4 DEF EvictPod, PodType, Vacant, TypeInv, TypeOK
  <2> QED
    BY <1>1, <1>4, <2>1
    DEF EvictPod, TypeInv, TypeOK, WorkersHoldPolicies, RevisionFollowsVersion, Versions, caches
<1>5. ASSUME NEW p \in Policies, PolicyApiError(p) PROVE TypeInv'
  <2> DEFINE w == [worker[p] EXCEPT !.pc = "update", !.upToDate = status[p].upToDate,
                                    !.mode = status[p].mode]
  <2>0. worker[p] \in Workers /\ status[p] \in Statuses
    BY DEF TypeInv, TypeOK
  <2>1. w \in Workers /\ w.seen = worker[p].seen
    BY <2>0 DEF Workers, Statuses
  <2>5. /\ worker[p].pc # "idle" /\ UNCHANGED policy
        /\ \/ \E o \in Outcomes : Conclude(p, o)
           \/ Becomes(p, w)
           \/ Becomes(p, IdleWorker)
    BY <1>5 DEF PolicyApiError, Outcomes
  <2> HIDE DEF w
  <2>6. worker[p].seen.phase \in {"live", "deleting"} /\ policy[p].phase # "absent"
    BY <2>5 DEF TypeInv, WorkersHoldPolicies
  <2>2. worker' \in [Policies -> Workers] /\ WorkersHoldPolicies'
    BY <2>1, <2>5, <2>6, ConcludeMoves, WorkerMoves, IdleWorkerType
  <2>3. webhook' \in [Policies -> AllRules \cup {None}]
    BY <1>5, ReconciledWebhookType DEF PolicyApiError, TypeInv, TypeOK
  <2>4. queue' \in SUBSET Policies
    BY <1>5 DEF PolicyApiError, TypeInv, TypeOK
  <2> QED
    BY <1>1, <1>5, <2>2, <2>3, <2>4
    DEF PolicyApiError, TypeInv, TypeOK, RevisionFollowsVersion, Versions, caches
<1> QED
  BY <1>2, <1>3, <1>4, <1>5 DEF Faults

\* Nothing changes.
LEMMA StutterType == ASSUME TypeInv, UNCHANGED vars PROVE TypeInv'
  BY DEF vars, TypeInv, TypeOK, WorkersHoldPolicies, RevisionFollowsVersion, Versions

\* TypeInv is inductive.
LEMMA NextType == ASSUME TypeInv, [Next]_vars PROVE TypeInv'
  BY UserType, InformersType, KubernetesType, PolicyServerType, PolicyType, FaultsType,
     StutterType DEF Next

\* Every variable keeps its type, whatever the number of policies, slots, specs
\* and faults.
THEOREM TypeCorrect == Spec => []TypeOK
<1>1. Init => TypeInv
  BY InitTypeInv
<1>2. TypeInv /\ [Next]_vars => TypeInv'
  BY NextType
<1>3. TypeInv => TypeOK
  BY DEF TypeInv
<1> QED
  BY <1>1, <1>2, <1>3, PTL DEF Spec

-----------------------------------------------------------------------------
(* Status and webhook.                                                     *)

Followed == WorkersFollowPhase /\ OutcomesHold

\* A policy leaves "absent" and "live" for good.
PolicyAges ==
    \A p \in Policies : /\ Retained(p)' => Retained(p)
                        /\ policy'[p].phase = "absent" => policy[p].phase = "absent"

\* A step that leaves the policies alone lets them age.
LEMMA AgesFrame == ASSUME UNCHANGED policy PROVE PolicyAges
  BY DEF PolicyAges, Retained

\* A step that leaves reconciles, webhooks and statuses alone keeps Followed.
LEMMA FollowedFrame ==
  ASSUME Followed, PolicyAges, UNCHANGED << worker, webhook, status >>,
         \A p \in Policies : policy[p].phase \in {"deleting", "gone"} =>
                                policy'[p].phase \in {"deleting", "gone"}
  PROVE  Followed'
  BY DEF Followed, WorkersFollowPhase, OutcomesHold, PolicyAges

\* The reconcile of p moves on.
LEMMA FollowedMoves ==
  ASSUME TypeInv, Followed, NEW p \in Policies, NEW w, Becomes(p, w), PolicyAges,
         \A q \in Policies \ {p} :
            webhook'[q] = webhook[q] /\ status'[q] = status[q] /\ policy'[q] = policy[q],
         IF w.pc \in {"deleteWebhook", "removeFinalizer"}
         THEN policy'[p].phase \in {"deleting", "gone"} /\ w.outcome = "none"
         ELSE w.pc # "idle" => w.seen.phase = "live",
         w.outcome = "registered" => webhook'[p] # None,
         status'[p].active /\ Retained(p)' => webhook'[p] # None
  PROVE  Followed'
<1>1. worker'[p] = w /\ \A q \in Policies \ {p} : worker'[q] = worker[q]
  BY DEF Becomes, TypeInv, TypeOK
<1>2. WorkersFollowPhase'
  BY <1>1 DEF Followed, WorkersFollowPhase
<1>3. OutcomesHold'
  BY <1>1 DEF Followed, OutcomesHold, PolicyAges
<1> QED
  BY <1>2, <1>3 DEF Followed

\* A reconcile of a live policy goes to its end.
LEMMA FollowedConclude ==
  ASSUME TypeInv, Followed, NEW p \in Policies,
         worker[p].pc \in {"deployment", "configMap", "pods", "webhook"},
         NEW o \in Outcomes, Conclude(p, o), UNCHANGED << policy, status >>,
         \A q \in Policies \ {p} : webhook'[q] = webhook[q],
         webhook[p] # None \/ o = "registered" => webhook'[p] # None
  PROVE  Followed'
<1> DEFINE w == [worker[p] EXCEPT !.pc = "inspect", !.outcome = o, !.revision = 0, !.version = 0]
<1>1. worker[p] \in Workers
  BY DEF TypeInv, TypeOK
<1>2. w.pc = "inspect" /\ w.outcome = o /\ w.seen = worker[p].seen
  BY <1>1 DEF Workers
<1>3. w.seen.phase = "live"
  BY <1>2 DEF Followed, WorkersFollowPhase
<1>4. Becomes(p, w)
  BY DEF Conclude
<1>5. status'[p].active /\ Retained(p)' => webhook'[p] # None
  BY DEF Followed, OutcomesHold, Retained
<1> HIDE DEF w
<1> QED
  BY <1>2, <1>3, <1>4, <1>5, AgesFrame, FollowedMoves

\* What a reconcile of a live policy writes is never empty.
LEMMA ReconciledWebhookExists ==
  ASSUME TypeInv, NEW p \in Policies, worker[p].pc # "idle"
  PROVE  ReconciledWebhook(p) # None
<1>1. worker[p].seen \in Objects /\ worker[p].seen.phase \in {"live", "deleting"}
  BY DEF TypeInv, TypeOK, WorkersHoldPolicies, Workers
<1>2. worker[p].seen.gen \in Gens
  BY <1>1 DEF Objects, NoPolicy
<1> QED
  BY <1>2, ConstantsAssumption DEF ReconciledWebhook

\* What is written of a policy makes it older; so does its removal.
LEMMA WriteAges == ASSUME TypeInv, NEW q \in Policies, WritesPolicy(q) PROVE PolicyAges
<1>1. /\ policy'[q].phase # "absent"
      /\ policy[q].phase \in {"deleting", "gone"} => policy'[q].phase \in {"deleting", "gone"}
      /\ \A p \in Policies \ {q} : policy'[p] = policy[p]
  BY DEF WritesPolicy
<1>2. policy[q].phase \in {"absent", "live", "deleting", "gone"}
  BY DEF TypeInv, TypeOK, Objects, NoPolicy
<1> QED
  BY <1>1, <1>2 DEF PolicyAges, Retained

LEMMA RemovalAges == ASSUME TypeInv, NEW q \in Policies, RemoveFinalizer(q) PROVE PolicyAges
<1>1. UNCHANGED policy \/ RemovesPolicy(q)
  BY Removes
<1>2. CASE RemovesPolicy(q)
  BY <1>2 DEF RemovesPolicy, PolicyAges, Retained
<1> QED
  BY <1>1, <1>2, AgesFrame

\* Users may delete a policy, never bring one back.
LEMMA UserFollowed == ASSUME TypeInv, Followed, User PROVE Followed'
<1> DEFINE Goal == /\ PolicyAges
                   /\ \A p \in Policies : policy[p].phase \in {"deleting", "gone"} =>
                                             policy'[p].phase \in {"deleting", "gone"}
                   /\ UNCHANGED << worker, webhook, status >>
<1>1. ASSUME CreatePolicyServer PROVE Goal
  BY <1>1, AgesFrame DEF CreatePolicyServer
<1>2. ASSUME NEW q \in Policies, WritesPolicy(q) PROVE Goal
  <2>1. PolicyAges
    BY <1>2, WriteAges
  <2> QED
    BY <1>2, <2>1 DEF WritesPolicy
<1>3. Goal
  BY <1>1, <1>2, UsersWrite DEF User
<1> QED
  BY <1>3, FollowedFrame

\* Informers, Kubernetes and the PolicyServer reconciler touch no status.
LEMMA OthersFollowed ==
  ASSUME Followed, Informers \/ Kubernetes \/ ReconcilePolicyServer \/ UNCHANGED vars
  PROVE  Followed'
<1>1. UNCHANGED << policy, worker, webhook, status >>
  <2>1. CASE Informers
    BY <2>1 DEF Informers, SyncPolicyServer, SyncPods, SyncReplicaSets, SyncPolicy, SyncWebhook,
       cluster
  <2>2. CASE Kubernetes
    BY <2>2 DEF Kubernetes, RollOut, ScaleDown, CreatePod, StartPod, PodBecomesReady, ReplacePod
  <2>3. CASE ReconcilePolicyServer
    BY <2>3 DEF ReconcilePolicyServer, StartPolicyServerReconcile, ReconcilePolicyServerConfigMap,
       ReconcilePolicyServerDeployment, UpdatePolicyServerStatus, cluster
  <2> QED
    BY <2>1, <2>2, <2>3 DEF vars
<1> QED
  BY <1>1, AgesFrame, FollowedFrame

\* The steps of a policy reconcile: the webhook is there before the status
\* says so (policy_utils.go:145-154), and goes only with a deletion.
LEMMA PolicyFollowed ==
  ASSUME TypeInv, Followed, NEW p \in Policies, ReconcilePolicy(p) PROVE Followed'
<1>1. worker[p] \in Workers /\ IdleWorker.pc = "idle" /\ IdleWorker.outcome = "none"
  BY DEF TypeInv, TypeOK, IdleWorker
<1>2. status[p].active /\ Retained(p) => webhook[p] # None
  BY DEF Followed, OutcomesHold
<1>3. CASE StartReconciling(p)
  <2> DEFINE first == FirstStep(p)
             w == [IdleWorker EXCEPT !.seen = policy[p], !.pc = first.pc,
                                     !.outcome = first.outcome]
  <2>1. CASE UNCHANGED worker
    BY <1>3, <2>1, AgesFrame, FollowedFrame DEF StartReconciling, cluster
  <2>2. CASE policy[p].phase \notin {"absent", "gone"} /\ Becomes(p, w)
    <3>1. policy[p].phase \in {"live", "deleting"}
      BY <2>2 DEF TypeInv, TypeOK, Objects, NoPolicy
    <3>2. CASE policy[p].phase = "deleting"
      <4>1. first.pc = "deleteWebhook" /\ first.outcome = "none"
        BY <3>2 DEF FirstStep
      <4> HIDE DEF first
      <4>2. w.pc = first.pc /\ w.outcome = first.outcome
        BY DEF IdleWorker
      <4> HIDE DEF w
      <4> QED
        BY <1>2, <1>3, <2>2, <3>2, <4>1, <4>2, AgesFrame, FollowedMoves
        DEF Retained, StartReconciling, cluster
    <3>3. CASE policy[p].phase = "live"
      <4>1. /\ first.pc \in {"inspect", "deployment"}
            /\ first.outcome \in {"unscheduled", "scheduled", "pending"}
        BY <3>3 DEF FirstStep
      <4> HIDE DEF first
      <4>2. w.pc = first.pc /\ w.outcome = first.outcome /\ w.seen = policy[p]
        BY DEF IdleWorker
      <4> HIDE DEF w
      <4> QED
        BY <1>2, <1>3, <2>2, <3>3, <4>1, <4>2, AgesFrame, FollowedMoves
        DEF Retained, StartReconciling, cluster
    <3> QED
      BY <3>1, <3>2, <3>3
  <2> QED
    BY <1>3, <2>1, <2>2 DEF StartReconciling
<1>4. CASE GetDeployment(p) \/ GetConfigMap(p) \/ ListReplicaSetsAndPods(p)
  <2> DEFINE d == [worker[p] EXCEPT !.pc = "configMap", !.revision = deployment.revision]
             c == [worker[p] EXCEPT !.pc = "pods", !.version = Len(configMap)]
             l == [worker[p] EXCEPT !.pc = "webhook", !.revision = 0, !.version = 0]
  <2>1. /\ UNCHANGED << policy, webhook, status >>
        /\ worker[p].pc \in {"deployment", "configMap", "pods"}
        /\ \/ Conclude(p, "pending") \/ Conclude(p, "unreachable")
           \/ Becomes(p, d) \/ Becomes(p, c) \/ Becomes(p, l)
    BY <1>4 DEF GetDeployment, GetConfigMap, ListReplicaSetsAndPods, cluster
  <2>2. \A w \in {d, c, l} : /\ w.pc \in {"configMap", "pods", "webhook"}
                             /\ w.outcome = worker[p].outcome /\ w.seen = worker[p].seen
    BY <1>1 DEF Workers
  <2> HIDE DEF d, c, l
  <2>3. /\ worker[p].seen.phase = "live"
        /\ worker[p].outcome = "registered" => webhook[p] # None
    BY <2>1 DEF Followed, WorkersFollowPhase, OutcomesHold
  <2>4. ASSUME NEW w \in {d, c, l}, Becomes(p, w) PROVE Followed'
    BY <1>2, <2>1, <2>2, <2>3, <2>4, AgesFrame, FollowedMoves DEF Retained
  <2> QED
    BY <2>1, <2>4, FollowedConclude DEF Outcomes
<1>5. CASE ReconcileWebhookConfiguration(p)
  <2>1. /\ UNCHANGED << policy, status >>
        /\ worker[p].pc = "webhook"
        /\ \A q \in Policies \ {p} : webhook'[q] = webhook[q]
        /\ \/ Conclude(p, "notRegistered") /\ UNCHANGED webhook
           \/ Conclude(p, "registered") /\ webhook'[p] = ReconciledWebhook(p)
    BY <1>5 DEF ReconcileWebhookConfiguration, TypeInv, TypeOK
  <2> QED
    BY <2>1, ReconciledWebhookExists, FollowedConclude DEF Outcomes
<1>6. CASE SetPolicyStatus(p)
  <2> DEFINE u == IF p \in Bound /\ deployment.version # 0
                  THEN deployment.version = Len(configMap) ELSE status[p].upToDate
             m == IF p \in Bound /\ deployment.version # 0
                  THEN configMap[Len(configMap)][p] ELSE status[p].mode
             w == [worker[p] EXCEPT !.pc = "update", !.upToDate = u, !.mode = m]
  <2>1. UNCHANGED << policy, webhook, status >> /\ Becomes(p, w) /\ worker[p].pc = "inspect"
    BY <1>6 DEF SetPolicyStatus, cluster
  <2> HIDE DEF u, m
  <2>2. w.pc = "update" /\ w.outcome = worker[p].outcome /\ w.seen = worker[p].seen
    BY <1>1 DEF Workers
  <2> HIDE DEF w
  <2>3. /\ worker[p].seen.phase = "live"
        /\ worker[p].outcome = "registered" => webhook[p] # None
    BY <2>1 DEF Followed, WorkersFollowPhase, OutcomesHold
  <2> QED
    BY <1>2, <2>1, <2>2, <2>3, AgesFrame, FollowedMoves DEF Retained
<1>7. CASE UpdateStatus(p)
  <2>1. /\ UNCHANGED << policy, webhook >> /\ Becomes(p, IdleWorker)
        /\ \A q \in Policies \ {p} : status'[q] = status[q]
        /\ status'[p] = status[p] \/ status'[p].active = PolicyActive(p)
    BY <1>7 DEF UpdateStatus, ReconciledStatus, TypeInv, TypeOK
  <2>2. PolicyActive(p) => webhook[p] # None
    BY DEF PolicyActive, Followed, OutcomesHold
  <2> QED
    BY <1>1, <1>2, <2>1, <2>2, AgesFrame, FollowedMoves DEF Retained
<1>8. CASE DeleteWebhook(p)
  <2> DEFINE w == [worker[p] EXCEPT !.pc = "removeFinalizer"]
  <2>1. /\ UNCHANGED << policy, status >> /\ Becomes(p, w) /\ worker[p].pc = "deleteWebhook"
        /\ \A q \in Policies \ {p} : webhook'[q] = webhook[q]
    BY <1>8 DEF DeleteWebhook, TypeInv, TypeOK
  <2>2. w.pc = "removeFinalizer" /\ w.outcome = worker[p].outcome
    BY <1>1 DEF Workers
  <2> HIDE DEF w
  <2>3. policy[p].phase \in {"deleting", "gone"} /\ worker[p].outcome = "none"
    BY <2>1 DEF Followed, WorkersFollowPhase
  <2> QED
    BY <2>1, <2>2, <2>3, AgesFrame, FollowedMoves DEF Retained
<1>9. CASE RemoveFinalizer(p)
  <2>1. UNCHANGED << webhook, status >> /\ Becomes(p, IdleWorker)
    BY <1>9 DEF RemoveFinalizer
  <2>2. /\ \A q \in Policies \ {p} : policy'[q] = policy[q]
        /\ policy'[p] = policy[p] \/ policy'[p].phase = "gone"
    BY <1>9, Removes DEF RemovesPolicy
  <2>3. PolicyAges
    BY <2>2 DEF PolicyAges, Retained
  <2>4. Retained(p)' => Retained(p)
    BY <2>3 DEF PolicyAges
  <2> QED
    BY <1>1, <1>2, <2>1, <2>2, <2>3, <2>4, FollowedMoves
<1> QED
  BY <1>3, <1>4, <1>5, <1>6, <1>7, <1>8, <1>9 DEF ReconcilePolicy

\* An error or a restart may lose a status, never a webhook.
LEMMA FaultsFollowed == ASSUME TypeInv, Followed, Faults PROVE Followed'
<1>1. CASE Crash
  <2>1. /\ UNCHANGED << policy, webhook, status >>
        /\ \A p \in Policies : worker'[p].pc = "idle" /\ worker'[p].outcome = "none"
    BY <1>1 DEF Crash, IdleWorker, cluster
  <2> QED
    BY <2>1 DEF Followed, WorkersFollowPhase, OutcomesHold, Retained
<1>2. CASE ServerApiError
  BY <1>2, AgesFrame, FollowedFrame DEF ServerApiError
<1>3. ASSUME NEW k \in Slots, EvictPod(k) PROVE Followed'
  BY <1>3, AgesFrame, FollowedFrame DEF EvictPod
<1>4. ASSUME NEW p \in Policies, PolicyApiError(p) PROVE Followed'
  <2> DEFINE w == [worker[p] EXCEPT !.pc = "update", !.upToDate = status[p].upToDate,
                                    !.mode = status[p].mode]
  <2>1. w.pc = "update" /\ w.outcome = worker[p].outcome /\ w.seen = worker[p].seen
    BY DEF Workers, TypeInv, TypeOK
  <2>2. /\ UNCHANGED << policy, status >>
        /\ \A q \in Policies \ {p} : webhook'[q] = webhook[q]
        /\ \/ /\ worker[p].pc \in {"deployment", "configMap", "pods", "webhook"}
              /\ \E o \in Outcomes \ {"registered"} : Conclude(p, o)
              /\ webhook'[p] = webhook[p] \/ (worker[p].pc = "webhook" /\ webhook'[p] = ReconciledWebhook(p))
           \/ Becomes(p, w) /\ worker[p].pc = "inspect" /\ UNCHANGED webhook
           \/ Becomes(p, IdleWorker) /\ UNCHANGED webhook
    BY <1>4 DEF PolicyApiError, Outcomes, TypeInv, TypeOK
  <2> HIDE DEF w
  <2>3. CASE Becomes(p, w) /\ worker[p].pc = "inspect" /\ UNCHANGED webhook
    <3>1. /\ worker[p].seen.phase = "live"
          /\ worker[p].outcome = "registered" => webhook[p] # None
          /\ status[p].active /\ Retained(p) => webhook[p] # None
      BY <2>3 DEF Followed, WorkersFollowPhase, OutcomesHold
    <3> QED
      BY <2>1, <2>2, <2>3, <3>1, AgesFrame, FollowedMoves DEF Retained
  <2>4. CASE Becomes(p, IdleWorker) /\ UNCHANGED webhook
    <3>1. /\ IdleWorker.pc = "idle" /\ IdleWorker.outcome = "none"
          /\ status[p].active /\ Retained(p) => webhook[p] # None
      BY DEF IdleWorker, Followed, OutcomesHold
    <3> QED
      BY <2>2, <2>4, <3>1, AgesFrame, FollowedMoves DEF Retained
  <2> QED
    BY <2>2, <2>3, <2>4, ReconciledWebhookExists, FollowedConclude
<1> QED
  BY <1>1, <1>2, <1>3, <1>4 DEF Faults

\* No reconcile, no status.
LEMMA InitFollowed == Init => Followed
  BY DEF Init, Followed, WorkersFollowPhase, OutcomesHold, IdleWorker, NewStatus

\* A reconcile that has found its policy registered (policy_utils.go:154), and a
\* status saved from it, stay right until the policy is deleted.
THEOREM FollowedHolds == Spec => []Followed
<1>1. Init => TypeInv /\ Followed
  BY InitTypeInv, InitFollowed
<1>2. TypeInv /\ Followed /\ [Next]_vars => (TypeInv /\ Followed)'
  BY NextType, UserFollowed, OthersFollowed, PolicyFollowed, FaultsFollowed DEF Next
<1> QED
  BY <1>1, <1>2, PTL DEF Spec

\* A policy whose saved status says PolicyActive has a webhook, whatever failed
\* or was restarted since it was saved.
THEOREM ActiveIsRegistered == Spec => []ActivePolicyIsRegistered
<1>1. Followed => ActivePolicyIsRegistered
  BY DEF Followed, OutcomesHold, ActivePolicyIsRegistered, Retained
<1> QED
  BY <1>1, FollowedHolds, PTL
=============================================================================
