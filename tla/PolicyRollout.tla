---------------------------- MODULE PolicyRollout ----------------------------
(***************************************************************************)
(* How an admission policy becomes enforced, and how it stops being so.    *)
(*                                                                         *)
(* Two controllers work on one PolicyServer and the policies bound to it:  *)
(*                                                                         *)
(*  - PolicyServerReconciler writes the ConfigMap that lists the policies  *)
(*    and the Deployment whose pods load it                                *)
(*    (controllers/policyserver_controller.go, internal/pkg/admission);    *)
(*  - the two policy reconcilers create the webhook configuration of a     *)
(*    policy, but only once isPolicyUniquelyReachable believes that every  *)
(*    pod serves it (controllers/policy_utils.go, policystatus_utils.go).  *)
(*                                                                         *)
(* Each reconcile is split at its API calls, so the other controller, the  *)
(* users, Kubernetes and a crash can come between any two of them.         *)
(* ConfigMaps, Deployments and (by APIReader) policies are read live; all  *)
(* other kinds are read from informer caches, which lag.                   *)
(***************************************************************************)
EXTENDS Integers, Sequences, FiniteSets

CONSTANTS
    Policies,     \* the policies users may create
    Namespaced,   \* those that are AdmissionPolicies, not ClusterAdmissionPolicies
    Bound,        \* those whose spec.policyServer names the PolicyServer; the others name none
    Deletable,    \* those users may delete
    Slots,        \* the places where a pod of the PolicyServer may run
    MaxGen,       \* bound: how many specs a user gives one policy
    Entry,        \* Entry[g]: what spec number g puts in the ConfigMap (module, mode, settings)
    Rules,        \* Rules[g]: what spec number g puts in the webhook (rules, selectors, ...)
    StatusReadsFail, \* may the reads fail that the status is filled in from?
    MaxFaults,    \* bound: API errors, evictions and crashes
    None          \* no entry, no webhook, nothing

Gens == 1 .. MaxGen

ASSUME ConstantsAssumption ==
    /\ Namespaced \subseteq Policies
    /\ Bound \subseteq Policies
    /\ Deletable \subseteq Policies
    /\ MaxGen \in Nat
    /\ StatusReadsFail \in BOOLEAN
    /\ MaxFaults \in Nat
    /\ DOMAIN Entry = Gens
    /\ DOMAIN Rules = Gens
    /\ \A g \in Gens : Entry[g] # None /\ Rules[g] # None

VARIABLES
    policy,             \* etcd: [phase, gen] of each policy
    status,             \* etcd: the status subresource of each policy
    webhook,            \* etcd: the content of each policy's webhook configuration
    policyServer,       \* etcd: has the PolicyServer been created?
    serverStatus,       \* etcd: do its conditions say that everything is reconciled?
    configMap,          \* etcd: every ConfigMap so far; its length is the resourceVersion
    deployment,         \* etcd: [version, revision] of the Deployment
    replicaSets,        \* etcd: the ReplicaSets with replicas, named by ConfigMap version
    pods,               \* etcd: the pod in each slot, [version, loaded, ready]
    policyCache, policyServerCache, replicaSetCache, podCache, webhookCache,
                        \* what the informers of the controller hold of the above
    queue,              \* the policies enqueued for reconciliation
    serverQueue,        \* is the PolicyServer enqueued?
    worker,             \* per policy: the reconcile under way
    serverWorker,       \* the PolicyServer reconcile under way
    faults              \* faults so far

cluster == << policy, status, webhook, policyServer, serverStatus, configMap,
              deployment, replicaSets, pods >>
caches  == << policyCache, policyServerCache, replicaSetCache, podCache, webhookCache >>
vars    == << policy, status, webhook, policyServer, serverStatus, configMap,
              deployment, replicaSets, pods,
              policyCache, policyServerCache, replicaSetCache, podCache, webhookCache,
              queue, serverQueue, worker, serverWorker, faults >>

-----------------------------------------------------------------------------
(* State. *)

Entries  == { Entry[g] : g \in Gens }
AllRules == { Rules[g] : g \in Gens }
Versions == 0 .. Len(configMap)     \* 0: no ConfigMap yet, no annotation, not started

NoPolicy == [phase |-> "absent", gen |-> 0]
Vacant   == [version |-> 0, loaded |-> 0, ready |-> FALSE]
Unlisted == [version |-> 0, ready |-> FALSE]

NewStatus == [policyStatus |-> "none", mode |-> None,
              active |-> FALSE, reachable |-> FALSE, upToDate |-> FALSE]

IdleWorker == [pc |-> "idle", seen |-> NoPolicy, revision |-> 0, version |-> 0,
               outcome |-> "none", upToDate |-> FALSE, mode |-> None]

NoEntries        == [p \in Policies |-> None]
IdleServerWorker == [pc |-> "idle", desired |-> NoEntries]

Objects  == {NoPolicy} \cup [phase : {"live", "deleting", "gone"}, gen : Gens]
Statuses == [policyStatus : {"none", "unscheduled", "scheduled", "pending", "active"},
             mode : Entries \cup {None},
             active : BOOLEAN, reachable : BOOLEAN, upToDate : BOOLEAN]
Outcomes == {"none", "unscheduled", "scheduled", "pending", "unreachable",
             "notRegistered", "registered"}
Workers  == [pc : {"idle", "deployment", "configMap", "pods", "webhook", "inspect",
                   "update", "deleteWebhook", "removeFinalizer"},
             seen : Objects, revision : Nat, version : Nat, outcome : Outcomes,
             upToDate : BOOLEAN, mode : Entries \cup {None}]
Configs  == [Policies -> Entries \cup {None}]
PodType  == [version : Nat, loaded : Nat, ready : BOOLEAN]
ListedPodType == [version : Nat, ready : BOOLEAN]

\* Every variable has its type; versions never exceed the ConfigMap's current one.
TypeOK ==
    /\ policy \in [Policies -> Objects]
    /\ status \in [Policies -> Statuses]
    /\ webhook \in [Policies -> AllRules \cup {None}]
    /\ policyServer \in BOOLEAN
    /\ serverStatus \in BOOLEAN
    /\ configMap \in Seq(Configs)
    /\ deployment \in [version : Versions, revision : Versions]
    /\ replicaSets \in SUBSET (Versions \ {0})
    /\ pods \in [Slots -> PodType]
    /\ policyCache \in [Policies -> Objects]
    /\ policyServerCache \in BOOLEAN
    /\ replicaSetCache \in Versions
    /\ podCache \in [Slots -> ListedPodType]
    /\ webhookCache \in [Policies -> AllRules \cup {None}]
    /\ queue \in SUBSET Policies
    /\ serverQueue \in BOOLEAN
    /\ worker \in [Policies -> Workers]
    /\ serverWorker \in [pc : {"idle", "configMap", "deployment", "status"}, desired : Configs]
    /\ faults \in 0 .. MaxFaults

Init ==
    /\ policy = [p \in Policies |-> NoPolicy]
    /\ status = [p \in Policies |-> NewStatus]
    /\ webhook = [p \in Policies |-> None]
    /\ policyServer = FALSE
    /\ serverStatus = FALSE
    /\ configMap = << >>
    /\ deployment = [version |-> 0, revision |-> 0]
    /\ replicaSets = {}
    /\ pods = [k \in Slots |-> Vacant]
    /\ policyCache = [p \in Policies |-> NoPolicy]
    /\ policyServerCache = FALSE
    /\ replicaSetCache = 0
    /\ podCache = [k \in Slots |-> Unlisted]
    /\ webhookCache = [p \in Policies |-> None]
    /\ queue = {}
    /\ serverQueue = FALSE
    /\ worker = [p \in Policies |-> IdleWorker]
    /\ serverWorker = IdleServerWorker
    /\ faults = 0

\* The policies in the ConfigMap as it is now: getPolicyMapFromConfigMap.
Configured ==
    IF configMap = << >> THEN {}
    ELSE { p \in Policies : configMap[Len(configMap)][p] # None }

-----------------------------------------------------------------------------
(* The users.  A write reaches the controllers through SyncPolicy and      *)
(* SyncPolicyServer below.                                                 *)

CreatePolicyServer ==
    /\ ~policyServer
    /\ policyServer' = TRUE
    /\ UNCHANGED << policy, status, webhook, serverStatus, configMap, deployment,
                    replicaSets, pods, caches, queue, serverQueue, worker,
                    serverWorker, faults >>

\* The first spec of a policy, or an edit of it, even of one that is being deleted.
\* The admission webhooks of the CRDs keep spec.policyServer as it was, and set the
\* finalizer of a policy that is not being deleted.
WritePolicy(p) ==
    /\ policy[p].phase # "gone"
    /\ policy[p].gen < MaxGen
    /\ policy' = [policy EXCEPT ![p] =
                     [phase |-> IF @.phase = "deleting" THEN "deleting" ELSE "live",
                      gen |-> @.gen + 1]]
    /\ UNCHANGED << status, webhook, policyServer, serverStatus, configMap, deployment,
                    replicaSets, pods, caches, queue, serverQueue, worker,
                    serverWorker, faults >>

\* kubectl delete: the finalizer keeps the object, with a deletionTimestamp.
DeletePolicy(p) ==
    /\ p \in Deletable
    /\ policy[p].phase = "live"
    /\ policy' = [policy EXCEPT ![p].phase = "deleting"]
    /\ UNCHANGED << status, webhook, policyServer, serverStatus, configMap, deployment,
                    replicaSets, pods, caches, queue, serverQueue, worker,
                    serverWorker, faults >>

\* scripts/removeFinalizersFromCRDs.sh: a policy that is being deleted goes at once.
RemoveFinalizerByHand(p) ==
    /\ policy[p].phase = "deleting"
    /\ policy' = [policy EXCEPT ![p].phase = "gone"]
    /\ UNCHANGED << status, webhook, policyServer, serverStatus, configMap, deployment,
                    replicaSets, pods, caches, queue, serverQueue, worker,
                    serverWorker, faults >>

-----------------------------------------------------------------------------
(* The informers.  Each brings its cache up to date and enqueues what the  *)
(* watches of the three SetupWithManager functions map the event to.       *)

\* findClusterAdmissionPoliciesForPolicyServer and its namespaced twin: the
\* policies in the ConfigMap, which is read live.
findPoliciesForPolicyServer == Configured

\* findClusterAdmissionPoliciesForPod and findAdmissionPoliciesForPod: the
\* latter ignores a pod that is being deleted.
findPoliciesForPod(podAddedOrUpdated) ==
    { p \in Configured : podAddedOrUpdated \/ p \notin Namespaced }

SyncPolicyServer ==
    /\ policyServer /\ ~policyServerCache
    /\ policyServerCache' = TRUE
    /\ serverQueue' = TRUE
    /\ queue' = queue \cup findPoliciesForPolicyServer
    /\ UNCHANGED << cluster, policyCache, replicaSetCache, podCache, webhookCache,
                    worker, serverWorker, faults >>

\* Broken variant: a predicate lets only edits of the spec through.
SyncEdits(p) ==
    /\ policyCache[p] # policy[p]
    /\ policyCache' = [policyCache EXCEPT ![p] = policy[p]]
    /\ LET edited == policyCache[p].gen # policy[p].gen IN
       /\ queue' = IF edited THEN queue \cup {p} ELSE queue
       /\ serverQueue' = (serverQueue \/ (edited /\ p \in Bound))
    /\ UNCHANGED << cluster, policyServerCache, replicaSetCache, podCache, webhookCache,
                    worker, serverWorker, faults >>

\* Both For(policy) of the policy controller and Watches(policy) of the
\* PolicyServer controller see the event.
SyncPolicy(p) ==
    /\ policyCache[p] # policy[p]
    /\ policyCache' = [policyCache EXCEPT ![p] = policy[p]]
    /\ queue' = queue \cup {p}
    /\ serverQueue' = (serverQueue \/ p \in Bound)
    /\ UNCHANGED << cluster, policyServerCache, replicaSetCache, podCache, webhookCache,
                    worker, serverWorker, faults >>

\* A Pod object shows its ReplicaSet and its readiness, not what it has loaded.
ListedPods == [k \in Slots |-> [version |-> pods[k].version, ready |-> pods[k].ready]]

SyncPods ==
    /\ podCache # ListedPods
    /\ podCache' = ListedPods
    /\ queue' = queue \cup
          findPoliciesForPod(\E k \in Slots : podCache[k] # ListedPods[k] /\ pods[k] # Vacant)
    /\ UNCHANGED << cluster, policyCache, policyServerCache, replicaSetCache, webhookCache,
                    serverQueue, worker, serverWorker, faults >>

\* Read by the controllers but watched by none: no reconcile follows.
SyncReplicaSets ==
    /\ replicaSetCache # deployment.revision
    /\ replicaSetCache' = deployment.revision
    /\ UNCHANGED << cluster, policyCache, policyServerCache, podCache, webhookCache,
                    queue, serverQueue, worker, serverWorker, faults >>

SyncWebhook(p) ==
    /\ webhookCache[p] # webhook[p]
    /\ webhookCache' = [webhookCache EXCEPT ![p] = webhook[p]]
    /\ UNCHANGED << cluster, policyCache, policyServerCache, replicaSetCache, podCache,
                    queue, serverQueue, worker, serverWorker, faults >>

-----------------------------------------------------------------------------
(* PolicyServerReconciler, one reconcile at a time.                        *)

\* Broken variant: only one of the two kinds is listed.
GetPoliciesOfOneKind ==
    [p \in Policies |->
        IF p \in Bound /\ policyCache[p].phase = "live" /\ p \notin Namespaced
        THEN Entry[policyCache[p].gen] ELSE None]

\* GetPolicies(SkipDeleted), then createPoliciesMap.  PolicyServerLifecycle has what
\* becomes of a List that fails.
GetPolicies ==
    [p \in Policies |->
        IF p \in Bound /\ policyCache[p].phase = "live"
        THEN Entry[policyCache[p].gen] ELSE None]

\* Reconcile: the PolicyServer and its policies are read from the caches.
StartPolicyServerReconcile ==
    /\ serverQueue /\ serverWorker.pc = "idle"
    /\ serverQueue' = FALSE
    /\ \/ /\ ~policyServerCache
          /\ UNCHANGED serverWorker
       \/ /\ policyServerCache
          /\ serverWorker' = [pc |-> "configMap", desired |-> GetPolicies]
    /\ UNCHANGED << cluster, caches, queue, worker, faults >>

\* shouldUpdatePolicyMap; a missing ConfigMap is created.
shouldUpdatePolicyMap(desired) ==
    configMap = << >> \/ configMap[Len(configMap)] # desired

\* Broken variant: a ConfigMap that needs no update is taken to be rolled out already.
ReconcileOutdatedConfigMap ==
    LET outdated == shouldUpdatePolicyMap(serverWorker.desired) IN
    /\ serverWorker.pc = "configMap"
    /\ configMap' = IF outdated THEN Append(configMap, serverWorker.desired) ELSE configMap
    /\ serverWorker' = [IdleServerWorker EXCEPT !.pc = IF outdated THEN "deployment" ELSE "status"]
    /\ UNCHANGED << policy, status, webhook, policyServer, serverStatus, deployment,
                    replicaSets, pods, caches, queue, serverQueue, worker, faults >>

\* reconcilePolicyServerConfigMap: created, or patched when it differs.  Each
\* write gives it a new resourceVersion.
ReconcilePolicyServerConfigMap ==
    /\ serverWorker.pc = "configMap"
    /\ configMap' = IF shouldUpdatePolicyMap(serverWorker.desired)
                    THEN Append(configMap, serverWorker.desired) ELSE configMap
    /\ serverWorker' = [IdleServerWorker EXCEPT !.pc = "deployment"]
    /\ UNCHANGED << policy, status, webhook, policyServer, serverStatus, deployment,
                    replicaSets, pods, caches, queue, serverQueue, worker, faults >>

\* Broken variant: a version that the ConfigMap does not have yet.
nextPolicyServerConfigMapVersion == Len(configMap) + 1

\* The live resourceVersion of the ConfigMap.
policyServerConfigMapVersion == Len(configMap)

\* reconcilePolicyServerDeployment: the Deployment's annotation and the label of
\* its pod template take the live resourceVersion of the ConfigMap, so that a
\* new version is a new ReplicaSet.
ReconcilePolicyServerDeployment ==
    /\ serverWorker.pc = "deployment"
    /\ deployment' = [deployment EXCEPT !.version = policyServerConfigMapVersion]
    /\ serverWorker' = [serverWorker EXCEPT !.pc = "status"]
    /\ UNCHANGED << policy, status, webhook, policyServer, serverStatus, configMap,
                    replicaSets, pods, caches, queue, serverQueue, worker, faults >>

\* reconcilePolicyServerService, then Status().Update.  A status that changed is
\* an event of the PolicyServer.
UpdatePolicyServerStatus ==
    /\ serverWorker.pc = "status"
    /\ serverWorker' = IdleServerWorker
    /\ serverStatus' = TRUE
    /\ serverQueue' = (serverQueue \/ ~serverStatus)
    /\ queue' = IF serverStatus THEN queue ELSE queue \cup findPoliciesForPolicyServer
    /\ UNCHANGED << policy, status, webhook, policyServer, configMap, deployment,
                    replicaSets, pods, caches, worker, faults >>

-----------------------------------------------------------------------------
(* Kubernetes: the Deployment controller, the ReplicaSet controller and    *)
(* the kubelet, as the code relies on them.                                *)

\* A ReplicaSet for the current template; the Deployment takes its revision.
RollOut ==
    /\ deployment.revision # deployment.version
    /\ deployment' = [deployment EXCEPT !.revision = deployment.version]
    /\ replicaSets' = replicaSets \cup {deployment.version}
    /\ UNCHANGED << policy, status, webhook, policyServer, serverStatus, configMap, pods,
                    caches, queue, serverQueue, worker, serverWorker, faults >>

ScaleDown(v) ==
    /\ v \in replicaSets /\ v # deployment.revision
    /\ replicaSets' = replicaSets \ {v}
    /\ UNCHANGED << policy, status, webhook, policyServer, serverStatus, configMap,
                    deployment, pods, caches, queue, serverQueue, worker, serverWorker,
                    faults >>

CreatePod(k, v) ==
    /\ pods[k] = Vacant
    /\ v \in replicaSets
    /\ pods' = [pods EXCEPT ![k] = [version |-> v, loaded |-> 0, ready |-> FALSE]]
    /\ UNCHANGED << policy, status, webhook, policyServer, serverStatus, configMap,
                    deployment, replicaSets, caches, queue, serverQueue, worker,
                    serverWorker, faults >>

\* The policy server loads the ConfigMap mounted in its pod, which is as it is
\* now whatever ReplicaSet the pod belongs to.
StartPod(k) ==
    /\ pods[k] # Vacant /\ pods[k].loaded = 0
    /\ pods' = [pods EXCEPT ![k].loaded = Len(configMap)]
    /\ UNCHANGED << policy, status, webhook, policyServer, serverStatus, configMap,
                    deployment, replicaSets, caches, queue, serverQueue, worker,
                    serverWorker, faults >>

\* It has fetched and compiled the policies; its readiness probe succeeds.
PodBecomesReady(k) ==
    /\ pods[k].loaded # 0 /\ ~pods[k].ready
    /\ pods' = [pods EXCEPT ![k].ready = TRUE]
    /\ UNCHANGED << policy, status, webhook, policyServer, serverStatus, configMap,
                    deployment, replicaSets, caches, queue, serverQueue, worker,
                    serverWorker, faults >>

\* A rollout replaces the pods of the other ReplicaSets.
ReplacePod(k) ==
    /\ pods[k] # Vacant /\ pods[k].version # deployment.revision
    /\ pods' = [pods EXCEPT ![k] = Vacant]
    /\ UNCHANGED << policy, status, webhook, policyServer, serverStatus, configMap,
                    deployment, replicaSets, caches, queue, serverQueue, worker,
                    serverWorker, faults >>

EvictPod(k) ==
    /\ pods[k] # Vacant /\ faults < MaxFaults
    /\ pods' = [pods EXCEPT ![k] = Vacant]
    /\ faults' = faults + 1
    /\ UNCHANGED << policy, status, webhook, policyServer, serverStatus, configMap,
                    deployment, replicaSets, caches, queue, serverQueue, worker,
                    serverWorker >>

-----------------------------------------------------------------------------
(* The policy reconcilers: startReconciling, one reconcile at a time for   *)
(* each policy.  worker[p] is the policy object in memory: what was read   *)
(* of it (seen) and what became of the reconcile (outcome).                *)

Becomes(p, w) == worker' = [worker EXCEPT ![p] = w]

Conclude(p, outcome) ==
    Becomes(p, [worker[p] EXCEPT !.pc = "inspect", !.outcome = outcome,
                                 !.revision = 0, !.version = 0])

\* Broken variant: a deleted policy is reconciled like any other.
FirstStepWhateverPhase(p) ==
    IF p \in Bound /\ policyServerCache THEN [pc |-> "deployment", outcome |-> "pending"]
    ELSE [pc |-> "inspect", outcome |-> "scheduled"]

\* reconcilePolicy up to its first call that may block, or the deletion branch.
FirstStep(p) ==
    IF policy[p].phase = "deleting" THEN [pc |-> "deleteWebhook", outcome |-> "none"]
    ELSE IF p \notin Bound THEN [pc |-> "inspect", outcome |-> "unscheduled"]
    ELSE IF ~policyServerCache THEN [pc |-> "inspect", outcome |-> "scheduled"]
    ELSE [pc |-> "deployment", outcome |-> "pending"]

\* Reconcile reads the policy live, then getPolicyServer its PolicyServer from
\* the cache: NotFound ends the reconcile as "scheduled", with no requeue.
StartReconciling(p) ==
    /\ p \in queue /\ worker[p].pc = "idle"
    /\ queue' = queue \ {p}
    /\ IF policy[p].phase \in {"absent", "gone"} THEN UNCHANGED worker
       ELSE Becomes(p, [IdleWorker EXCEPT !.seen = policy[p], !.pc = FirstStep(p).pc,
                                          !.outcome = FirstStep(p).outcome])
    /\ UNCHANGED << cluster, caches, serverQueue, serverWorker, faults >>

\* The live Deployment, whose revision annotation is kept for later.
GetDeployment(p) ==
    /\ worker[p].pc = "deployment"
    /\ IF deployment.version = 0 THEN Conclude(p, "pending")
       ELSE Becomes(p, [worker[p] EXCEPT !.pc = "configMap",
                                         !.revision = deployment.revision])
    /\ UNCHANGED << cluster, caches, queue, serverQueue, serverWorker, faults >>

\* Broken variant: any ConfigMap will do.
isPolicyInAnyConfigMap(p) == configMap # << >>

isPolicyInConfigMap(p) == p \in Configured

\* isPolicyUniquelyReachable, first part: the live ConfigMap holds the policy.
GetConfigMap(p) ==
    /\ worker[p].pc = "configMap"
    /\ IF isPolicyInConfigMap(p)
       THEN Becomes(p, [worker[p] EXCEPT !.pc = "pods", !.version = Len(configMap)])
       ELSE Conclude(p, "unreachable")
    /\ UNCHANGED << cluster, caches, queue, serverQueue, serverWorker, faults >>

\* Broken variant: the ReplicaSet is not compared with the ConfigMap.
isReplicaSetOfRevision(replicaSet, revision, version) == replicaSet = revision

\* ReplicaSet v has the revision named v and the ConfigMap version v.
isLatestReplicaSetFromPolicyServerDeployment(replicaSet, revision, version) ==
    replicaSet = revision /\ replicaSet = version

isPodReady(pod) == pod.ready

\* Broken variant: pods of any ReplicaSet are good enough.
isSomePodReady(revision, version) ==
    \E v \in 1 .. replicaSetCache :
        /\ isLatestReplicaSetFromPolicyServerDeployment(v, revision, version)
        /\ \E k \in Slots : podCache[k] # Unlisted /\ isPodReady(podCache[k])

\* isPolicyUniquelyReachable, second part: there are pods, and all of them are
\* ready and belong to the latest ReplicaSet.
isUniquelyReachable(revision, version) ==
    \E v \in 1 .. replicaSetCache :
        /\ isLatestReplicaSetFromPolicyServerDeployment(v, revision, version)
        /\ \E k \in Slots : podCache[k] # Unlisted
        /\ \A k \in Slots : podCache[k] # Unlisted =>
              podCache[k].version = v /\ isPodReady(podCache[k])

ListReplicaSetsAndPods(p) ==
    /\ worker[p].pc = "pods"
    /\ IF isUniquelyReachable(worker[p].revision, worker[p].version)
       THEN Becomes(p, [worker[p] EXCEPT !.pc = "webhook", !.revision = 0, !.version = 0])
       ELSE Conclude(p, "unreachable")
    /\ UNCHANGED << cluster, caches, queue, serverQueue, serverWorker, faults >>

\* Broken variant: a webhook that exists is deleted, for the next reconcile to
\* create it again.
RecreatedWebhook(p) == IF webhook[p] = None THEN Rules[worker[p].seen.gen] ELSE None

\* Reconcile{Mutating,Validating}WebhookConfiguration: Create, or else compare
\* with the cached webhook and Patch the live one if they differ.
ReconciledWebhook(p) ==
    IF webhook[p] = None \/ webhookCache[p] # Rules[worker[p].seen.gen]
    THEN Rules[worker[p].seen.gen] ELSE webhook[p]

\* The webhook exists but the cache has not seen it: the update returns NotFound.
WebhookNotCached(p) == webhook[p] # None /\ webhookCache[p] = None

ReconcileWebhookConfiguration(p) ==
    /\ worker[p].pc = "webhook"
    /\ IF WebhookNotCached(p)
       THEN Conclude(p, "notRegistered") /\ UNCHANGED webhook
       ELSE /\ Conclude(p, "registered")
            /\ webhook' = [webhook EXCEPT ![p] = ReconciledWebhook(p)]
    /\ UNCHANGED << policy, status, policyServer, serverStatus, configMap, deployment,
                    replicaSets, pods, caches, queue, serverQueue, serverWorker, faults >>

\* setPolicyStatus: from the live Deployment and ConfigMap, if both exist.  A
\* policy bound to no PolicyServer finds neither.
SetPolicyStatus(p) ==
    /\ worker[p].pc = "inspect"
    /\ Becomes(p, [worker[p] EXCEPT
          !.pc = "update",
          !.upToDate = IF p \in Bound /\ deployment.version # 0
                       THEN deployment.version = Len(configMap) ELSE status[p].upToDate,
          !.mode = IF p \in Bound /\ deployment.version # 0
                   THEN configMap[Len(configMap)][p] ELSE status[p].mode])
    /\ UNCHANGED << cluster, caches, queue, serverQueue, serverWorker, faults >>

\* setPolicyAsActive comes last: every earlier return leaves PolicyActive false.
PolicyActive(p) == worker[p].outcome = "registered"

PolicyStatus(p) ==
    IF worker[p].outcome \in {"unscheduled", "scheduled"} THEN worker[p].outcome
    ELSE IF PolicyActive(p) \/ status[p].policyStatus = "active" THEN "active"
    ELSE "pending"

PolicyUniquelyReachable(p) ==
    CASE worker[p].outcome \in {"registered", "notRegistered"} -> TRUE
      [] worker[p].outcome = "unreachable"                     -> FALSE
      [] OTHER                                                 -> status[p].reachable

ReconciledStatus(p) ==
    [policyStatus |-> PolicyStatus(p), mode |-> worker[p].mode, active |-> PolicyActive(p),
     reachable |-> PolicyUniquelyReachable(p), upToDate |-> worker[p].upToDate]

\* Broken variant: a policy that is not yet reachable is not looked at again.
RequeuesOnErrorOnly(outcome) == outcome \in {"pending", "notRegistered"}

Requeues(outcome) == outcome \in {"pending", "unreachable", "notRegistered"}

\* The API server takes a write of the object in memory: nobody wrote it since.
IsCurrent(p) == policy[p] = worker[p].seen

\* The outcome is saved: this step is Status().Update of startReconciling.
SavesStatus(p) == worker[p].pc = "update" /\ IsCurrent(p)

\* reconcilePolicy sets PolicyActive to false before it sets it to true again, so that
\* its lastTransitionTime, which has seconds, may be all that changes.
StatusChanges(p) ==
    IF ReconciledStatus(p) # status[p] THEN {TRUE}
    ELSE IF PolicyActive(p) THEN BOOLEAN ELSE {FALSE}

\* Status().Update: a Conflict if the policy was written since it was read.  A
\* status that changed is an event of the policy; an error means a retry.
UpdateStatus(p) ==
    /\ worker[p].pc = "update"
    /\ Becomes(p, IdleWorker)
    /\ IF SavesStatus(p)
       THEN /\ status' = [status EXCEPT ![p] = ReconciledStatus(p)]
            /\ \E changed \in StatusChanges(p) :
                  /\ queue' = IF Requeues(worker[p].outcome) \/ changed
                              THEN queue \cup {p} ELSE queue
                  /\ serverQueue' = (serverQueue \/ (p \in Bound /\ changed))
       ELSE /\ queue' = queue \cup {p}
            /\ UNCHANGED << status, serverQueue >>
    /\ UNCHANGED << policy, webhook, policyServer, serverStatus, configMap, deployment,
                    replicaSets, pods, caches, serverWorker, faults >>

\* reconcileValidatingWebhook, reconcileMutatingWebhook: the webhook is deleted if
\* the cache has it; NotFound in the cache or at the API server is success.
DeletedWebhook(p) == IF webhookCache[p] = None THEN webhook[p] ELSE None

DeleteWebhook(p) ==
    /\ worker[p].pc = "deleteWebhook"
    /\ webhook' = [webhook EXCEPT ![p] = DeletedWebhook(p)]
    /\ Becomes(p, [worker[p] EXCEPT !.pc = "removeFinalizer"])
    /\ UNCHANGED << policy, status, policyServer, serverStatus, configMap, deployment,
                    replicaSets, pods, caches, queue, serverQueue, serverWorker, faults >>

\* The last finalizer goes, and with it the policy, unless the update conflicts or
\* users were faster.
RemoveFinalizer(p) ==
    /\ worker[p].pc = "removeFinalizer"
    /\ Becomes(p, IdleWorker)
    /\ IF IsCurrent(p)
       THEN policy' = [policy EXCEPT ![p].phase = "gone"] /\ UNCHANGED queue
       ELSE queue' = queue \cup {p} /\ UNCHANGED policy
    /\ UNCHANGED << status, webhook, policyServer, serverStatus, configMap, deployment,
                    replicaSets, pods, caches, serverQueue, serverWorker, faults >>

-----------------------------------------------------------------------------
(* Faults, MaxFaults of them at most.                                      *)

\* A call of a policy reconcile fails, the webhook's possibly after it took effect.
PolicyApiError(p) ==
    /\ faults < MaxFaults
    /\ faults' = faults + 1
    /\ \/ /\ worker[p].pc = "deployment"
          /\ Conclude(p, "pending")
          /\ UNCHANGED << webhook, queue >>
       \/ /\ worker[p].pc \in {"configMap", "pods"}
          /\ Conclude(p, "unreachable")
          /\ UNCHANGED << webhook, queue >>
       \/ /\ worker[p].pc = "webhook"
          /\ Conclude(p, "notRegistered")
          /\ webhook' \in {webhook, [webhook EXCEPT ![p] = ReconciledWebhook(p)]}
          /\ UNCHANGED queue
       \/ /\ worker[p].pc = "inspect" /\ StatusReadsFail
          /\ Becomes(p, [worker[p] EXCEPT !.pc = "update", !.upToDate = status[p].upToDate,
                                          !.mode = status[p].mode])
          /\ UNCHANGED << webhook, queue >>
       \/ /\ worker[p].pc \in {"update", "deleteWebhook", "removeFinalizer"}
          /\ Becomes(p, IdleWorker)
          /\ queue' = queue \cup {p}
          /\ UNCHANGED webhook
    /\ UNCHANGED << policy, status, policyServer, serverStatus, configMap, deployment,
                    replicaSets, pods, caches, serverQueue, serverWorker >>

\* A call of a PolicyServer reconcile fails: the conditions say so, if they can
\* be saved, and the reconcile is retried from its beginning.
ServerApiError ==
    /\ faults < MaxFaults
    /\ faults' = faults + 1
    /\ serverWorker.pc # "idle"
    /\ serverWorker' = IdleServerWorker
    /\ serverStatus' \in {FALSE, serverStatus}
    /\ serverQueue' = TRUE
    /\ queue' = IF serverStatus' = serverStatus THEN queue
                ELSE queue \cup findPoliciesForPolicyServer
    /\ UNCHANGED << policy, status, webhook, policyServer, configMap, deployment,
                    replicaSets, pods, caches, worker >>

\* The controller restarts: what it held in memory is gone, its informers list
\* everything afresh, and every object is enqueued.
Crash ==
    /\ faults < MaxFaults
    /\ faults' = faults + 1
    /\ worker' = [p \in Policies |-> IdleWorker]
    /\ serverWorker' = IdleServerWorker
    /\ policyCache' = policy
    /\ policyServerCache' = policyServer
    /\ replicaSetCache' = deployment.revision
    /\ podCache' = ListedPods
    /\ webhookCache' = webhook
    /\ queue' = { p \in Policies : policy[p].phase \in {"live", "deleting"} }
    /\ serverQueue' = policyServer
    /\ UNCHANGED cluster

-----------------------------------------------------------------------------
ReconcilePolicyServer ==
    \/ StartPolicyServerReconcile
    \/ ReconcilePolicyServerConfigMap
    \/ ReconcilePolicyServerDeployment
    \/ UpdatePolicyServerStatus

ReconcilePolicy(p) ==
    \/ StartReconciling(p)
    \/ GetDeployment(p)
    \/ GetConfigMap(p)
    \/ ListReplicaSetsAndPods(p)
    \/ ReconcileWebhookConfiguration(p)
    \/ SetPolicyStatus(p)
    \/ UpdateStatus(p)
    \/ DeleteWebhook(p)
    \/ RemoveFinalizer(p)

User ==
    \/ CreatePolicyServer
    \/ \E p \in Policies : WritePolicy(p) \/ DeletePolicy(p) \/ RemoveFinalizerByHand(p)

Informers ==
    \/ SyncPolicyServer
    \/ SyncPods
    \/ SyncReplicaSets
    \/ \E p \in Policies : SyncPolicy(p) \/ SyncWebhook(p)

Kubernetes ==
    \/ RollOut
    \/ \E v \in replicaSets : ScaleDown(v)
    \/ \E k \in Slots : \E v \in replicaSets : CreatePod(k, v)
    \/ \E k \in Slots : StartPod(k) \/ PodBecomesReady(k) \/ ReplacePod(k)

Faults ==
    \/ Crash
    \/ ServerApiError
    \/ \E k \in Slots : EvictPod(k)
    \/ \E p \in Policies : PolicyApiError(p)

Next ==
    \/ User
    \/ Informers
    \/ Kubernetes
    \/ ReconcilePolicyServer
    \/ \E p \in Policies : ReconcilePolicy(p)
    \/ Faults

Spec == Init /\ [][Next]_vars

\* The work queues hand out what is in them, calls return, informers receive
\* their events and Kubernetes completes a rollout.  Users owe nothing, and a
\* crash or an error need never happen.
Fairness ==
    /\ WF_vars(ReconcilePolicyServer)
    /\ \A p \in Policies : WF_vars(ReconcilePolicy(p))
    /\ WF_vars(SyncPolicyServer) /\ WF_vars(SyncPods) /\ WF_vars(SyncReplicaSets)
    /\ \A p \in Policies : WF_vars(SyncPolicy(p)) /\ WF_vars(SyncWebhook(p))
    /\ WF_vars(RollOut)
    /\ WF_vars(\E v \in replicaSets : ScaleDown(v))
    /\ \A k \in Slots : /\ WF_vars(CreatePod(k, deployment.revision))
                        /\ WF_vars(StartPod(k)) /\ WF_vars(PodBecomesReady(k))
                        /\ WF_vars(ReplacePod(k))

FairSpec == Spec /\ Fairness

-----------------------------------------------------------------------------
(* What the controllers promise.                                           *)

Started(k)   == pods[k].loaded # 0
Ready(k)     == pods[k].ready
Serves(k, p) == configMap[pods[k].loaded][p] # None
Served(p)    == \A k \in Slots : Ready(k) => Serves(k, p)

\* A webhook sends admission reviews to a policy only while every ready pod of
\* the PolicyServer serves it: otherwise requests are rejected, or let through,
\* by a pod that does not know the policy.  The gate is isPolicyUniquelyReachable
\* (policystatus_utils.go:88), which decides from caches that lag, some calls
\* before the webhook is created, and is not asked again when pods come and go.
WebhookOnlyForServedPolicy ==
    \A p \in Policies : webhook[p] # None /\ policy[p].phase = "live" => Served(p)

\* Once a policy is in the ConfigMap, no reconcile of the PolicyServer drops it
\* again while the policy exists (reconciler.go:259, policy-server-configmap.go:69):
\* GetPolicies reads caches that a restart rebuilds.
ConfiguredPolicyStays ==
    [][\A p \in Policies : p \in Configured /\ policy'[p].phase = "live" => p \in Configured']_vars

\* A policy whose status says PolicyActive has a webhook (policy_utils.go:154):
\* the saved status is of an earlier moment, and reconciles fail in between.
ActivePolicyIsRegistered ==
    \A p \in Policies : status[p].active /\ policy[p].phase = "live" => webhook[p] # None

\* A status of PolicyUniquelyReachable and PolicyActive is saved only for a policy
\* that all ready pods serve at that moment (policy_utils.go:76-79).
SavedReachableIsServed ==
    [][\A p \in Policies : SavesStatus(p) /\ PolicyActive(p) /\ UpdateStatus(p) => Served(p)]_vars

\* A policy being deleted disappears in the end (policy_utils.go:180-195).
DeletionCompletes ==
    \A p \in Policies : policy[p].phase = "deleting" ~> policy[p].phase = "gone"

\* Something leads to another reconcile of p, or of the PolicyServer, or one is under way.
UnderWay(p)    == p \in queue \/ policyCache[p] # policy[p] \/ worker[p].pc # "idle"
ServerUnderWay == serverQueue \/ serverWorker.pc # "idle" \/ policyServerCache # policyServer

\* The deletion of a policy is never forgotten (policy_utils.go:180-195).
DeletionStaysUnderWay ==
    \A p \in Policies : policy[p].phase = "deleting" => UnderWay(p)

\* Kubernetes has nothing left to do, and the controller knows.
RolledOut ==
    /\ deployment.revision = deployment.version /\ podCache = ListedPods
    /\ \A k \in Slots : pods[k].version = deployment.revision /\ Ready(k)

\* No edit gives the webhook of a policy back the rules that an earlier one has changed.
RulesApart ==
    \A i, j, g \in Gens : i <= j /\ j <= g /\ Rules[i] = Rules[g] => Rules[j] = Rules[g]

\* An error that setPolicyStatus returned is dropped (policy_utils.go:76).
StatusIsExact == ~StatusReadsFail \/ faults = 0

\* The webhook and the pods have the last spec of p, and its status says so.
Enforced(p) ==
    /\ RulesApart => webhook[p] = Rules[policy[p].gen]
    /\ \A k \in Slots : configMap[pods[k].loaded][p] = Entry[policy[p].gen]
    /\ status[p].policyStatus = "active" /\ status[p].active /\ status[p].reachable
    /\ StatusIsExact => status[p].mode = Entry[policy[p].gen] /\ status[p].upToDate

\* When nothing leads to another reconcile of the PolicyServer or of a live policy bound
\* to it, and the rollout is complete, the policy is enforced with its last spec, and its
\* status says so: the reconciles that end without a requeue (policy_utils.go:92-157) are
\* followed by an event whenever they came too early.  An edit and its reversal that the
\* webhook cache misses are excepted (validating-webhook.go:50), and so are mode and
\* version in the status after an error that setPolicyStatus may have returned.
RestMeansEnforced ==
    policyServer /\ ~ServerUnderWay /\ RolledOut =>
        \A p \in Bound : policy[p].phase = "live" /\ ~UnderWay(p) => Enforced(p)

\* When users leave the cluster alone, the pods get ready and every policy bound to the
\* PolicyServer ends up enforced with its last spec, with the exceptions that
\* RestMeansEnforced makes, by the events and the requeues of the code alone
\* (policy_utils.go:113,127, the three SetupWithManager): whatever failed between the
\* patches of ConfigMap and Deployment, and however early the policy was reconciled.
PoliciesSettle ==
    <>[](policyServer =>
           \A p \in Bound : policy[p].phase = "live" => (\A k \in Slots : Ready(k)) /\ Enforced(p))

-----------------------------------------------------------------------------
(* The promise of PolicyRegistration, kept.                                *)

Registration == INSTANCE PolicyRegistration WITH
    offered    <- Configured,
    up         <- { k \in Slots : Started(k) },
    serving    <- [k \in Slots |-> IF Started(k) THEN { p \in Policies : Serves(k, p) } ELSE {}],
    registered <- { p \in Policies : webhook[p] # None },
    retired    <- { p \in Policies : policy[p].phase \in {"deleting", "gone"} }

\* The reconcilers, split at their API calls and reading caches that lag, with
\* crashes and errors, implement the registration gate (policy_utils.go:84-157).
ImplementsRegistration == Registration!Spec

-----------------------------------------------------------------------------
(* The inductive invariant behind WebhookOnlyForServedPolicy: why the gate  *)
(* may decide from the caches.                                              *)

Retained(p) == policy[p].phase \in {"absent", "live"}

\* A reconcile under way holds a policy that existed.
WorkersHoldPolicies ==
    \A p \in Policies : worker[p].pc # "idle" =>
        /\ worker[p].seen.phase \in {"live", "deleting"}
        /\ policy[p].phase # "absent"

\* The Deployment controller never runs ahead of the Deployment.
RevisionFollowsVersion == deployment.revision <= deployment.version

\* The caches never show a policy before it is created.
CacheFollowsPolicy ==
    \A p \in Policies : policy[p].phase = "absent" => policyCache[p].phase = "absent"

\* What is in the ConfigMap, or about to be, was listed from the cache, which
\* still shows it.
ConfigComesFromCache ==
    \A p \in Policies : Retained(p) =>
        /\ p \in Configured => p \in Bound /\ policyCache[p].phase = "live"
        /\ serverWorker.pc = "configMap" =>
              /\ p \in Configured => serverWorker.desired[p] # None
              /\ serverWorker.desired[p] # None => p \in Bound /\ policyCache[p].phase = "live"

\* So each ConfigMap holds the policies of those before it.
ConfigGrows ==
    \A p \in Policies : Retained(p) =>
        \A v \in 1 .. Len(configMap) : \A w \in v .. Len(configMap) :
            configMap[v][p] # None => configMap[w][p] # None

\* A pod loads a ConfigMap no older than the one its ReplicaSet was made for.
PodsLoadTheirVersion ==
    \A k \in Slots :
        /\ pods[k].version \in Versions /\ pods[k].loaded \in Versions
        /\ podCache[k].version \in Versions
        /\ Started(k) => pods[k].version # 0 /\ pods[k].version <= pods[k].loaded
        /\ Ready(k) => Started(k)

\* The cache may show this pod before it was ready.
SeenUnready(k) == podCache[k].version = pods[k].version /\ ~podCache[k].ready

\* A started pod that the cache does not show loaded its ConfigMap after every pod
\* the cache shows was created.
UnseenPodsAreNewer ==
    \A k \in Slots : Started(k) /\ ListedPods[k] # podCache[k] /\ ~SeenUnready(k) =>
        \A j \in Slots : podCache[j].version <= pods[k].loaded

\* What each step of isPolicyUniquelyReachable has established, and keeps.
GateHolds ==
    \A p \in Policies :
        /\ worker[p].pc = "pods" =>
              /\ worker[p].version \in 1 .. Len(configMap)
              /\ Retained(p) => configMap[worker[p].version][p] # None
        /\ worker[p].pc = "webhook" \/ webhook[p] # None =>
              (Retained(p) => p \in Configured /\ \A k \in Slots : Started(k) => Serves(k, p))

\* A policy that is being deleted stays so, and only then is its webhook deleted.
WorkersFollowPhase ==
    \A p \in Policies :
        IF worker[p].pc \in {"deleteWebhook", "removeFinalizer"}
        THEN policy[p].phase \in {"deleting", "gone"} /\ worker[p].outcome = "none"
        ELSE worker[p].pc # "idle" => worker[p].seen.phase = "live"

\* What a reconcile found out, and what was saved of it, is still so.
OutcomesHold ==
    \A p \in Policies :
        /\ worker[p].outcome = "registered" => webhook[p] # None
        /\ status[p].active /\ Retained(p) => webhook[p] # None

IInv ==
    /\ TypeOK
    /\ WorkersHoldPolicies
    /\ RevisionFollowsVersion
    /\ CacheFollowsPolicy
    /\ ConfigComesFromCache
    /\ ConfigGrows
    /\ PodsLoadTheirVersion
    /\ UnseenPodsAreNewer
    /\ GateHolds
    /\ WorkersFollowPhase
    /\ OutcomesHold

-----------------------------------------------------------------------------
(* The second inductive invariant, on top of IInv: why no controller rests  *)
(* too early.                                                               *)

\* Caches and copies are of the past; only a PolicyServer that is known is reconciled.
CopiesAreOfThePast ==
    /\ policyServerCache => policyServer
    /\ serverStatus \/ serverWorker.pc # "idle" => policyServerCache
    /\ \A p \in Policies :
          /\ policyCache[p].gen <= policy[p].gen
          /\ policyCache[p].phase = "deleting" => policy[p].phase \in {"deleting", "gone"}
          /\ worker[p].pc # "idle" => worker[p].seen.gen <= policy[p].gen
          /\ worker[p].revision <= deployment.version

\* What a reconcile of the PolicyServer has passed is as the cache says, or the event
\* that changed the cache has enqueued it.
ServerPassed ==
    \/ serverQueue \/ ~policyServerCache
    \/ /\ IF serverWorker.pc = "configMap" THEN serverWorker.desired = GetPolicies
          ELSE configMap # << >> /\ configMap[Len(configMap)] = GetPolicies
       /\ serverWorker.pc \in {"idle", "status"} => deployment.version = Len(configMap)

\* The webhook of a policy follows its specs, the cached one follows the webhook.
WebhookFollows(p) ==
    IF webhook[p] = None THEN webhookCache[p] = None
    ELSE \E i, j \in Gens :
            /\ i <= j /\ j <= policy[p].gen
            /\ worker[p].pc # "idle" => j <= worker[p].seen.gen
            /\ webhook[p] = Rules[j] /\ webhookCache[p] \in {None, Rules[i]}

\* The PolicyServer that p waits for is still to be reconciled, and lists p.
ServerToCome(p) ==
    policyServerCache =>
        /\ ~serverStatus
        /\ serverWorker.pc = "idle" => serverQueue
        /\ serverWorker.pc = "configMap" => serverWorker.desired[p] # None
        /\ serverWorker.pc \in {"deployment", "status"} => p \in Configured

\* Every pod that the cache shows is of the version at which the gate was passed.
GateStays(v) ==
    /\ Slots # {} /\ v \in 1 .. deployment.version
    /\ \A k \in Slots : podCache[k] # Unlisted => podCache[k].version = v

\* The webhook is that of the spec that was seen; mode and version in the status are
\* right until the next ConfigMap.
Registered(p, gen) == RulesApart => webhook[p] = Rules[gen]
Reported(p, v, mode, upToDate) ==
    v = Len(configMap) /\ StatusIsExact => mode = configMap[v][p] /\ upToDate

\* A reconcile of a live policy ends in a requeue, or in what may stay, unless
\* something else leads to the next one.
OutcomeStays(p) ==
    LET w == worker[p] IN
    \/ p \in queue \/ policyCache[p] # policy[p] \/ w.seen # policy[p]
    \/ w.pc \in {"deployment", "configMap", "pods"}
    \/ w.pc \in {"inspect", "update"} /\ Requeues(w.outcome)
    \/ w.pc \in {"inspect", "update"} /\ w.outcome = "scheduled" /\ ServerToCome(p)
    \/ \E v \in 1 .. deployment.version :
          /\ GateStays(v)
          /\ w.pc # "webhook" => w.outcome = "registered" /\ Registered(p, w.seen.gen)
          /\ w.pc = "update" => Reported(p, v, w.mode, w.upToDate)

\* What was saved of a live policy may stay, unless something leads to the next reconcile.
StatusStays(p) ==
    \/ p \in queue \/ policyCache[p] # policy[p]
    \/ ServerToCome(p)
    \/ /\ status[p].policyStatus = "active" /\ status[p].active /\ status[p].reachable
       /\ Registered(p, policy[p].gen)
       /\ \E v \in 1 .. deployment.version :
             GateStays(v) /\ Reported(p, v, status[p].mode, status[p].upToDate)

ProgressInv ==
    /\ CopiesAreOfThePast
    /\ ServerPassed
    /\ \A p \in Policies : Retained(p) => WebhookFollows(p)
    /\ \A p \in Bound : policy[p].phase = "live" =>
          IF worker[p].pc = "idle" THEN StatusStays(p) ELSE OutcomeStays(p)
    /\ DeletionStaysUnderWay

-----------------------------------------------------------------------------
(* What a comment of the repository says, and the code does not do: the     *)
(* property of a run that violates it.                                      *)

\* apis/policies/v1/policy.go:49-54: after a policy has been deployed or modified,
\* PolicyUniquelyReachable means that "only the latest instance of the policy can
\* be reached".
ReachableMeansLatest ==
    [][\A p \in Policies :
          SavesStatus(p) /\ worker[p].outcome = "registered" /\ UpdateStatus(p) =>
             \A k \in Slots : Ready(k) =>
                configMap[pods[k].loaded][p] = Entry[policy[p].gen]]_vars
=============================================================================
