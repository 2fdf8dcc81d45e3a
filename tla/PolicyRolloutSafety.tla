------------------------- MODULE PolicyRolloutSafety -------------------------
(***************************************************************************)
(* The registration gate is sound: WebhookOnlyForServedPolicy holds in     *)
(* every reachable state, for any number of policies, pods, specs, crashes *)
(* and API errors.  The argument is the inductive invariant IInv of        *)
(* PolicyRollout.  From it follows that PolicyRollout implements           *)
(* PolicyRegistration.                                                     *)
(***************************************************************************)
EXTENDS PolicyRolloutProofs

\* The parts of IInv that are not about types.
Safe ==
    /\ CacheFollowsPolicy
    /\ ConfigComesFromCache
    /\ ConfigGrows
    /\ PodsLoadTheirVersion
    /\ UnseenPodsAreNewer
    /\ GateHolds

-----------------------------------------------------------------------------
(* What a step may leave alone. *)

\* What holds of the ConfigMap does so while it and its readers stay.
LEMMA ConfigFrame ==
  ASSUME Safe, PolicyAges, UNCHANGED << configMap, policyCache, serverWorker >>
  PROVE  CacheFollowsPolicy' /\ ConfigComesFromCache' /\ ConfigGrows'
<1>1. CacheFollowsPolicy'
  BY DEF Safe, CacheFollowsPolicy, PolicyAges
<1>2. ConfigComesFromCache'
  BY DEF Safe, ConfigComesFromCache, PolicyAges, Configured
<1>3. ConfigGrows'
  BY DEF Safe, ConfigGrows, PolicyAges
<1> QED
  BY <1>1, <1>2, <1>3

\* What holds of the pods does so while they and their cache stay.
LEMMA PodFrame ==
  ASSUME Safe, UNCHANGED << pods, podCache, configMap >>
  PROVE  PodsLoadTheirVersion' /\ UnseenPodsAreNewer'
  BY DEF Safe, PodsLoadTheirVersion, UnseenPodsAreNewer, SeenUnready, Started, Ready, ListedPods,
     Versions

\* What the gate has established stays while ConfigMap and pods do.
LEMMA GateFrame ==
  ASSUME Safe, PolicyAges, UNCHANGED << configMap, pods >>,
         \A p \in Policies :
            /\ worker'[p].pc = "pods" =>
                  worker[p].pc = "pods" /\ worker'[p].version = worker[p].version
            /\ worker'[p].pc = "webhook" \/ webhook'[p] # None =>
                  worker[p].pc = "webhook" \/ webhook[p] # None
  PROVE  GateHolds'
  BY DEF Safe, GateHolds, PolicyAges, Started, Serves, Configured

\* A step that at most ages policies, or moves queues, statuses and faults, keeps Safe.
LEMMA WholeFrame ==
  ASSUME Safe, PolicyAges,
         UNCHANGED << configMap, policyCache, serverWorker, pods, podCache, worker, webhook >>
  PROVE  Safe'
<1>1. GateHolds'
  BY GateFrame
<1> QED
  BY <1>1, ConfigFrame, PodFrame DEF Safe

-----------------------------------------------------------------------------
(* The users. *)

\* A new policy is not in the cache, a deleted one is no longer promised anything.
LEMMA UserSafe == ASSUME TypeInv, Safe, User PROVE Safe'
<1>1. CASE CreatePolicyServer
  BY <1>1, AgesFrame, WholeFrame DEF CreatePolicyServer, caches
<1>2. ASSUME NEW p \in Policies, WritesPolicy(p) PROVE Safe'
  BY <1>2, WriteAges, WholeFrame DEF WritesPolicy, caches
<1> QED
  BY <1>1, <1>2, UsersWrite DEF User

-----------------------------------------------------------------------------
(* The informers. *)

\* A policy the cache showed as live, and that is not being deleted, is live.
LEMMA CachedIsLive ==
  ASSUME TypeInv, Safe, NEW p \in Policies, Retained(p), policyCache[p].phase = "live"
  PROVE  policy[p].phase = "live"
  BY DEF Safe, CacheFollowsPolicy, Retained

\* The policy cache catches up: what it showed as live still is.
LEMMA SyncPolicySafe == ASSUME TypeInv, Safe, NEW p \in Policies, SyncPolicy(p) PROVE Safe'
<1>1. /\ UNCHANGED << policy, configMap, serverWorker, pods, podCache, worker, webhook >>
      /\ \A q \in Policies : policyCache'[q] = policyCache[q] \/ policyCache'[q] = policy[q]
  BY DEF SyncPolicy, cluster, TypeInv, TypeOK
<1>2. CacheFollowsPolicy'
  BY <1>1 DEF Safe, CacheFollowsPolicy
<1>3. ConfigComesFromCache'
  <2>1. \A q \in Policies : Retained(q) /\ policyCache[q].phase = "live"
                               => policyCache'[q].phase = "live"
    BY <1>1, CachedIsLive
  <2> QED
    BY <1>1, <2>1 DEF Safe, ConfigComesFromCache, Configured, Retained
<1>4. ConfigGrows'
  BY <1>1 DEF Safe, ConfigGrows, Retained
<1>5. GateHolds'
  BY <1>1, AgesFrame, GateFrame
<1> QED
  BY <1>1, <1>2, <1>3, <1>4, <1>5, PodFrame DEF Safe

\* The cache of the pods is what the pods are.
LEMMA PodsListed ==
  ASSUME TypeInv, Safe, podCache' = ListedPods, UNCHANGED << pods, configMap >>
  PROVE  PodsLoadTheirVersion' /\ UnseenPodsAreNewer'
<1>1. \A k \in Slots : ListedPods[k].version = pods[k].version
  BY DEF ListedPods
<1>2. PodsLoadTheirVersion'
  BY <1>1 DEF Safe, PodsLoadTheirVersion, Started, Ready, Versions
<1>3. ListedPods' = podCache'
  BY DEF ListedPods
<1>4. UnseenPodsAreNewer'
  BY <1>3 DEF UnseenPodsAreNewer
<1> QED
  BY <1>2, <1>4

\* Every cache may catch up at any moment.
LEMMA InformersSafe == ASSUME TypeInv, Safe, Informers PROVE Safe'
<1>1. CASE SyncPolicyServer
  BY <1>1, AgesFrame, WholeFrame DEF SyncPolicyServer, cluster
<1>2. CASE SyncPods
  <2>1. /\ UNCHANGED << policy, configMap, policyCache, serverWorker, pods, worker, webhook >>
        /\ podCache' = ListedPods
    BY <1>2 DEF SyncPods, cluster
  <2>2. GateHolds'
    BY <2>1, AgesFrame, GateFrame
  <2> QED
    BY <2>1, <2>2, AgesFrame, ConfigFrame, PodsListed DEF Safe
<1>3. CASE SyncReplicaSets
  BY <1>3, AgesFrame, WholeFrame DEF SyncReplicaSets, cluster
<1>4. ASSUME NEW p \in Policies, SyncWebhook(p) PROVE Safe'
  BY <1>4, AgesFrame, WholeFrame DEF SyncWebhook, cluster
<1> QED
  BY <1>1, <1>2, <1>3, <1>4, SyncPolicySafe DEF Informers

-----------------------------------------------------------------------------
(* Kubernetes. *)

\* A pod that goes takes nothing with it; a pod that comes is not ready yet.
LEMMA UnreadyPodSafe ==
  ASSUME TypeInv, Safe, NEW k \in Slots, NEW v \in Versions,
         pods' = [pods EXCEPT ![k] = [version |-> v, loaded |-> 0, ready |-> FALSE]],
         UNCHANGED << policy, configMap, policyCache, serverWorker, podCache, worker, webhook >>
  PROVE  Safe'
<1>1. /\ ~Started(k)' /\ ~Ready(k)'
      /\ pods'[k].version = v /\ pods'[k].loaded = 0
      /\ \A j \in Slots \ {k} : pods'[j] = pods[j]
      /\ \A j \in Slots : Started(j)' => Started(j) /\ pods'[j] = pods[j]
  BY DEF Started, Ready, TypeInv, TypeOK
<1>2. PodsLoadTheirVersion'
  <2>1. 0 \in Versions /\ Versions' = Versions
    BY DEF Versions, TypeInv, TypeOK
  <2>2. ASSUME NEW j \in Slots
        PROVE  /\ pods'[j].version \in Versions /\ pods'[j].loaded \in Versions
               /\ Started(j)' => pods'[j].version # 0 /\ pods'[j].version <= pods'[j].loaded
               /\ Ready(j)' => Started(j)'
    <3>1. CASE j = k
      BY <1>1, <2>1, <3>1
    <3>2. CASE j # k
      BY <1>1, <3>2 DEF Safe, PodsLoadTheirVersion, Started, Ready
    <3> QED
      BY <3>1, <3>2
  <2>3. \A j \in Slots : podCache'[j].version \in Versions'
    BY <2>1 DEF Safe, PodsLoadTheirVersion
  <2> QED
    BY <2>1, <2>2, <2>3 DEF PodsLoadTheirVersion
<1>3. UnseenPodsAreNewer'
  <2>1. ASSUME NEW j \in Slots, Started(j)', ListedPods'[j] # podCache'[j], ~SeenUnready(j)',
               NEW i \in Slots
        PROVE  podCache'[i].version <= pods'[j].loaded
    <3>1. Started(j) /\ pods'[j] = pods[j]
      BY <1>1, <2>1
    <3>2. ListedPods[j] # podCache[j] /\ ~SeenUnready(j)
      BY <2>1, <3>1 DEF ListedPods, SeenUnready
    <3> QED
      BY <3>1, <3>2 DEF Safe, UnseenPodsAreNewer
  <2> QED
    BY <2>1 DEF UnseenPodsAreNewer
<1>4. GateHolds'
  <2>1. \A p \in Policies, j \in Slots : Serves(j, p) /\ pods'[j] = pods[j] => Serves(j, p)'
    BY DEF Serves
  <2> QED
    BY <1>1, <2>1 DEF Safe, GateHolds, Retained, Configured
<1> QED
  BY <1>2, <1>3, <1>4, AgesFrame, ConfigFrame DEF Safe

\* A pod that starts loads a ConfigMap no older than any its cache knows of, and
\* so serves every registered policy.
LEMMA StartPodSafe == ASSUME TypeInv, Safe, NEW k \in Slots, StartPod(k) PROVE Safe'
<1>1. UNCHANGED << policy, configMap, policyCache, serverWorker, podCache, worker, webhook >>
  BY DEF StartPod, caches
<1>2. /\ \A j \in Slots \ {k} : pods'[j] = pods[j]
      /\ pods'[k].version = pods[k].version /\ pods'[k].loaded = Len(configMap)
      /\ pods'[k].ready = pods[k].ready
      /\ Len(configMap) \in Nat
  BY DEF StartPod, TypeInv, TypeOK, PodType
<1>3. pods[k].version \in Versions \ {0} /\ pods[k].loaded = 0
  <2>1. ~Ready(k) /\ pods[k].loaded = 0
    BY DEF StartPod, Safe, PodsLoadTheirVersion, Started
  <2>2. pods[k].version # 0
    BY <2>1 DEF StartPod, Vacant, TypeInv, TypeOK, PodType, Ready
  <2> QED
    BY <2>1, <2>2 DEF Safe, PodsLoadTheirVersion
<1>4. PodsLoadTheirVersion'
  BY <1>1, <1>2, <1>3 DEF Safe, PodsLoadTheirVersion, Started, Ready, Versions
<1>5. UnseenPodsAreNewer'
  <2>1. \A j \in Slots : podCache[j].version <= Len(configMap)
    BY <1>2 DEF Safe, PodsLoadTheirVersion, Versions
  <2>2. \A j \in Slots \ {k} : ListedPods'[j] = ListedPods[j]
    BY <1>2 DEF ListedPods
  <2> QED
    BY <1>1, <1>2, <2>1, <2>2 DEF Safe, UnseenPodsAreNewer, Started, SeenUnready
<1>6. GateHolds'
  <2>1. ASSUME NEW p \in Policies, p \in Configured, NEW j \in Slots, Started(j)',
               Started(j) => Serves(j, p)
        PROVE  Serves(j, p)'
    <3>1. configMap[Len(configMap)][p] # None
      BY <2>1 DEF Configured
    <3> QED
      BY <1>1, <1>2, <2>1, <3>1 DEF Serves, Started
  <2> QED
    BY <1>1, <2>1 DEF Safe, GateHolds, Retained, Configured
<1> QED
  BY <1>1, <1>4, <1>5, <1>6, AgesFrame, ConfigFrame DEF Safe

\* A pod that becomes ready serves what it loaded when it started.
LEMMA PodReadySafe == ASSUME TypeInv, Safe, NEW k \in Slots, PodBecomesReady(k) PROVE Safe'
<1>1. UNCHANGED << policy, configMap, policyCache, serverWorker, podCache, worker, webhook >>
  BY DEF PodBecomesReady, caches
<1>2. /\ \A j \in Slots \ {k} : pods'[j] = pods[j]
      /\ pods'[k].version = pods[k].version /\ pods'[k].loaded = pods[k].loaded
      /\ pods'[k].ready = TRUE /\ pods[k].ready = FALSE
      /\ pods[k].loaded # 0
  BY DEF PodBecomesReady, TypeInv, TypeOK, PodType
<1>3. \A j \in Slots : pods'[j].version = pods[j].version /\ pods'[j].loaded = pods[j].loaded
  BY <1>2
<1>4. PodsLoadTheirVersion'
  BY <1>1, <1>2, <1>3 DEF Safe, PodsLoadTheirVersion, Started, Ready, Versions
<1>5. UnseenPodsAreNewer'
  <2>1. ASSUME NEW j \in Slots, Started(j)', ListedPods'[j] # podCache[j], ~SeenUnready(j)'
        PROVE  Started(j) /\ ListedPods[j] # podCache[j] /\ ~SeenUnready(j)
    <3>1. Started(j) /\ ~SeenUnready(j)
      BY <1>1, <1>3, <2>1 DEF Started, SeenUnready
    <3>2. CASE j # k
      BY <1>2, <2>1, <3>1, <3>2 DEF ListedPods
    <3>3. CASE j = k
      <4>1. ListedPods[k].version = pods[k].version /\ ListedPods[k].ready = FALSE
        BY <1>2 DEF ListedPods
      <4> QED
        BY <3>1, <3>3, <4>1 DEF SeenUnready
    <3> QED
      BY <3>2, <3>3
  <2> QED
    BY <1>1, <1>3, <2>1 DEF Safe, UnseenPodsAreNewer
<1>6. GateHolds'
  BY <1>1, <1>3 DEF Safe, GateHolds, Retained, Configured, Started, Serves
<1> QED
  BY <1>1, <1>4, <1>5, <1>6, AgesFrame, ConfigFrame DEF Safe

\* Rollouts and pods come and go past the gate.
LEMMA KubernetesSafe == ASSUME TypeInv, Safe, Kubernetes PROVE Safe'
<1>1. 0 \in Versions /\ replicaSets \subseteq Versions
  BY DEF Versions, TypeInv, TypeOK
<1>2. CASE RollOut
  BY <1>2, AgesFrame, WholeFrame DEF RollOut, caches
<1>3. ASSUME NEW v \in replicaSets, ScaleDown(v) PROVE Safe'
  BY <1>3, AgesFrame, WholeFrame DEF ScaleDown, caches
<1>4. ASSUME NEW k \in Slots, NEW v \in replicaSets, CreatePod(k, v) PROVE Safe'
  BY <1>1, <1>4, UnreadyPodSafe DEF CreatePod, caches
<1>5. ASSUME NEW k \in Slots, ReplacePod(k) PROVE Safe'
  BY <1>1, <1>5, UnreadyPodSafe DEF ReplacePod, Vacant, caches
<1> QED
  BY <1>2, <1>3, <1>4, <1>5, StartPodSafe, PodReadySafe DEF Kubernetes

-----------------------------------------------------------------------------
(* The PolicyServer reconciler. *)

\* A step that leaves the ConfigMap, and lists nothing that waits to be written.
LEMMA ServerWorkerSafe ==
  ASSUME TypeInv, Safe, serverWorker'.pc # "configMap",
         UNCHANGED << policy, configMap, policyCache, pods, podCache, worker, webhook >>
  PROVE  Safe'
<1>1. CacheFollowsPolicy'
  BY DEF Safe, CacheFollowsPolicy
<1>2. ConfigComesFromCache'
  BY DEF Safe, ConfigComesFromCache, Configured, Retained
<1>3. ConfigGrows'
  BY DEF Safe, ConfigGrows, Retained
<1>4. GateHolds'
  BY AgesFrame, GateFrame
<1> QED
  BY <1>1, <1>2, <1>3, <1>4, PodFrame DEF Safe

\* What is listed contains all that is configured and not being deleted.
LEMMA ListingSafe ==
  ASSUME TypeInv, Safe, serverWorker' = [pc |-> "configMap", desired |-> GetPolicies],
         UNCHANGED << policy, configMap, policyCache, pods, podCache, worker, webhook >>
  PROVE  Safe'
<1>1. ASSUME NEW p \in Policies
      PROVE  serverWorker'.desired[p] # None <=> p \in Bound /\ policyCache[p].phase = "live"
  <2>1. policyCache[p].phase = "live" => policyCache[p].gen \in Gens
    BY DEF TypeInv, TypeOK, Objects, NoPolicy
  <2> QED
    BY <2>1, ConstantsAssumption DEF GetPolicies
<1>2. ConfigComesFromCache'
  BY <1>1 DEF Safe, ConfigComesFromCache, Configured, Retained
<1>3. CacheFollowsPolicy' /\ ConfigGrows'
  BY DEF Safe, CacheFollowsPolicy, ConfigGrows, Retained
<1>4. GateHolds'
  BY AgesFrame, GateFrame
<1> QED
  BY <1>2, <1>3, <1>4, PodFrame DEF Safe

\* A new ConfigMap drops no policy that stays.
LEMMA ConfigMapSafe == ASSUME TypeInv, Safe, ReconcilePolicyServerConfigMap PROVE Safe'
<1> DEFINE n == Len(configMap)
           new == serverWorker.desired
<1>1. UNCHANGED << policy, policyCache, pods, podCache, worker, webhook >>
  BY DEF ReconcilePolicyServerConfigMap, caches
<1>2. CASE ~shouldUpdatePolicyMap(new)
  <2>1. UNCHANGED configMap /\ serverWorker'.pc # "configMap"
    BY <1>2 DEF ReconcilePolicyServerConfigMap, IdleServerWorker
  <2> QED
    BY <1>1, <2>1, ServerWorkerSafe
<1>3. CASE shouldUpdatePolicyMap(new)
  <2>1. configMap' = Append(configMap, new) /\ serverWorker'.pc # "configMap"
    BY <1>3 DEF ReconcilePolicyServerConfigMap, IdleServerWorker
  <2>2. /\ n \in Nat /\ Len(configMap') = n + 1 /\ configMap'[n + 1] = new
        /\ \A v \in 1 .. n : configMap'[v] = configMap[v]
    BY <2>1 DEF TypeInv, TypeOK
  <2>3. configMap' # << >>
    BY <2>2
  <2> HIDE DEF n, new
  <2>4. Configured' = { p \in Policies : new[p] # None }
    BY <2>2, <2>3 DEF Configured
  <2>5. \A p \in Policies : Retained(p) =>
            /\ p \in Configured => new[p] # None
            /\ new[p] # None => p \in Bound /\ policyCache[p].phase = "live"
    BY DEF Safe, ConfigComesFromCache, ReconcilePolicyServerConfigMap, new
  <2>6. CacheFollowsPolicy'
    BY <1>1 DEF Safe, CacheFollowsPolicy
  <2>7. ConfigComesFromCache'
    BY <1>1, <2>1, <2>4, <2>5 DEF ConfigComesFromCache, Retained
  <2>8. ConfigGrows'
    <3>1. ASSUME NEW p \in Policies, Retained(p),
                 NEW v \in 1 .. n + 1, NEW w \in v .. n + 1, configMap'[v][p] # None
          PROVE  configMap'[w][p] # None
      <4>1. CASE w \in 1 .. n
        BY <2>2, <3>1, <4>1 DEF Safe, ConfigGrows, n
      <4>2. CASE w = n + 1 /\ v \in 1 .. n
        <5>1. configMap[v][p] # None /\ n \in v .. n
          BY <2>2, <3>1, <4>2
        <5>2. configMap[n][p] # None /\ configMap # << >>
          BY <2>2, <3>1, <4>2, <5>1 DEF Safe, ConfigGrows, n
        <5> QED
          BY <2>2, <2>5, <3>1, <4>2, <5>2 DEF Configured, n
      <4>3. CASE w = n + 1 /\ v = n + 1
        BY <3>1, <4>3
      <4> QED
        BY <2>2, <4>1, <4>2, <4>3
    <3> QED
      BY <1>1, <2>2, <3>1 DEF ConfigGrows, Retained
  <2>9. Versions \subseteq Versions'
    BY <2>2 DEF Versions, n
  <2>10. PodsLoadTheirVersion' /\ UnseenPodsAreNewer'
    <3>1. PodsLoadTheirVersion'
      BY <1>1, <2>9 DEF Safe, PodsLoadTheirVersion, Started, Ready
    <3>2. UnseenPodsAreNewer'
      BY <1>1 DEF Safe, UnseenPodsAreNewer, Started, SeenUnready, ListedPods
    <3> QED
      BY <3>1, <3>2
  <2>11. GateHolds'
    <3>1. ASSUME NEW p \in Policies, NEW k \in Slots, Started(k), Serves(k, p)
          PROVE  Serves(k, p)'
      <4>1. pods[k].loaded \in 1 .. n
        BY <2>2, <3>1 DEF Safe, PodsLoadTheirVersion, Started, Versions, n
      <4> QED
        BY <1>1, <2>2, <3>1, <4>1 DEF Serves
    <3>2. \A p \in Policies : Retained(p) /\ p \in Configured => p \in Configured'
      BY <2>4, <2>5
    <3>3. ASSUME NEW p \in Policies, worker'[p].pc = "pods"
          PROVE  /\ worker'[p].version \in 1 .. n + 1
                 /\ Retained(p) => configMap'[worker'[p].version][p] # None
      BY <1>1, <2>2, <3>3 DEF Safe, GateHolds, n
    <3> QED
      BY <1>1, <2>2, <3>1, <3>2, <3>3 DEF Safe, GateHolds, Retained, Started
  <2> QED
    BY <2>6, <2>7, <2>8, <2>10, <2>11 DEF Safe
<1> QED
  BY <1>2, <1>3

\* A ConfigMap written from a lagging cache still holds the policies of the last.
LEMMA PolicyServerSafe ==
  ASSUME TypeInv, Safe, ReconcilePolicyServer PROVE Safe'
<1>1. CASE StartPolicyServerReconcile
  <2>1. /\ UNCHANGED << policy, configMap, policyCache, pods, podCache, worker, webhook >>
        /\ \/ UNCHANGED serverWorker
           \/ serverWorker' = [pc |-> "configMap", desired |-> GetPolicies]
    BY <1>1 DEF StartPolicyServerReconcile, cluster, caches
  <2> QED
    BY <2>1, AgesFrame, WholeFrame, ListingSafe
<1>2. CASE ReconcilePolicyServerConfigMap
  BY <1>2, ConfigMapSafe
<1>3. CASE ReconcilePolicyServerDeployment
  <2>1. serverWorker'.pc # "configMap"
    BY <1>3 DEF ReconcilePolicyServerDeployment, TypeInv, TypeOK
  <2> QED
    BY <1>3, <2>1, ServerWorkerSafe DEF ReconcilePolicyServerDeployment, caches
<1>4. CASE UpdatePolicyServerStatus
  BY <1>4, ServerWorkerSafe DEF UpdatePolicyServerStatus, IdleServerWorker, caches
<1> QED
  BY <1>1, <1>2, <1>3, <1>4 DEF ReconcilePolicyServer

-----------------------------------------------------------------------------
(* The policy reconcilers. *)

\* A reconcile that neither passes the gate nor approaches it changes nothing of
\* what the gate is about; it may delete its webhook.
LEMMA WorkerSafe ==
  ASSUME TypeInv, Safe, PolicyAges, NEW p \in Policies, NEW w, Becomes(p, w),
         w.pc \notin {"pods", "webhook"},
         UNCHANGED << configMap, policyCache, serverWorker, pods, podCache >>,
         \A q \in Policies :
            webhook'[q] # None => worker[q].pc = "webhook" \/ webhook[q] # None
  PROVE  Safe'
<1>1. /\ worker'[p] = w
      /\ \A q \in Policies \ {p} : worker'[q] = worker[q]
  BY DEF Becomes, TypeInv, TypeOK
<1>2. GateHolds'
  BY <1>1, GateFrame
<1> QED
  BY <1>2, ConfigFrame, PodFrame DEF Safe

\* A reconcile that goes to its end passes no gate.
LEMMA ConcludeSafe ==
  ASSUME TypeInv, Safe, NEW p \in Policies, NEW o, Conclude(p, o),
         UNCHANGED << policy, configMap, policyCache, serverWorker, pods, podCache >>,
         \A q \in Policies :
            webhook'[q] # None => worker[q].pc = "webhook" \/ webhook[q] # None
  PROVE  Safe'
<1> DEFINE w == [worker[p] EXCEPT !.pc = "inspect", !.outcome = o, !.revision = 0, !.version = 0]
<1>1. worker[p] \in Workers
  BY DEF TypeInv, TypeOK
<1>2. w.pc = "inspect"
  BY <1>1 DEF Workers
<1>3. Becomes(p, w)
  BY DEF Conclude
<1> HIDE DEF w
<1> QED
  BY <1>2, <1>3, AgesFrame, WorkerSafe

\* The ConfigMap that the reconcile has seen holds the policy.
LEMMA GetConfigMapSafe == ASSUME TypeInv, Safe, NEW p \in Policies, GetConfigMap(p) PROVE Safe'
<1> DEFINE w == [worker[p] EXCEPT !.pc = "pods", !.version = Len(configMap)]
<1>1. /\ UNCHANGED << policy, configMap, policyCache, serverWorker, pods, podCache, webhook >>
      /\ \/ Conclude(p, "unreachable")
         \/ p \in Configured /\ Becomes(p, w)
  BY DEF GetConfigMap, isPolicyInConfigMap, cluster, caches
<1>2. CASE Conclude(p, "unreachable")
  BY <1>1, <1>2, ConcludeSafe
<1>3. CASE p \in Configured /\ Becomes(p, w)
  <2>1. w.pc = "pods" /\ w.version = Len(configMap)
    BY DEF TypeInv, TypeOK, Workers
  <2> HIDE DEF w
  <2>2. worker'[p] = w /\ \A q \in Policies \ {p} : worker'[q] = worker[q]
    BY <1>3 DEF Becomes, TypeInv, TypeOK
  <2>3. Len(configMap) \in 1 .. Len(configMap) /\ configMap[Len(configMap)][p] # None
    BY <1>3 DEF Configured, TypeInv, TypeOK
  <2>4. GateHolds'
    BY <1>1, <2>1, <2>2, <2>3 DEF Safe, GateHolds, Started, Serves, Configured, Retained
  <2> QED
    BY <1>1, <2>4, AgesFrame, ConfigFrame, PodFrame DEF Safe
<1> QED
  BY <1>1, <1>2, <1>3

\* The gate: if the cached pods are all ready and of the ReplicaSet made for a
\* ConfigMap that holds the policy, then every pod that has started serves it,
\* those that the cache does not show and those not yet ready included.
LEMMA GateOpens ==
  ASSUME TypeInv, Safe, NEW p \in Policies, worker[p].pc = "pods", Retained(p),
         isUniquelyReachable(worker[p].revision, worker[p].version)
  PROVE  p \in Configured /\ \A k \in Slots : Started(k) => Serves(k, p)
<1> DEFINE v == worker[p].version
           n == Len(configMap)
<1>1. v \in 1 .. n /\ n \in Nat /\ configMap[v][p] # None
  BY DEF Safe, GateHolds, TypeInv, TypeOK
<1>2. /\ \E j \in Slots : podCache[j].version = v
      /\ \A k \in Slots : podCache[k] # Unlisted => podCache[k].version = v /\ podCache[k].ready
  BY DEF isUniquelyReachable, isLatestReplicaSetFromPolicyServerDeployment, isPodReady
<1> HIDE DEF v
<1>3. \A i \in v .. n : configMap[i][p] # None
  BY <1>1 DEF Safe, ConfigGrows, n
<1>4. p \in Configured
  BY <1>1, <1>3 DEF Configured, n
<1>5. ASSUME NEW k \in Slots, Started(k) PROVE pods[k].loaded \in v .. n
  <2>1. pods[k].loaded \in 0 .. n /\ pods[k].version <= pods[k].loaded /\ pods[k].version # 0
    BY <1>5 DEF Safe, PodsLoadTheirVersion, Versions, n
  <2>2. pods[k].version \in Nat
    BY DEF TypeInv, TypeOK, PodType
  <2>3. CASE podCache[k].version = pods[k].version
    <3>1. pods[k].version = v
      BY <1>2, <2>1, <2>3 DEF Unlisted
    <3> QED
      BY <1>1, <2>1, <3>1
  <2>4. CASE podCache[k].version # pods[k].version
    <3>1. ~SeenUnready(k)
      BY <2>4 DEF SeenUnready
    <3>2. ListedPods[k] # podCache[k]
      BY <2>4 DEF ListedPods
    <3>3. PICK j \in Slots : podCache[j].version = v
      BY <1>2
    <3>4. v <= pods[k].loaded
      BY <1>5, <3>1, <3>2, <3>3 DEF Safe, UnseenPodsAreNewer
    <3> QED
      BY <1>1, <2>1, <3>4
  <2> QED
    BY <2>3, <2>4
<1>6. \A k \in Slots : Started(k) => Serves(k, p)
  BY <1>3, <1>5 DEF Serves
<1> QED
  BY <1>4, <1>6

\* The gate (policystatus_utils.go:103-130).
LEMMA ListReplicaSetsAndPodsSafe ==
  ASSUME TypeInv, Safe, NEW p \in Policies, ListReplicaSetsAndPods(p) PROVE Safe'
<1> DEFINE w == [worker[p] EXCEPT !.pc = "webhook", !.revision = 0, !.version = 0]
<1>1. /\ UNCHANGED << policy, configMap, policyCache, serverWorker, pods, podCache, webhook >>
      /\ worker[p].pc = "pods"
      /\ \/ Conclude(p, "unreachable")
         \/ isUniquelyReachable(worker[p].revision, worker[p].version) /\ Becomes(p, w)
  BY DEF ListReplicaSetsAndPods, cluster, caches
<1>2. CASE Conclude(p, "unreachable")
  BY <1>1, <1>2, ConcludeSafe
<1>3. CASE isUniquelyReachable(worker[p].revision, worker[p].version) /\ Becomes(p, w)
  <2>1. w.pc = "webhook"
    BY DEF TypeInv, TypeOK, Workers
  <2> HIDE DEF w
  <2>2. worker'[p] = w /\ \A q \in Policies \ {p} : worker'[q] = worker[q]
    BY <1>3 DEF Becomes, TypeInv, TypeOK
  <2>3. Retained(p) => p \in Configured /\ \A k \in Slots : Started(k) => Serves(k, p)
    BY <1>1, <1>3, GateOpens
  <2>4. GateHolds'
    BY <1>1, <2>1, <2>2, <2>3 DEF Safe, GateHolds, Started, Serves, Configured, Retained
  <2> QED
    BY <1>1, <2>4, AgesFrame, ConfigFrame, PodFrame DEF Safe
<1> QED
  BY <1>1, <1>2, <1>3

\* The steps of a policy reconcile.
LEMMA PolicySafe == ASSUME TypeInv, Safe, NEW p \in Policies, ReconcilePolicy(p) PROVE Safe'
<1>1. worker[p] \in Workers
  BY DEF TypeInv, TypeOK
<1>2. CASE StartReconciling(p)
  <2> DEFINE first == FirstStep(p)
             w == [IdleWorker EXCEPT !.seen = policy[p], !.pc = first.pc,
                                     !.outcome = first.outcome]
  <2>1. first.pc \in {"deleteWebhook", "inspect", "deployment"}
    BY DEF FirstStep
  <2>2. /\ UNCHANGED << policy, configMap, policyCache, serverWorker, pods, podCache, webhook >>
        /\ UNCHANGED worker \/ Becomes(p, w)
    BY <1>2 DEF StartReconciling, cluster, caches
  <2> HIDE DEF first
  <2>3. w.pc = first.pc
    BY DEF IdleWorker
  <2> HIDE DEF w
  <2> QED
    BY <2>1, <2>2, <2>3, AgesFrame, WholeFrame, WorkerSafe
<1>3. CASE GetDeployment(p)
  <2> DEFINE w == [worker[p] EXCEPT !.pc = "configMap", !.revision = deployment.revision]
  <2>1. w.pc = "configMap"
    BY <1>1 DEF Workers
  <2>2. /\ UNCHANGED << policy, configMap, policyCache, serverWorker, pods, podCache, webhook >>
        /\ Conclude(p, "pending") \/ Becomes(p, w)
    BY <1>3 DEF GetDeployment, cluster, caches
  <2> HIDE DEF w
  <2> QED
    BY <2>1, <2>2, AgesFrame, ConcludeSafe, WorkerSafe
<1>4. CASE ReconcileWebhookConfiguration(p)
  <2>1. /\ UNCHANGED << policy, configMap, policyCache, serverWorker, pods, podCache >>
        /\ worker[p].pc = "webhook"
        /\ Conclude(p, "notRegistered") \/ Conclude(p, "registered")
        /\ \A q \in Policies \ {p} : webhook'[q] = webhook[q]
    BY <1>4 DEF ReconcileWebhookConfiguration, caches, TypeInv, TypeOK
  <2> QED
    BY <2>1, ConcludeSafe
<1>5. CASE SetPolicyStatus(p)
  <2> DEFINE u == IF p \in Bound /\ deployment.version # 0
                  THEN deployment.version = Len(configMap) ELSE status[p].upToDate
             m == IF p \in Bound /\ deployment.version # 0
                  THEN configMap[Len(configMap)][p] ELSE status[p].mode
             w == [worker[p] EXCEPT !.pc = "update", !.upToDate = u, !.mode = m]
  <2>1. /\ UNCHANGED << policy, configMap, policyCache, serverWorker, pods, podCache, webhook >>
        /\ Becomes(p, w)
    BY <1>5 DEF SetPolicyStatus, cluster, caches
  <2> HIDE DEF u, m
  <2>2. w.pc = "update"
    BY <1>1 DEF Workers
  <2> HIDE DEF w
  <2> QED
    BY <2>1, <2>2, AgesFrame, WorkerSafe
<1>6. CASE UpdateStatus(p)
  <2>1. /\ UNCHANGED << policy, configMap, policyCache, serverWorker, pods, podCache, webhook >>
        /\ Becomes(p, IdleWorker)
    BY <1>6 DEF UpdateStatus, caches
  <2> QED
    BY <2>1, AgesFrame, IdleWorkerType, WorkerSafe
<1>7. CASE DeleteWebhook(p)
  <2> DEFINE w == [worker[p] EXCEPT !.pc = "removeFinalizer"]
  <2>1. /\ UNCHANGED << policy, configMap, policyCache, serverWorker, pods, podCache >>
        /\ Becomes(p, w)
        /\ \A q \in Policies : webhook'[q] # None => webhook[q] # None
    BY <1>7 DEF DeleteWebhook, DeletedWebhook, caches, TypeInv, TypeOK
  <2>2. w.pc = "removeFinalizer"
    BY <1>1 DEF Workers
  <2> HIDE DEF w
  <2> QED
    BY <2>1, <2>2, AgesFrame, WorkerSafe
<1>8. CASE RemoveFinalizer(p)
  <2>1. /\ UNCHANGED << configMap, policyCache, serverWorker, pods, podCache, webhook >>
        /\ Becomes(p, IdleWorker)
    BY <1>8 DEF RemoveFinalizer, caches
  <2>2. PolicyAges
    BY <1>8, RemovalAges
  <2> QED
    BY <2>1, <2>2, IdleWorkerType, WorkerSafe
<1> QED
  BY <1>2, <1>3, <1>4, <1>5, <1>6, <1>7, <1>8, GetConfigMapSafe, ListReplicaSetsAndPodsSafe
  DEF ReconcilePolicy

-----------------------------------------------------------------------------
(* Faults. *)

\* A restart forgets every reconcile and lists everything afresh.
LEMMA CrashSafe == ASSUME TypeInv, Safe, Crash PROVE Safe'
<1>1. /\ UNCHANGED << policy, configMap, pods, webhook >>
      /\ worker' = [p \in Policies |-> IdleWorker]
      /\ serverWorker'.pc = "idle"
      /\ policyCache' = policy
      /\ podCache' = ListedPods
  BY DEF Crash, IdleServerWorker, cluster
<1>2. CacheFollowsPolicy'
  BY <1>1 DEF CacheFollowsPolicy
<1>3. ConfigComesFromCache'
  BY <1>1, CachedIsLive DEF Safe, ConfigComesFromCache, Configured, Retained
<1>4. ConfigGrows'
  BY <1>1 DEF Safe, ConfigGrows, Retained
<1>5. GateHolds'
  <2>1. \A p \in Policies : worker'[p].pc = "idle"
    BY <1>1 DEF IdleWorker
  <2> QED
    BY <1>1, <2>1, AgesFrame, GateFrame
<1> QED
  BY <1>1, <1>2, <1>3, <1>4, <1>5, PodsListed DEF Safe

\* Errors, evictions and restarts open no gate.
LEMMA FaultsSafe == ASSUME TypeInv, Safe, Faults PROVE Safe'
<1>1. CASE ServerApiError
  BY <1>1, ServerWorkerSafe DEF ServerApiError, IdleServerWorker, caches
<1>2. ASSUME NEW k \in Slots, EvictPod(k) PROVE Safe'
  <2>1. 0 \in Versions
    BY DEF Versions, TypeInv, TypeOK
  <2> QED
    BY <1>2, <2>1, UnreadyPodSafe DEF EvictPod, Vacant, caches
<1>3. ASSUME NEW p \in Policies, PolicyApiError(p) PROVE Safe'
  <2> DEFINE w == [worker[p] EXCEPT !.pc = "update", !.upToDate = status[p].upToDate,
                                    !.mode = status[p].mode]
  <2>1. w.pc = "update"
    BY DEF Workers, TypeInv, TypeOK
  <2>2. /\ UNCHANGED << policy, configMap, policyCache, serverWorker, pods, podCache >>
        /\ \/ \E o \in Outcomes : Conclude(p, o)
           \/ Becomes(p, w)
           \/ Becomes(p, IdleWorker)
        /\ \A q \in Policies :
              webhook'[q] # None => worker[q].pc = "webhook" \/ webhook[q] # None
    BY <1>3 DEF PolicyApiError, Outcomes, caches, TypeInv, TypeOK
  <2> HIDE DEF w
  <2> QED
    BY <2>1, <2>2, AgesFrame, ConcludeSafe, IdleWorkerType, WorkerSafe
<1> QED
  BY <1>1, <1>2, <1>3, CrashSafe DEF Faults

-----------------------------------------------------------------------------
(* The theorem. *)

\* There is no ConfigMap, no pod and no webhook.
LEMMA InitSafe == Init => Safe
<1> SUFFICES ASSUME Init PROVE Safe
  OBVIOUS
<1>1. CacheFollowsPolicy /\ ConfigGrows
  BY DEF Init, CacheFollowsPolicy, ConfigGrows, NoPolicy
<1>2. ConfigComesFromCache
  BY DEF Init, ConfigComesFromCache, Configured, IdleServerWorker
<1>3. PodsLoadTheirVersion /\ UnseenPodsAreNewer
  BY DEF Init, PodsLoadTheirVersion, UnseenPodsAreNewer, Started, Ready, Vacant, Unlisted, Versions
<1>4. GateHolds
  BY DEF Init, GateHolds, IdleWorker
<1> QED
  BY <1>1, <1>2, <1>3, <1>4 DEF Safe

\* Safe is inductive, given TypeInv and Followed.
LEMMA NextSafe ==
  ASSUME TypeInv, Safe, [Next]_vars PROVE Safe'
<1>1. CASE UNCHANGED vars
  BY <1>1, AgesFrame, WholeFrame DEF vars
<1> QED
  BY <1>1, UserSafe, InformersSafe, KubernetesSafe, PolicyServerSafe, PolicySafe, FaultsSafe
  DEF Next

\* What Safe says of started pods holds of the ready ones.
LEMMA SafeImpliesServed == ASSUME TypeInv, Safe PROVE WebhookOnlyForServedPolicy
  BY DEF Safe, GateHolds, PodsLoadTheirVersion, WebhookOnlyForServedPolicy, Served, Retained

\* IInv is inductive: it holds in every reachable state.
THEOREM IInvHolds == Spec => []IInv
<1>1. Init => TypeInv /\ Safe
  BY InitTypeInv, InitSafe
<1>2. TypeInv /\ Safe /\ [Next]_vars => (TypeInv /\ Safe)'
  BY NextType, NextSafe
<1>3. TypeInv /\ Safe /\ Followed => IInv
  BY DEF TypeInv, Safe, Followed, IInv
<1> QED
  BY <1>1, <1>2, <1>3, FollowedHolds, PTL DEF Spec

\* A webhook never sends admission reviews to a policy that some ready pod does
\* not serve: isPolicyUniquelyReachable may decide from caches that lag, steps
\* before the webhook is created, and still be right when it is.
THEOREM RegistrationGate ==
  Spec => []WebhookOnlyForServedPolicy
<1>1. IInv => WebhookOnlyForServedPolicy
  BY SafeImpliesServed DEF IInv, TypeInv, Safe
<1> QED
  BY <1>1, IInvHolds, PTL

\* When the status update of a reconcile says that a policy is active and
\* uniquely reachable, it is, however long ago the reconcile looked.
THEOREM SavedReachable ==
  Spec => SavedReachableIsServed
<1>1. ASSUME IInv, NEW p \in Policies, SavesStatus(p), PolicyActive(p) PROVE Served(p)
  <2>1. webhook[p] # None
    BY <1>1 DEF IInv, OutcomesHold, PolicyActive
  <2>2. policy[p].phase = "live"
    BY <1>1 DEF IInv, WorkersFollowPhase, SavesStatus, IsCurrent
  <2> QED
    BY <1>1, <2>1, <2>2 DEF IInv, GateHolds, PodsLoadTheirVersion, Served, Retained
<1>2. IInv => (\A p \in Policies : SavesStatus(p) /\ PolicyActive(p) /\ UpdateStatus(p) => Served(p))
  BY <1>1
<1> QED
  BY <1>2, IInvHolds, PTL DEF SavedReachableIsServed

\* Only one action writes the ConfigMap.
LEMMA WhoWritesConfigMap ==
  ASSUME [Next]_vars PROVE UNCHANGED configMap \/ ReconcilePolicyServerConfigMap
<1>1. ASSUME User PROVE UNCHANGED configMap
  BY <1>1 DEF User, CreatePolicyServer, WritePolicy, DeletePolicy, RemoveFinalizerByHand
<1>2. ASSUME Informers PROVE UNCHANGED configMap
  BY <1>2 DEF Informers, SyncPolicyServer, SyncPods, SyncReplicaSets, SyncPolicy, SyncWebhook, cluster
<1>3. ASSUME Kubernetes PROVE UNCHANGED configMap
  BY <1>3 DEF Kubernetes, RollOut, ScaleDown, CreatePod, StartPod, PodBecomesReady, ReplacePod
<1>4. ASSUME ReconcilePolicyServer PROVE UNCHANGED configMap \/ ReconcilePolicyServerConfigMap
  BY <1>4 DEF ReconcilePolicyServer, StartPolicyServerReconcile, ReconcilePolicyServerDeployment,
     UpdatePolicyServerStatus, cluster
<1>5. ASSUME NEW p \in Policies, ReconcilePolicy(p) PROVE UNCHANGED configMap
  BY <1>5 DEF ReconcilePolicy, StartReconciling, GetDeployment, GetConfigMap,
     ListReplicaSetsAndPods, ReconcileWebhookConfiguration, SetPolicyStatus, UpdateStatus,
     DeleteWebhook, RemoveFinalizer, cluster
<1>6. ASSUME Faults PROVE UNCHANGED configMap
  BY <1>6 DEF Faults, Crash, ServerApiError, EvictPod, PolicyApiError, cluster
<1> QED
  BY <1>1, <1>2, <1>3, <1>4, <1>5, <1>6 DEF Next, vars

\* No reconcile of the PolicyServer drops a configured policy that exists: the
\* caches it lists from are rebuilt by a restart, and never go back.
THEOREM ConfigKeepsPolicies ==
  Spec => ConfiguredPolicyStays
<1> DEFINE Stays == \A p \in Policies :
                       p \in Configured /\ policy'[p].phase = "live" => p \in Configured'
<1>1. ASSUME IInv, IInv', [Next]_vars PROVE Stays
  <2>1. CASE UNCHANGED configMap
    BY <2>1 DEF Configured
  <2>2. CASE ReconcilePolicyServerConfigMap
    <3> DEFINE n == Len(configMap)
               m == Len(configMap')
    <3>1. n \in Nat /\ m \in n .. n + 1 /\ \A v \in 1 .. n : configMap'[v] = configMap[v]
      BY <1>1, <2>2 DEF ReconcilePolicyServerConfigMap, IInv, TypeOK
    <3>2. ASSUME NEW p \in Policies, p \in Configured, policy'[p].phase = "live"
          PROVE  p \in Configured'
      <4>1. n \in 1 .. m /\ m \in n .. m /\ configMap'[n][p] # None
        BY <3>1, <3>2, <1>1 DEF Configured, IInv, TypeOK
      <4> HIDE DEF n
      <4>2. configMap'[m][p] # None
        BY <1>1, <3>2, <4>1 DEF IInv, ConfigGrows, Retained
      <4>3. configMap' # << >>
        BY <3>1, <4>1
      <4> QED
        BY <4>2, <4>3 DEF Configured
    <3> QED
      BY <3>2
  <2> QED
    BY <1>1, <2>1, <2>2, WhoWritesConfigMap
<1>2. IInv /\ IInv' /\ [Next]_vars => [Stays]_vars
  BY <1>1
<1> QED
  BY <1>2, IInvHolds, PTL DEF Spec, ConfiguredPolicyStays

-----------------------------------------------------------------------------
(* PolicyRollout implements PolicyRegistration, for every value of the     *)
(* constants: each step of the reconcilers, the informers, Kubernetes and  *)
(* the faults is a step of the abstract registration, or changes nothing   *)
(* that it speaks of.                                                      *)

up         == { k \in Slots : Started(k) }
serving    == [k \in Slots |-> IF Started(k) THEN { p \in Policies : Serves(k, p) } ELSE {}]
registered == { p \in Policies : webhook[p] # None }
retired    == { p \in Policies : policy[p].phase \in {"deleting", "gone"} }

\* A step of the abstract registration.
Step == Registration!Next \/ UNCHANGED << Configured, up, serving, registered, retired >>

-----------------------------------------------------------------------------
\* A step that changes neither ConfigMap, pods, webhooks nor phases is a stutter.
LEMMA QuietRefines ==
  ASSUME UNCHANGED << configMap, pods, webhook >>, retired' = retired PROVE Step
<1>1. UNCHANGED << Configured, up, serving, registered >>
  BY DEF Configured, up, serving, registered, Started, Serves
<1> QED
  BY <1>1 DEF Step

\* A policy that is not retired may be registered only past the gate.
LEMMA NotRetired ==
  ASSUME TypeInv, NEW p \in Policies PROVE Retained(p) <=> p \notin retired
<1>1. policy[p].phase \in {"absent", "live", "deleting", "gone"}
  BY DEF TypeInv, TypeOK, Objects, NoPolicy
<1> QED
  BY <1>1 DEF Retained, retired

\* Deleting a policy retires it; the rest is a stutter.
LEMMA UserRefines == ASSUME TypeInv, User PROVE Step
<1>1. CASE CreatePolicyServer
  BY <1>1, QuietRefines DEF CreatePolicyServer, retired
<1>2. ASSUME NEW p \in Policies, WritesPolicy(p) PROVE Step
  <2>1. UNCHANGED << configMap, pods, webhook >>
    BY <1>2 DEF WritesPolicy
  <2>2. retired' = retired \/ retired' = retired \cup {p}
    BY <1>2 DEF WritesPolicy, retired
  <2>3. UNCHANGED << Configured, up, serving, registered >>
    BY <2>1 DEF Configured, up, serving, registered, Started, Serves
  <2>4. CASE retired' = retired
    BY <2>1, <2>4, QuietRefines
  <2>5. CASE retired' = retired \cup {p}
    BY <2>3, <2>5 DEF Step, Registration!Next, Registration!Retire, up, serving, registered, retired
  <2> QED
    BY <2>2, <2>4, <2>5
<1> QED
  BY <1>1, <1>2, UsersWrite DEF User

\* Caches, queues and the Deployment are invisible to the abstract registration.
LEMMA OthersRefine ==
  ASSUME Informers \/ UNCHANGED vars \/ Crash \/ ServerApiError PROVE Step
<1>1. UNCHANGED << policy, configMap, pods, webhook >>
  BY DEF Informers, SyncPolicyServer, SyncPods, SyncReplicaSets, SyncPolicy, SyncWebhook,
     Crash, ServerApiError, cluster, vars
<1> QED
  BY <1>1, QuietRefines DEF retired

-----------------------------------------------------------------------------
(* Pods. *)

\* Only one pod changes.
LEMMA PodRefines ==
  ASSUME TypeInv, NEW k \in Slots, UNCHANGED << policy, configMap, webhook >>,
         \A j \in Slots \ {k} : pods'[j] = pods[j]
  PROVE  /\ UNCHANGED << Configured, registered, retired >>
         /\ \A j \in Slots \ {k} : serving'[j] = serving[j] /\ (j \in up' <=> j \in up)
  BY DEF Configured, registered, retired, serving, up, Started, Serves

\* A pod that goes stops; a pod that never started was never up.
LEMMA StopRefines ==
  ASSUME TypeInv, NEW k \in Slots, UNCHANGED << policy, configMap, webhook >>,
         \A j \in Slots \ {k} : pods'[j] = pods[j], pods'[k].loaded = 0
  PROVE  Step
<1>1. /\ UNCHANGED << Configured, registered, retired >>
      /\ \A j \in Slots \ {k} : serving'[j] = serving[j] /\ (j \in up' <=> j \in up)
  BY PodRefines
<1>2. k \notin up' /\ serving'[k] = {}
  BY DEF up, serving, Started
<1>3. /\ up \subseteq Slots /\ up' \subseteq Slots
      /\ serving = [j \in Slots |-> serving[j]] /\ serving' = [j \in Slots |-> serving'[j]]
      /\ k \notin up => serving[k] = {}
  BY DEF up, serving
<1>4. up' = up \ {k}
  BY <1>1, <1>2, <1>3
<1>5. serving' = [serving EXCEPT ![k] = {}]
  BY <1>1, <1>2, <1>3
<1>6. CASE k \in up
  BY <1>1, <1>4, <1>5, <1>6
  DEF Step, Registration!Next, Registration!Stop, up, serving, registered, retired
<1>7. CASE k \notin up
  BY <1>1, <1>3, <1>4, <1>5, <1>7 DEF Step
<1> QED
  BY <1>6, <1>7

\* A pod that starts serves what is offered.
LEMMA StartRefines == ASSUME TypeInv, Safe, NEW k \in Slots, StartPod(k) PROVE Step
<1>1. /\ UNCHANGED << policy, configMap, webhook >>
      /\ \A j \in Slots \ {k} : pods'[j] = pods[j]
      /\ pods'[k].loaded = Len(configMap) /\ pods[k].loaded = 0
      /\ Len(configMap) \in Nat
  BY DEF StartPod, TypeInv, TypeOK, PodType
<1>2. Len(configMap) # 0
  <2>1. pods[k].version # 0
    BY <1>1 DEF StartPod, Vacant, TypeInv, TypeOK, PodType, Safe, PodsLoadTheirVersion, Started, Ready
  <2>2. pods[k].version \in 0 .. Len(configMap)
    BY DEF Safe, PodsLoadTheirVersion, Versions
  <2> QED
    BY <1>1, <2>1, <2>2
<1>3. /\ UNCHANGED << Configured, registered, retired >>
      /\ \A j \in Slots \ {k} : serving'[j] = serving[j] /\ (j \in up' <=> j \in up)
  BY <1>1, PodRefines
<1>4. k \in up' /\ k \notin up
  BY <1>1, <1>2 DEF up, Started
<1>5. serving'[k] = Configured
  <2>1. configMap # << >>
    BY <1>1, <1>2 DEF TypeInv, TypeOK
  <2>2. serving'[k] = { p \in Policies : configMap[Len(configMap)][p] # None }
    BY <1>1, <1>2 DEF serving, Started, Serves
  <2> QED
    BY <2>1, <2>2 DEF Configured
<1>6. /\ up \subseteq Slots /\ up' \subseteq Slots
      /\ serving = [j \in Slots |-> serving[j]] /\ serving' = [j \in Slots |-> serving'[j]]
  BY DEF up, serving
<1>7. up' = up \cup {k} /\ serving' = [serving EXCEPT ![k] = Configured]
  BY <1>3, <1>4, <1>5, <1>6
<1> QED
  BY <1>3, <1>4, <1>7
  DEF Step, Registration!Next, Registration!Start, up, serving, registered, retired

\* Pods start and stop; nothing else of Kubernetes is visible.
LEMMA KubernetesRefines == ASSUME TypeInv, Safe, Kubernetes PROVE Step
<1>1. CASE RollOut
  BY <1>1, QuietRefines DEF RollOut, retired
<1>2. ASSUME NEW v \in replicaSets, ScaleDown(v) PROVE Step
  BY <1>2, QuietRefines DEF ScaleDown, retired
<1>3. ASSUME NEW k \in Slots, NEW v \in replicaSets, CreatePod(k, v) PROVE Step
  BY <1>3, StopRefines DEF CreatePod, TypeInv, TypeOK
<1>4. ASSUME NEW k \in Slots, ReplacePod(k) PROVE Step
  BY <1>4, StopRefines DEF ReplacePod, Vacant, TypeInv, TypeOK
<1>5. ASSUME NEW k \in Slots, PodBecomesReady(k) PROVE Step
  <2>1. /\ UNCHANGED << policy, configMap, webhook >>
        /\ \A j \in Slots : pods'[j].loaded = pods[j].loaded
    BY <1>5 DEF PodBecomesReady, TypeInv, TypeOK, PodType
  <2>2. UNCHANGED << Configured, up, serving, registered, retired >>
    BY <2>1 DEF Configured, up, serving, registered, retired, Started, Serves
  <2> QED
    BY <2>2 DEF Step
<1> QED
  BY <1>1, <1>2, <1>3, <1>4, <1>5, StartRefines DEF Kubernetes

-----------------------------------------------------------------------------
(* The PolicyServer reconciler. *)

\* A ConfigMap is an offer that leaves out only retired policies.
LEMMA ConfigMapRefines ==
  ASSUME TypeInv, Safe, ReconcilePolicyServerConfigMap PROVE Step
<1> DEFINE n == Len(configMap)
           new == serverWorker.desired
<1>1. UNCHANGED << policy, pods, webhook >>
  BY DEF ReconcilePolicyServerConfigMap
<1>2. CASE UNCHANGED configMap
  BY <1>1, <1>2, QuietRefines DEF retired
<1>3. CASE configMap' = Append(configMap, new)
  <2>1. /\ n \in Nat /\ Len(configMap') = n + 1 /\ configMap'[n + 1] = new
        /\ \A v \in 1 .. n : configMap'[v] = configMap[v]
    BY <1>3 DEF TypeInv, TypeOK
  <2>2. configMap' # << >>
    BY <2>1
  <2> HIDE DEF n, new
  <2>3. Configured' = { p \in Policies : new[p] # None }
    BY <2>1, <2>2 DEF Configured
  <2>4. \A p \in Policies : Retained(p) /\ p \in Configured => new[p] # None
    BY DEF Safe, ConfigComesFromCache, ReconcilePolicyServerConfigMap, new
  <2>5. Configured \ retired \subseteq Configured'
    BY <2>3, <2>4, NotRetired DEF Configured
  <2>6. UNCHANGED << up, registered, retired >>
    BY <1>1 DEF up, registered, retired, Started
  <2>7. serving' = serving
    <3>1. ASSUME NEW k \in Slots, Started(k), NEW p \in Policies
          PROVE  Serves(k, p)' <=> Serves(k, p)
      <4>1. pods[k].loaded \in 1 .. n
        BY <2>1, <3>1 DEF Safe, PodsLoadTheirVersion, Started, Versions, n
      <4> QED
        BY <1>1, <2>1, <4>1 DEF Serves
    <3>2. \A k \in Slots : Started(k)' <=> Started(k)
      BY <1>1 DEF Started
    <3>3. \A k \in Slots : Started(k) =>
             { p \in Policies : Serves(k, p)' } = { p \in Policies : Serves(k, p) }
      BY <3>1
    <3> QED
      BY <3>2, <3>3 DEF serving
  <2>8. Configured' \in SUBSET Policies
    BY <2>3
  <2> QED
    BY <2>5, <2>6, <2>7, <2>8
    DEF Step, Registration!Next, Registration!Offer, up, serving, registered, retired
<1> QED
  BY <1>2, <1>3 DEF ReconcilePolicyServerConfigMap

\* Of the PolicyServer reconcile only the ConfigMap is visible.
LEMMA PolicyServerRefines ==
  ASSUME TypeInv, Safe, ReconcilePolicyServer PROVE Step
<1>1. CASE ReconcilePolicyServerConfigMap
  BY <1>1, ConfigMapRefines
<1>2. CASE ~ReconcilePolicyServerConfigMap
  <2>1. UNCHANGED << policy, configMap, pods, webhook >>
    BY <1>2 DEF ReconcilePolicyServer, StartPolicyServerReconcile,
       ReconcilePolicyServerDeployment, UpdatePolicyServerStatus, cluster
  <2> QED
    BY <2>1, QuietRefines DEF retired
<1> QED
  BY <1>1, <1>2

-----------------------------------------------------------------------------
(* The policy reconcilers. *)

\* Past the gate, a webhook may be written.
LEMMA RegisterRefines ==
  ASSUME TypeInv, Safe, NEW p \in Policies, worker[p].pc = "webhook",
         UNCHANGED << policy, configMap, pods >>,
         webhook' = [webhook EXCEPT ![p] = ReconciledWebhook(p)]
  PROVE  Step
<1>1. webhook'[p] # None /\ \A q \in Policies \ {p} : webhook'[q] = webhook[q]
  BY ReconciledWebhookExists DEF TypeInv, TypeOK
<1>2. registered' = registered \cup {p}
  BY <1>1 DEF registered
<1>3. UNCHANGED << Configured, up, serving, retired >>
  BY DEF Configured, up, serving, retired, Started, Serves
<1>4. p \in retired \/ (p \in Configured /\ \A k \in up : p \in serving[k])
  <2>1. Retained(p) => p \in Configured /\ \A k \in Slots : Started(k) => Serves(k, p)
    BY DEF Safe, GateHolds
  <2> QED
    BY <2>1, NotRetired DEF up, serving
<1> QED
  BY <1>2, <1>3, <1>4
  DEF Step, Registration!Next, Registration!Register, up, serving, registered, retired

\* A webhook is deleted only for a policy that is being deleted.
LEMMA UnregisterRefines ==
  ASSUME TypeInv, Followed, NEW p \in Policies, DeleteWebhook(p) PROVE Step
<1>1. /\ UNCHANGED << policy, configMap, pods >>
      /\ webhook' = [webhook EXCEPT ![p] = DeletedWebhook(p)]
      /\ worker[p].pc = "deleteWebhook"
  BY DEF DeleteWebhook, caches
<1>2. p \in retired
  BY <1>1 DEF Followed, WorkersFollowPhase, retired
<1>3. UNCHANGED << Configured, up, serving, retired >>
  BY <1>1 DEF Configured, up, serving, retired, Started, Serves
<1>4. CASE webhook' = webhook
  BY <1>1, <1>4, QuietRefines, <1>3
<1>5. CASE webhook' = [webhook EXCEPT ![p] = None]
  <2>1. registered' = registered \ {p}
    BY <1>5 DEF registered, TypeInv, TypeOK
  <2> QED
    BY <1>2, <1>3, <2>1
    DEF Step, Registration!Next, Registration!Unregister, up, serving, registered, retired
<1>6. webhook' = webhook \/ webhook' = [webhook EXCEPT ![p] = None]
  BY <1>1 DEF DeletedWebhook, TypeInv, TypeOK
<1> QED
  BY <1>4, <1>5, <1>6

\* The steps of a policy reconcile.
LEMMA PolicyRefines ==
  ASSUME TypeInv, Safe, Followed, NEW p \in Policies, ReconcilePolicy(p) PROVE Step
<1>1. CASE StartReconciling(p) \/ GetDeployment(p) \/ GetConfigMap(p)
             \/ ListReplicaSetsAndPods(p) \/ SetPolicyStatus(p) \/ UpdateStatus(p)
  <2>1. UNCHANGED << policy, configMap, pods, webhook >>
    BY <1>1 DEF StartReconciling, GetDeployment, GetConfigMap, ListReplicaSetsAndPods,
       SetPolicyStatus, UpdateStatus, cluster
  <2> QED
    BY <2>1, QuietRefines DEF retired
<1>2. CASE ReconcileWebhookConfiguration(p)
  <2>1. /\ UNCHANGED << policy, configMap, pods >> /\ worker[p].pc = "webhook"
        /\ UNCHANGED webhook \/ webhook' = [webhook EXCEPT ![p] = ReconciledWebhook(p)]
    BY <1>2 DEF ReconcileWebhookConfiguration
  <2> QED
    BY <2>1, QuietRefines, RegisterRefines DEF retired
<1>3. CASE RemoveFinalizer(p)
  <2>1. UNCHANGED << configMap, pods, webhook >>
    BY <1>3 DEF RemoveFinalizer
  <2>2. policy[p].phase \in {"deleting", "gone"}
    BY <1>3 DEF RemoveFinalizer, Followed, WorkersFollowPhase
  <2>3. /\ policy'[p] = policy[p] \/ policy'[p].phase = "gone"
        /\ \A q \in Policies \ {p} : policy'[q] = policy[q]
    BY <1>3, Removes DEF RemovesPolicy
  <2>4. retired' = retired
    BY <2>2, <2>3 DEF retired
  <2> QED
    BY <2>1, <2>4, QuietRefines
<1> QED
  BY <1>1, <1>2, <1>3, UnregisterRefines DEF ReconcilePolicy

\* An eviction is a stop; a webhook call whose answer is lost registers.
LEMMA FaultsRefine == ASSUME TypeInv, Safe, Faults PROVE Step
<1>1. ASSUME NEW k \in Slots, EvictPod(k) PROVE Step
  BY <1>1, StopRefines DEF EvictPod, Vacant, TypeInv, TypeOK
<1>2. ASSUME NEW p \in Policies, PolicyApiError(p) PROVE Step
  <2>1. /\ UNCHANGED << policy, configMap, pods >>
        /\ \/ UNCHANGED webhook
           \/ worker[p].pc = "webhook" /\ webhook' = [webhook EXCEPT ![p] = ReconciledWebhook(p)]
    BY <1>2 DEF PolicyApiError
  <2> QED
    BY <2>1, QuietRefines, RegisterRefines DEF retired
<1> QED
  BY <1>1, <1>2, OthersRefine DEF Faults

-----------------------------------------------------------------------------
\* Nothing offered, up, registered or retired.
LEMMA InitRefines == Init => Registration!Init
<1> SUFFICES ASSUME Init PROVE Registration!Init
  OBVIOUS
<1>1. Configured = {} /\ up = {} /\ registered = {} /\ retired = {}
  BY DEF Init, Configured, up, registered, retired, Started, Vacant, NoPolicy
<1>2. serving = [k \in Slots |-> {}]
  BY DEF Init, serving, Started, Vacant
<1> QED
  BY <1>1, <1>2 DEF Registration!Init, up, serving, registered, retired

\* Every step is a step of the abstract registration or a stutter.
LEMMA NextRefines ==
  ASSUME TypeInv, Safe, Followed, [Next]_vars PROVE [Registration!Next]_(Registration!vars)
<1>1. Step
  BY UserRefines, OthersRefine, KubernetesRefines, PolicyServerRefines, PolicyRefines,
     FaultsRefine DEF Next
<1> QED
  BY <1>1 DEF Step, Registration!vars, up, serving, registered, retired

\* The reconcilers keep the promise of PolicyRegistration: a policy is registered
\* only when every started pod serves it and every pod that starts will.
THEOREM RolloutImplementsRegistration ==
  Spec => ImplementsRegistration
<1>1. Init => Registration!Init
  BY InitRefines
<1>2. IInv /\ [Next]_vars => [Registration!Next]_(Registration!vars)
  BY NextRefines DEF IInv, TypeInv, Safe, Followed
<1> QED
  BY <1>1, <1>2, IInvHolds, PTL DEF Spec, ImplementsRegistration, Registration!Spec
=============================================================================
