------------------------ MODULE PolicyRolloutProgress ------------------------
(***************************************************************************)
(* No controller rests too early: RestMeansEnforced and                    *)
(* DeletionStaysUnderWay hold in every reachable state, for any number of  *)
(* policies, pods, specs, crashes and API errors.  The argument is the     *)
(* inductive invariant ProgressInv of PolicyRollout, on top of IInv.       *)
(***************************************************************************)
EXTENDS PolicyRolloutSafety

\* What leads to the next reconcile of p, or makes one needless.
Going(p) ==
    /\ policy[p].phase = "deleting" => UnderWay(p)
    /\ p \in Bound /\ policy[p].phase = "live" =>
          IF worker[p].pc = "idle" THEN StatusStays(p) ELSE OutcomeStays(p)

\* What is known of p is of the past.
Past(p) ==
    /\ policyCache[p].gen <= policy[p].gen
    /\ policyCache[p].phase = "deleting" => policy[p].phase \in {"deleting", "gone"}
    /\ worker[p].pc # "idle" => worker[p].seen.gen <= policy[p].gen
    /\ worker[p].revision <= deployment.version

\* Only a PolicyServer that exists is known, and only one that is known is reconciled.
ServerKnown ==
    /\ policyServerCache => policyServer
    /\ serverStatus \/ serverWorker.pc # "idle" => policyServerCache

\* The part of ProgressInv that is about p.
Progresses(p) ==
    /\ Past(p)
    /\ Retained(p) => WebhookFollows(p)
    /\ Going(p)

\* ProgressInv is about the PolicyServer, and about one policy at a time.
LEMMA ProgressParts ==
  ProgressInv <=> ServerKnown /\ ServerPassed /\ \A p \in Policies : Progresses(p)
<1>1. CopiesAreOfThePast <=> ServerKnown /\ \A p \in Policies : Past(p)
  BY DEF CopiesAreOfThePast, ServerKnown, Past
<1>2. (\A p \in Policies : Going(p))
      <=> /\ DeletionStaysUnderWay
          /\ \A p \in Bound : policy[p].phase = "live" =>
                IF worker[p].pc = "idle" THEN StatusStays(p) ELSE OutcomeStays(p)
  BY ConstantsAssumption DEF Going, DeletionStaysUnderWay
<1> QED
  BY <1>1, <1>2 DEF ProgressInv, Progresses

-----------------------------------------------------------------------------
(* The steps of a reconcile, field by field. *)

\* Only the reconcile of p moves.
LEMMA WorkerBecomes ==
  ASSUME TypeInv, NEW p \in Policies, NEW w, Becomes(p, w)
  PROVE  worker'[p] = w /\ \A q \in Policies \ {p} : worker'[q] = worker[q]
  BY DEF Becomes, TypeInv, TypeOK

\* A reconcile that goes to its end keeps what it has read of the policy.
LEMMA WorkerConcludes ==
  ASSUME TypeInv, NEW p \in Policies, NEW o, Conclude(p, o)
  PROVE  /\ worker'[p].pc = "inspect" /\ worker'[p].outcome = o
         /\ worker'[p].seen = worker[p].seen /\ worker'[p].revision = 0
         /\ \A q \in Policies \ {p} : worker'[q] = worker[q]
<1> DEFINE w == [worker[p] EXCEPT !.pc = "inspect", !.outcome = o, !.revision = 0, !.version = 0]
<1>1. worker[p] \in Workers
  BY DEF TypeInv, TypeOK
<1>2. w.pc = "inspect" /\ w.outcome = o /\ w.seen = worker[p].seen /\ w.revision = 0
  BY <1>1 DEF Workers
<1>3. Becomes(p, w)
  BY DEF Conclude
<1> HIDE DEF w
<1> QED
  BY <1>2, <1>3, WorkerBecomes

-----------------------------------------------------------------------------
(* What a step may leave alone. *)

\* What p waits for is still to come, and what it has passed stays, or p is enqueued.
Undisturbed(p) ==
    /\ /\ policy[p].phase = "live" /\ p \in Bound /\ policyCache[p] = policy[p]
       /\ ServerToCome(p)
       => ServerToCome(p)' \/ p \in queue'
    /\ p \in Configured => p \in queue' \/ \A v \in Nat : GateStays(v) => GateStays(v)'
    /\ deployment.version <= deployment'.version
    /\ \A v \in 1 .. deployment.version :
          v = Len(configMap') /\ StatusIsExact' =>
             v = Len(configMap) /\ StatusIsExact /\ configMap'[v] = configMap[v]

\* Neither the PolicyServer nor its pods, as the caches show them, change.
Quiet ==
    /\ UNCHANGED << policyServerCache, serverStatus, serverWorker, configMap, podCache >>
    /\ deployment'.version = deployment.version
    /\ serverQueue => serverQueue'
    /\ faults <= faults'

\* The step is about other policies, or brings the cache of the webhook up to date.
Spared(p) ==
    /\ policy'[p] = policy[p] /\ status'[p] = status[p] /\ webhook'[p] = webhook[p]
    /\ policyCache'[p] = policyCache[p] /\ webhookCache'[p] \in {webhookCache[p], webhook[p]}
    /\ worker'[p] = worker[p]
    /\ p \in queue => p \in queue'

\* A quiet step keeps what a reconcile waits for, and what it has passed.
LEMMA QuietKeeps ==
  ASSUME TypeInv, Quiet, NEW p \in Policies
  PROVE  /\ ServerToCome(p) => ServerToCome(p)'
         /\ \A v \in Nat : GateStays(v) => GateStays(v)'
<1>1. ServerToCome(p) => ServerToCome(p)'
  BY DEF Quiet, ServerToCome, Configured
<1>2. \A v \in Nat : GateStays(v) => GateStays(v)'
  BY DEF Quiet, GateStays
<1> QED
  BY <1>1, <1>2

\* So it disturbs no policy.
LEMMA QuietUndisturbed == ASSUME TypeInv, TypeInv', Quiet, NEW p \in Policies PROVE Undisturbed(p)
<1>1. \A v \in 1 .. deployment.version :
          v = Len(configMap') /\ StatusIsExact' =>
             v = Len(configMap) /\ StatusIsExact /\ configMap'[v] = configMap[v]
  BY DEF Quiet, StatusIsExact, TypeInv, TypeOK
<1>2. deployment.version <= deployment'.version
  BY DEF Quiet, TypeInv, TypeOK, Versions
<1> QED
  BY <1>1, <1>2, QuietKeeps DEF Undisturbed

\* A live policy at whose webhook the gate has been passed is in the ConfigMap.
LEMMA PassedIsConfigured ==
  ASSUME TypeInv, Safe, Followed, NEW p \in Policies, policy[p].phase = "live",
         \/ worker[p].pc = "webhook"
         \/ worker[p].outcome = "registered"
         \/ status[p].active
  PROVE  p \in Configured
<1>1. worker[p].pc = "webhook" \/ webhook[p] # None
  BY DEF Followed, OutcomesHold, Retained
<1> QED
  BY <1>1 DEF Safe, GateHolds, Retained

\* What a step spares and does not disturb keeps going.
LEMMA GoingFrame ==
  ASSUME TypeInv, TypeInv', Safe, Followed, NEW p \in Policies, Going(p), Spared(p), Undisturbed(p)
  PROVE  Going(p)'
<1>1. \/ p \in queue \/ policyCache[p] # policy[p]
      => p \in queue' \/ policyCache'[p] # policy'[p]
  BY DEF Spared
<1>2. policy'[p].phase = "deleting" => UnderWay(p)'
  BY <1>1 DEF Going, UnderWay, Spared
<1>3. ASSUME NEW v \in 1 .. deployment.version, NEW mode, NEW upToDate,
             Reported(p, v, mode, upToDate)
      PROVE  v = Len(configMap') /\ StatusIsExact' => mode = configMap'[v][p] /\ upToDate
  BY <1>3 DEF Reported, Undisturbed
<1>4. deployment.version \in Nat /\ 1 .. deployment.version \subseteq 1 .. deployment'.version
  BY DEF Undisturbed, TypeInv, TypeOK, Versions
<1>5. ASSUME p \in Bound, policy[p].phase = "live", worker[p].pc = "idle"
      PROVE  StatusStays(p)'
  <2>1. StatusStays(p)
    BY <1>5 DEF Going
  <2>2. CASE p \in queue \/ policyCache[p] # policy[p]
    BY <1>1, <2>2 DEF StatusStays
  <2>3. CASE ~(p \in queue \/ policyCache[p] # policy[p]) /\ ServerToCome(p)
    BY <1>5, <2>3 DEF StatusStays, Undisturbed
  <2>4. CASE /\ status[p].policyStatus = "active" /\ status[p].active /\ status[p].reachable
             /\ Registered(p, policy[p].gen)
             /\ \E v \in 1 .. deployment.version :
                   GateStays(v) /\ Reported(p, v, status[p].mode, status[p].upToDate)
    <3>1. p \in queue' \/ \A v \in Nat : GateStays(v) => GateStays(v)'
      BY <1>5, <2>4, PassedIsConfigured DEF Undisturbed
    <3>2. PICK v \in 1 .. deployment.version :
                   GateStays(v) /\ Reported(p, v, status[p].mode, status[p].upToDate)
      BY <2>4
    <3>3. /\ status'[p] = status[p]
          /\ RulesApart => webhook'[p] = Rules[policy'[p].gen]
      BY <2>4 DEF Spared, Registered
    <3>4. v = Len(configMap') /\ StatusIsExact' =>
             status'[p].mode = configMap'[v][p] /\ status'[p].upToDate
      BY <1>3, <3>2, <3>3
    <3>5. v \in 1 .. deployment'.version
      BY <1>4
    <3> QED
      BY <1>4, <2>4, <3>1, <3>2, <3>3, <3>4, <3>5 DEF StatusStays, Registered, Reported
  <2> QED
    BY <2>1, <2>2, <2>3, <2>4 DEF StatusStays
<1>6. ASSUME p \in Bound, policy[p].phase = "live", worker[p].pc # "idle"
      PROVE  OutcomeStays(p)'
  <2>1. OutcomeStays(p) /\ worker'[p] = worker[p]
    BY <1>6 DEF Going, Spared
  <2>2. CASE \/ p \in queue \/ policyCache[p] # policy[p] \/ worker[p].seen # policy[p]
             \/ worker[p].pc \in {"deployment", "configMap", "pods"}
             \/ worker[p].pc \in {"inspect", "update"} /\ Requeues(worker[p].outcome)
    BY <1>1, <2>1, <2>2 DEF OutcomeStays, Spared, Requeues
  <2>3. CASE /\ policyCache[p] = policy[p]
             /\ worker[p].pc \in {"inspect", "update"} /\ worker[p].outcome = "scheduled"
             /\ ServerToCome(p)
    BY <1>6, <2>1, <2>3 DEF OutcomeStays, Undisturbed
  <2>4. ASSUME NEW v \in 1 .. deployment.version, GateStays(v),
               worker[p].pc # "webhook" =>
                  worker[p].outcome = "registered" /\ Registered(p, worker[p].seen.gen),
               worker[p].pc = "update" =>
                  Reported(p, v, worker[p].mode, worker[p].upToDate)
        PROVE  OutcomeStays(p)'
    <3>1. p \in queue' \/ GateStays(v)'
      BY <1>4, <1>6, <2>4, PassedIsConfigured DEF Undisturbed
    <3>2. worker'[p].pc # "webhook" =>
             worker'[p].outcome = "registered"
             /\ (RulesApart => webhook'[p] = Rules[worker'[p].seen.gen])
      BY <2>1, <2>4 DEF Spared, Registered
    <3>3. worker'[p].pc = "update" =>
             (v = Len(configMap') /\ StatusIsExact' =>
                 worker'[p].mode = configMap'[v][p] /\ worker'[p].upToDate)
      BY <1>3, <2>1, <2>4
    <3>4. v \in 1 .. deployment'.version
      BY <1>4
    <3> QED
      BY <3>1, <3>2, <3>3, <3>4 DEF OutcomeStays, Registered, Reported
  <2> QED
    BY <2>1, <2>2, <2>3, <2>4 DEF OutcomeStays
<1> QED
  BY <1>2, <1>5, <1>6 DEF Going, Spared

\* The webhook and its cache follow on when neither moves ahead of what was seen of p.
LEMMA WebhookFrame ==
  ASSUME TypeInv, TypeInv', NEW p \in Policies, Retained(p), WebhookFollows(p),
         webhook'[p] = webhook[p], webhookCache'[p] \in {webhookCache[p], webhook[p]},
         policy[p].gen <= policy'[p].gen,
         worker'[p].pc # "idle" => \/ worker[p].pc # "idle" /\ worker'[p].seen = worker[p].seen
                                   \/ worker'[p].seen = policy[p]
  PROVE  WebhookFollows(p)'
<1>1. CASE webhook[p] = None
  BY <1>1 DEF WebhookFollows
<1>2. CASE webhook[p] # None
  <2>1. PICK i \in Gens, j \in Gens :
            /\ i <= j /\ j <= policy[p].gen
            /\ worker[p].pc # "idle" => j <= worker[p].seen.gen
            /\ webhook[p] = Rules[j] /\ webhookCache[p] \in {None, Rules[i]}
    BY <1>2 DEF WebhookFollows
  <2>2. policy[p].gen \in Int /\ policy'[p].gen \in Int /\ i \in Int /\ j \in Int
    BY DEF TypeInv, TypeOK, Objects, NoPolicy, Gens
  <2>3. /\ j <= policy'[p].gen
        /\ worker'[p].pc # "idle" => j <= worker'[p].seen.gen
    BY <2>1, <2>2
  <2>4. CASE webhookCache'[p] = webhookCache[p]
    BY <1>2, <2>1, <2>3, <2>4 DEF WebhookFollows
  <2>5. CASE webhookCache'[p] = webhook[p]
    <3>1. j <= j /\ webhook'[p] = Rules[j] /\ webhookCache'[p] \in {None, Rules[j]}
      BY <2>1, <2>2, <2>5
    <3> QED
      BY <1>2, <2>3, <3>1 DEF WebhookFollows
  <2> QED
    BY <2>4, <2>5
<1> QED
  BY <1>1, <1>2

\* The same of all that ProgressInv says of p.
LEMMA ProgressFrame ==
  ASSUME TypeInv, TypeInv', Safe, Followed, NEW p \in Policies, Progresses(p),
         Spared(p), Undisturbed(p)
  PROVE  Progresses(p)'
<1>1. Past(p)'
  <2>1. /\ worker[p].revision \in Nat
        /\ deployment.version \in Nat /\ deployment'.version \in Nat
        /\ deployment.version <= deployment'.version
    BY DEF TypeInv, TypeOK, Versions, Workers, Undisturbed
  <2> QED
    BY <2>1 DEF Progresses, Past, Spared
<1>2. Retained(p)' => WebhookFollows(p)'
  <2>1. policy[p].gen \in Nat
    BY DEF TypeInv, TypeOK, Objects, NoPolicy, Gens
  <2> QED
    BY <2>1, WebhookFrame DEF Progresses, Retained, Spared
<1> QED
  BY <1>1, <1>2, GoingFrame DEF Progresses

-----------------------------------------------------------------------------
(* The users. *)

\* A write or a deletion leaves the cache behind, unless the policy is gone.
LEMMA UserProgresses ==
  ASSUME TypeInv, TypeInv', Safe, Followed, NEW p \in Policies, Progresses(p), User
  PROVE  Progresses(p)'
<1>1. CASE CreatePolicyServer
  <2>1. Quiet /\ Spared(p)
    BY <1>1 DEF CreatePolicyServer, caches, Quiet, Spared, TypeInv, TypeOK
  <2> QED
    BY <2>1, QuietUndisturbed, ProgressFrame
<1>2. ASSUME NEW q \in Policies, WritesPolicy(q), q # p PROVE Progresses(p)'
  <2>1. Quiet /\ Spared(p)
    BY <1>2 DEF WritesPolicy, caches, Quiet, Spared, TypeInv, TypeOK
  <2> QED
    BY <2>1, QuietUndisturbed, ProgressFrame
<1>3. ASSUME WritesPolicy(p) PROVE Progresses(p)'
  <2>1. /\ UNCHANGED << status, webhook, policyCache, webhookCache, worker, queue, deployment >>
        /\ policy'[p] \in Objects /\ policy'[p] # policy[p]
        /\ policy[p].phase # "gone" /\ policy'[p].phase # "absent"
        /\ policy[p].phase = "deleting" => policy'[p].phase \in {"deleting", "gone"}
        /\ policy[p].gen <= policy'[p].gen
    BY <1>3 DEF WritesPolicy, caches
  <2>2. /\ policy[p] \in Objects /\ policyCache[p] \in Objects
        /\ policy[p].gen \in Nat /\ policyCache[p].gen \in Nat /\ policy'[p].gen \in Nat
        /\ worker[p].pc # "idle" => worker[p].seen.gen \in Nat
    BY <2>1 DEF TypeInv, TypeOK, Objects, NoPolicy, Gens, WorkersHoldPolicies, Workers
  <2>3. Past(p)'
    BY <2>1, <2>2 DEF Progresses, Past
  <2>4. ASSUME policyCache[p] = policy'[p], policy'[p].phase # "gone" PROVE FALSE
    <3>1. policy'[p].gen = policy[p].gen
      BY <2>1, <2>2, <2>4 DEF Progresses, Past
    <3>2. policy[p].phase # policy'[p].phase /\ policy[p].phase \in {"live", "deleting"}
      BY <2>1, <2>2, <2>4, <3>1 DEF Objects, NoPolicy, Gens
    <3>3. policy'[p].phase = "deleting" /\ policy[p].phase = "live"
      BY <2>1, <2>2, <2>4, <3>2 DEF Objects, NoPolicy
    <3> QED
      BY <2>4, <3>3 DEF Progresses, Past
  <2>5. Going(p)'
    BY <2>1, <2>4 DEF Going, UnderWay, StatusStays, OutcomeStays
  <2>6. Retained(p)' => WebhookFollows(p)'
    BY <1>3, <2>1, WriteAges, WebhookFrame DEF Progresses, PolicyAges
  <2> QED
    BY <2>3, <2>5, <2>6 DEF Progresses
<1> QED
  BY <1>1, <1>2, <1>3, UsersWrite DEF User

-----------------------------------------------------------------------------
(* The informers. *)

\* A PolicyServer that appears is reconciled, and its policies are enqueued.
LEMMA SyncPolicyServerProgresses ==
  ASSUME TypeInv, TypeInv', Safe, Followed, ServerKnown, NEW p \in Policies, Progresses(p),
         SyncPolicyServer
  PROVE  Progresses(p)'
<1>1. /\ UNCHANGED << policy, status, webhook, policyCache, webhookCache, worker, configMap,
                      deployment, podCache, serverStatus, serverWorker, faults >>
      /\ queue \subseteq queue' /\ serverQueue' /\ ~policyServerCache
  BY DEF SyncPolicyServer, cluster
<1>2. ServerToCome(p)'
  BY <1>1 DEF ServerKnown, ServerToCome
<1>3. \A v \in Nat : GateStays(v) => GateStays(v)'
  BY <1>1 DEF GateStays
<1>4. deployment.version <= deployment'.version
  BY <1>1 DEF TypeInv, TypeOK, Versions
<1> QED
  BY <1>1, <1>2, <1>3, <1>4, ProgressFrame DEF Undisturbed, Spared, StatusIsExact

\* A pod that the cache shows for the first time, or shows as changed, enqueues the
\* policies of the ConfigMap; one that goes takes nothing from what the gate has seen.
LEMMA SyncPodsProgresses ==
  ASSUME TypeInv, TypeInv', Safe, Followed, NEW p \in Policies, Progresses(p), SyncPods
  PROVE  Progresses(p)'
<1>1. /\ UNCHANGED << policy, status, webhook, policyCache, webhookCache, worker, configMap,
                      deployment, serverStatus, serverQueue, serverWorker, policyServerCache,
                      faults >>
      /\ queue \subseteq queue' /\ podCache' = ListedPods
  BY DEF SyncPods, cluster
<1>2. ServerToCome(p) => ServerToCome(p)'
  BY <1>1 DEF ServerToCome, Configured
<1>3. p \in Configured => p \in queue' \/ \A v \in Nat : GateStays(v) => GateStays(v)'
  <2>1. CASE \E k \in Slots : podCache[k] # ListedPods[k] /\ pods[k] # Vacant
    BY <2>1 DEF SyncPods, findPoliciesForPod
  <2>2. CASE ~\E k \in Slots : podCache[k] # ListedPods[k] /\ pods[k] # Vacant
    <3>1. ASSUME NEW k \in Slots PROVE podCache'[k] \in {podCache[k], Unlisted}
      <4>1. pods[k] = Vacant => ListedPods[k] = Unlisted
        <5>1. pods[k] = Vacant => pods[k].version = 0 /\ pods[k].ready = FALSE
          BY DEF Vacant
        <5>2. ListedPods[k] = [version |-> pods[k].version, ready |-> pods[k].ready]
          BY DEF ListedPods
        <5> QED
          BY <5>1, <5>2 DEF Unlisted
      <4> QED
        BY <1>1, <2>2, <4>1
    <3> QED
      BY <1>1, <3>1 DEF GateStays
  <2> QED
    BY <2>1, <2>2
<1>4. deployment.version <= deployment'.version
  BY <1>1 DEF TypeInv, TypeOK, Versions
<1> QED
  BY <1>1, <1>2, <1>3, <1>4, ProgressFrame DEF Undisturbed, Spared, StatusIsExact

\* An event of a policy enqueues it.
LEMMA SyncPolicyProgresses ==
  ASSUME TypeInv, TypeInv', Safe, Followed, NEW p \in Policies, Progresses(p),
         NEW q \in Policies, SyncPolicy(q)
  PROVE  Progresses(p)'
<1>1. /\ UNCHANGED << policy, status, webhook, webhookCache, worker, deployment >>
      /\ \A r \in Policies \ {q} : policyCache'[r] = policyCache[r]
      /\ policyCache'[q] = policy[q]
      /\ queue' = queue \cup {q}
      /\ Quiet
  BY DEF SyncPolicy, cluster, Quiet, TypeInv, TypeOK
<1>2. CASE p # q
  BY <1>1, <1>2, QuietUndisturbed, ProgressFrame DEF Spared
<1>3. CASE p = q
  <2>1. policy[p].gen \in Nat
    BY DEF TypeInv, TypeOK, Objects, NoPolicy, Gens
  <2>2. Past(p)'
    BY <1>1, <1>3, <2>1 DEF Progresses, Past
  <2>3. Going(p)'
    BY <1>1, <1>3 DEF Going, UnderWay, StatusStays, OutcomeStays
  <2>4. Retained(p)' => WebhookFollows(p)'
    BY <1>1, <2>1, WebhookFrame DEF Progresses, Retained
  <2> QED
    BY <2>2, <2>3, <2>4 DEF Progresses
<1> QED
  BY <1>2, <1>3

\* Every cache may catch up at any moment.
LEMMA InformersProgress ==
  ASSUME TypeInv, TypeInv', Safe, Followed, ServerKnown, NEW p \in Policies, Progresses(p),
         Informers
  PROVE  Progresses(p)'
<1>1. CASE SyncReplicaSets
  <2>1. Quiet /\ Spared(p)
    BY <1>1 DEF SyncReplicaSets, cluster, Quiet, Spared, TypeInv, TypeOK
  <2> QED
    BY <2>1, QuietUndisturbed, ProgressFrame
<1>2. ASSUME NEW q \in Policies, SyncWebhook(q) PROVE Progresses(p)'
  <2>1. Quiet /\ Spared(p)
    BY <1>2 DEF SyncWebhook, cluster, Quiet, Spared, TypeInv, TypeOK
  <2> QED
    BY <2>1, QuietUndisturbed, ProgressFrame
<1> QED
  BY <1>1, <1>2, SyncPolicyServerProgresses, SyncPodsProgresses, SyncPolicyProgresses
  DEF Informers

-----------------------------------------------------------------------------
(* Kubernetes. *)

\* Nothing that Kubernetes does is known before the cache shows it.
LEMMA KubernetesProgresses ==
  ASSUME TypeInv, TypeInv', Safe, Followed, NEW p \in Policies, Progresses(p), Kubernetes
  PROVE  Progresses(p)'
<1>1. Quiet /\ Spared(p)
  <2>1. CASE RollOut
    BY <2>1 DEF RollOut, caches, Quiet, Spared, TypeInv, TypeOK
  <2>2. ASSUME NEW v \in replicaSets, ScaleDown(v) PROVE Quiet /\ Spared(p)
    BY <2>2 DEF ScaleDown, caches, Quiet, Spared, TypeInv, TypeOK
  <2>3. ASSUME NEW k \in Slots, NEW v \in replicaSets, CreatePod(k, v) PROVE Quiet /\ Spared(p)
    BY <2>3 DEF CreatePod, caches, Quiet, Spared, TypeInv, TypeOK
  <2>4. ASSUME NEW k \in Slots, StartPod(k) \/ PodBecomesReady(k) \/ ReplacePod(k)
        PROVE  Quiet /\ Spared(p)
    BY <2>4 DEF StartPod, PodBecomesReady, ReplacePod, caches, Quiet, Spared, TypeInv, TypeOK
  <2> QED
    BY <2>1, <2>2, <2>3, <2>4 DEF Kubernetes
<1> QED
  BY <1>1, QuietUndisturbed, ProgressFrame

-----------------------------------------------------------------------------
(* The PolicyServer reconciler. *)

\* A reconcile of the PolicyServer moves nothing of a policy but its place in the queue.
LEMMA PolicyServerSpares ==
  ASSUME NEW p \in Policies, ReconcilePolicyServer \/ ServerApiError PROVE Spared(p)
  BY DEF ReconcilePolicyServer, StartPolicyServerReconcile, ReconcilePolicyServerConfigMap,
     ReconcilePolicyServerDeployment, UpdatePolicyServerStatus, ServerApiError, cluster, caches,
     Spared

\* A reconcile that starts lists every live policy that the cache shows.
LEMMA StartServerUndisturbed ==
  ASSUME TypeInv, TypeInv', NEW p \in Policies, StartPolicyServerReconcile
  PROVE  Undisturbed(p)
<1>1. /\ UNCHANGED << policy, policyCache, policyServerCache, serverStatus, configMap, podCache,
                      deployment, faults, queue >>
      /\ \/ ~policyServerCache
         \/ serverWorker' = [pc |-> "configMap", desired |-> GetPolicies]
  BY DEF StartPolicyServerReconcile, cluster, caches
<1>2. ASSUME policy[p].phase = "live", p \in Bound, policyCache[p] = policy[p], ServerToCome(p)
      PROVE  ServerToCome(p)'
  <2>1. policyCache[p].gen \in Gens /\ policyCache[p].phase = "live"
    BY <1>2 DEF TypeInv, TypeOK, Objects, NoPolicy
  <2>2. GetPolicies[p] # None
    BY <1>2, <2>1, ConstantsAssumption DEF GetPolicies
  <2> QED
    BY <1>1, <1>2, <2>2 DEF ServerToCome
<1>3. \A v \in Nat : GateStays(v) => GateStays(v)'
  BY <1>1 DEF GateStays
<1>4. deployment.version <= deployment'.version
  BY <1>1 DEF TypeInv, TypeOK, Versions
<1> QED
  BY <1>1, <1>2, <1>3, <1>4 DEF Undisturbed, StatusIsExact

\* The ConfigMap takes what was listed; a new version outdates what was reported.
LEMMA ConfigMapUndisturbed ==
  ASSUME TypeInv, TypeInv', NEW p \in Policies, ReconcilePolicyServerConfigMap
  PROVE  Undisturbed(p)
<1> DEFINE new == serverWorker.desired
<1>1. /\ UNCHANGED << policyServerCache, serverStatus, podCache, deployment, faults, queue >>
      /\ serverWorker.pc = "configMap" /\ serverWorker'.pc = "deployment"
      /\ \/ configMap' = Append(configMap, new)
         \/ UNCHANGED configMap /\ configMap # << >> /\ configMap[Len(configMap)] = new
  BY DEF ReconcilePolicyServerConfigMap, shouldUpdatePolicyMap, IdleServerWorker, caches
<1> HIDE DEF new
<1>2. /\ Len(configMap) \in Nat /\ deployment.version \in 0 .. Len(configMap)
      /\ \/ /\ Len(configMap') = Len(configMap) + 1 /\ configMap'[Len(configMap')] = new
            /\ configMap' # << >>
         \/ UNCHANGED configMap /\ configMap # << >> /\ configMap[Len(configMap)] = new
  BY <1>1 DEF TypeInv, TypeOK, Versions
<1>3. new[p] # None => p \in Configured'
  BY <1>2 DEF Configured
<1>4. ServerToCome(p) => ServerToCome(p)'
  BY <1>1, <1>3 DEF ServerToCome, new
<1>5. \A v \in Nat : GateStays(v) => GateStays(v)'
  BY <1>1 DEF GateStays
<1>6. \A v \in 1 .. deployment.version :
          v = Len(configMap') /\ StatusIsExact' =>
             v = Len(configMap) /\ StatusIsExact /\ configMap'[v] = configMap[v]
  BY <1>1, <1>2 DEF StatusIsExact
<1>7. deployment.version <= deployment'.version
  BY <1>1, <1>2
<1> QED
  BY <1>4, <1>5, <1>6, <1>7 DEF Undisturbed

\* The Deployment's version only grows.
LEMMA DeploymentUndisturbed ==
  ASSUME TypeInv, TypeInv', NEW p \in Policies, ReconcilePolicyServerDeployment
  PROVE  Undisturbed(p)
<1>1. /\ UNCHANGED << policyServerCache, serverStatus, configMap, podCache, faults, queue >>
      /\ serverWorker.pc = "deployment" /\ serverWorker'.pc = "status"
      /\ deployment'.version = Len(configMap)
      /\ deployment.version \in 0 .. Len(configMap) /\ Len(configMap) \in Nat
  BY DEF ReconcilePolicyServerDeployment, policyServerConfigMapVersion, caches, TypeInv, TypeOK,
     Versions
<1>2. ServerToCome(p) => ServerToCome(p)'
  BY <1>1 DEF ServerToCome, Configured
<1>3. \A v \in Nat : GateStays(v) => GateStays(v)'
  BY <1>1 DEF GateStays
<1> QED
  BY <1>1, <1>2, <1>3 DEF Undisturbed, StatusIsExact

\* The first status says that all is reconciled: an event, which enqueues what the
\* ConfigMap lists.
LEMMA ServerStatusUndisturbed ==
  ASSUME TypeInv, TypeInv', NEW p \in Policies, UpdatePolicyServerStatus
  PROVE  Undisturbed(p)
<1>1. /\ UNCHANGED << policyServerCache, configMap, podCache, deployment, faults, policy,
                      policyCache >>
      /\ serverWorker.pc = "status" /\ serverWorker'.pc = "idle"
      /\ ~serverStatus => Configured \subseteq queue'
  BY DEF UpdatePolicyServerStatus, IdleServerWorker, findPoliciesForPolicyServer, caches
<1>2. ServerToCome(p) => ServerToCome(p)' \/ p \in queue'
  BY <1>1 DEF ServerToCome
<1>3. \A v \in Nat : GateStays(v) => GateStays(v)'
  BY <1>1 DEF GateStays
<1>4. deployment.version <= deployment'.version
  BY <1>1 DEF TypeInv, TypeOK, Versions
<1> QED
  BY <1>1, <1>2, <1>3, <1>4 DEF Undisturbed, StatusIsExact

\* A reconcile that failed is repeated.
LEMMA ServerErrorUndisturbed ==
  ASSUME TypeInv, TypeInv', NEW p \in Policies, ServerApiError
  PROVE  Undisturbed(p)
<1>1. /\ UNCHANGED << policyServerCache, configMap, podCache, deployment >>
      /\ faults \in Nat /\ faults' = faults + 1
  BY DEF ServerApiError, caches, TypeInv, TypeOK
<1>2. ServerToCome(p) => ServerToCome(p)'
  <2>1. ~serverStatus => ~serverStatus'
    BY DEF ServerApiError
  <2>2. serverQueue' /\ serverWorker'.pc = "idle"
    BY DEF ServerApiError, IdleServerWorker
  <2> QED
    BY <1>1, <2>1, <2>2 DEF ServerToCome
<1>3. \A v \in Nat : GateStays(v) => GateStays(v)'
  BY <1>1 DEF GateStays
<1>4. deployment.version <= deployment'.version
  BY <1>1 DEF TypeInv, TypeOK, Versions
<1> QED
  BY <1>1, <1>2, <1>3, <1>4 DEF Undisturbed, StatusIsExact

\* The steps of a PolicyServer reconcile.
LEMMA PolicyServerProgresses ==
  ASSUME TypeInv, TypeInv', Safe, Followed, NEW p \in Policies, Progresses(p),
         ReconcilePolicyServer \/ ServerApiError
  PROVE  Progresses(p)'
<1>1. Undisturbed(p)
  BY StartServerUndisturbed, ConfigMapUndisturbed, DeploymentUndisturbed,
     ServerStatusUndisturbed, ServerErrorUndisturbed DEF ReconcilePolicyServer
<1> QED
  BY <1>1, PolicyServerSpares, ProgressFrame

-----------------------------------------------------------------------------
(* What is known of the PolicyServer. *)

\* A PolicyServer that is known exists: it is never deleted here, and a restart lists it.
LEMMA ServerKnownNext ==
  ASSUME TypeInv, ServerKnown, [Next]_vars PROVE ServerKnown'
<1>1. \/ /\ policyServer => policyServer'
         /\ UNCHANGED << policyServerCache, serverStatus, serverWorker >>
      \/ SyncPolicyServer \/ ReconcilePolicyServer \/ ServerApiError \/ Crash
  <2>1. CASE User
    BY <2>1 DEF User, CreatePolicyServer, WritePolicy, DeletePolicy, RemoveFinalizerByHand, caches
  <2>2. CASE Informers
    BY <2>2 DEF Informers, SyncPods, SyncReplicaSets, SyncPolicy, SyncWebhook, cluster
  <2>3. CASE Kubernetes
    BY <2>3 DEF Kubernetes, RollOut, ScaleDown, CreatePod, StartPod, PodBecomesReady,
       ReplacePod, caches
  <2>4. ASSUME NEW p \in Policies, ReconcilePolicy(p)
        PROVE  UNCHANGED << policyServer, policyServerCache, serverStatus, serverWorker >>
    BY <2>4 DEF ReconcilePolicy, StartReconciling, GetDeployment, GetConfigMap,
       ListReplicaSetsAndPods, ReconcileWebhookConfiguration, SetPolicyStatus, UpdateStatus,
       DeleteWebhook, RemoveFinalizer, cluster, caches
  <2>5. CASE Faults
    BY <2>5 DEF Faults, EvictPod, PolicyApiError, caches
  <2>6. CASE UNCHANGED vars
    BY <2>6 DEF vars
  <2> QED
    BY <2>1, <2>2, <2>3, <2>4, <2>5, <2>6 DEF Next
<1>2. ASSUME policyServer => policyServer',
             UNCHANGED << policyServerCache, serverStatus, serverWorker >>
      PROVE  ServerKnown'
  BY <1>2 DEF ServerKnown
<1>3. CASE SyncPolicyServer
  BY <1>3 DEF SyncPolicyServer, ServerKnown, cluster
<1>4. CASE ReconcilePolicyServer
  <2>1. CASE StartPolicyServerReconcile
    BY <2>1 DEF StartPolicyServerReconcile, ServerKnown, cluster, caches
  <2>2. ASSUME UNCHANGED << policyServer, policyServerCache >>, serverWorker.pc # "idle"
        PROVE  ServerKnown'
    BY <2>2 DEF ServerKnown
  <2>3. CASE \/ ReconcilePolicyServerConfigMap \/ ReconcilePolicyServerDeployment
             \/ UpdatePolicyServerStatus
    BY <2>2, <2>3 DEF ReconcilePolicyServerConfigMap, ReconcilePolicyServerDeployment,
       UpdatePolicyServerStatus, caches
  <2> QED
    BY <1>4, <2>1, <2>3 DEF ReconcilePolicyServer
<1>5. CASE ServerApiError
  BY <1>5 DEF ServerApiError, ServerKnown, caches
<1>6. CASE Crash
  <2>1. UNCHANGED << policyServer, serverStatus >> /\ policyServerCache' = policyServer
        /\ serverWorker'.pc = "idle"
    BY <1>6 DEF Crash, IdleServerWorker, cluster
  <2> QED
    BY <2>1 DEF ServerKnown
<1> QED
  BY <1>1, <1>2, <1>3, <1>4, <1>5, <1>6

\* What has been passed of the PolicyServer stays so while the cache of the policies does.
LEMMA ServerPassedFrame ==
  ASSUME ServerPassed, serverQueue => serverQueue',
         UNCHANGED << policyServerCache, serverWorker, configMap, policyCache >>,
         deployment'.version = deployment.version
  PROVE  ServerPassed'
<1>1. GetPolicies' = GetPolicies
  BY DEF GetPolicies
<1> QED
  BY <1>1 DEF ServerPassed

\* What a reconcile of the PolicyServer writes is what the cache holds when it ends, or
\* another one follows.
LEMMA ServerPassedNext ==
  ASSUME TypeInv, ServerKnown, ServerPassed, [Next]_vars PROVE ServerPassed'
<1>1. \/ /\ serverQueue => serverQueue'
         /\ UNCHANGED << policyServerCache, serverWorker, configMap, policyCache >>
         /\ deployment'.version = deployment.version
      \/ SyncPolicyServer
      \/ \E p \in Policies : SyncPolicy(p)
      \/ ReconcilePolicyServer \/ ServerApiError \/ Crash
  <2>1. CASE User
    BY <2>1 DEF User, CreatePolicyServer, WritePolicy, DeletePolicy, RemoveFinalizerByHand, caches
  <2>2. CASE Informers
    BY <2>2 DEF Informers, SyncPods, SyncReplicaSets, SyncWebhook, cluster
  <2>3. CASE Kubernetes
    BY <2>3 DEF Kubernetes, RollOut, ScaleDown, CreatePod, StartPod, PodBecomesReady,
       ReplacePod, caches, TypeInv, TypeOK
  <2>4. ASSUME NEW p \in Policies, ReconcilePolicy(p)
        PROVE  /\ serverQueue => serverQueue'
               /\ UNCHANGED << policyServerCache, serverWorker, configMap, policyCache, deployment >>
    <3>1. UNCHANGED << policyServerCache, serverWorker, configMap, policyCache, deployment >>
      BY <2>4 DEF ReconcilePolicy, StartReconciling, GetDeployment, GetConfigMap,
         ListReplicaSetsAndPods, ReconcileWebhookConfiguration, SetPolicyStatus, UpdateStatus,
         DeleteWebhook, RemoveFinalizer, cluster, caches
    <3>2. UpdateStatus(p) => (serverQueue => serverQueue')
      BY DEF UpdateStatus
    <3>3. UpdateStatus(p) \/ UNCHANGED serverQueue
      BY <2>4 DEF ReconcilePolicy, StartReconciling, GetDeployment, GetConfigMap,
         ListReplicaSetsAndPods, ReconcileWebhookConfiguration, SetPolicyStatus,
         DeleteWebhook, RemoveFinalizer
    <3> QED
      BY <3>1, <3>2, <3>3
  <2>5. CASE Faults
    BY <2>5 DEF Faults, EvictPod, PolicyApiError, caches
  <2>6. CASE UNCHANGED vars
    BY <2>6 DEF vars
  <2> QED
    BY <2>1, <2>2, <2>3, <2>4, <2>5, <2>6 DEF Next
<1>2. CASE SyncPolicyServer
  BY <1>2 DEF SyncPolicyServer, ServerPassed
<1>3. ASSUME NEW p \in Policies, SyncPolicy(p) PROVE ServerPassed'
  <2>1. CASE p \in Bound
    BY <1>3, <2>1 DEF SyncPolicy, ServerPassed
  <2>2. CASE p \notin Bound
    <3>1. \A q \in Bound : policyCache'[q] = policyCache[q]
      BY <1>3, <2>2, ConstantsAssumption DEF SyncPolicy, TypeInv, TypeOK
    <3>2. GetPolicies' = GetPolicies
      BY <3>1 DEF GetPolicies
    <3> QED
      BY <1>3, <3>2 DEF SyncPolicy, ServerPassed, cluster
  <2> QED
    BY <2>1, <2>2
<1>4. CASE StartPolicyServerReconcile
  <2>1. GetPolicies' = GetPolicies
    BY <1>4 DEF StartPolicyServerReconcile, GetPolicies, caches
  <2>2. /\ policyServerCache' = policyServerCache
        /\ policyServerCache => serverWorker' = [pc |-> "configMap", desired |-> GetPolicies]
    BY <1>4 DEF StartPolicyServerReconcile, caches
  <2> QED
    BY <2>1, <2>2 DEF ServerPassed
<1>5. CASE ReconcilePolicyServerConfigMap
  <2> DEFINE new == serverWorker.desired
  <2>1. /\ UNCHANGED << policyServerCache, policyCache, serverQueue >>
        /\ serverWorker.pc = "configMap" /\ serverWorker'.pc = "deployment"
        /\ \/ configMap' = Append(configMap, new)
           \/ UNCHANGED configMap /\ configMap # << >> /\ configMap[Len(configMap)] = new
    BY <1>5 DEF ReconcilePolicyServerConfigMap, shouldUpdatePolicyMap, IdleServerWorker, caches
  <2>2. GetPolicies' = GetPolicies
    BY <2>1 DEF GetPolicies
  <2>3. configMap' # << >> /\ configMap'[Len(configMap')] = new
    BY <2>1 DEF TypeInv, TypeOK
  <2> QED
    BY <2>1, <2>2, <2>3 DEF ServerPassed
<1>6. CASE ReconcilePolicyServerDeployment
  <2>1. /\ UNCHANGED << policyServerCache, policyCache, configMap, serverQueue >>
        /\ serverWorker.pc = "deployment" /\ serverWorker'.pc = "status"
        /\ deployment'.version = Len(configMap)
    BY <1>6 DEF ReconcilePolicyServerDeployment, policyServerConfigMapVersion, caches, TypeInv,
       TypeOK
  <2>2. GetPolicies' = GetPolicies
    BY <2>1 DEF GetPolicies
  <2> QED
    BY <2>1, <2>2 DEF ServerPassed
<1>7. CASE UpdatePolicyServerStatus
  <2>1. /\ UNCHANGED << policyServerCache, policyCache, configMap, deployment >>
        /\ serverWorker.pc = "status" /\ serverWorker'.pc = "idle"
        /\ serverQueue => serverQueue'
    BY <1>7 DEF UpdatePolicyServerStatus, IdleServerWorker, caches
  <2>2. GetPolicies' = GetPolicies
    BY <2>1 DEF GetPolicies
  <2> QED
    BY <2>1, <2>2 DEF ServerPassed
<1>8. CASE ServerApiError
  BY <1>8 DEF ServerApiError, ServerPassed
<1>9. CASE Crash
  BY <1>9 DEF Crash, ServerPassed
<1> QED
  BY <1>1, <1>2, <1>3, <1>4, <1>5, <1>6, <1>7, <1>8, <1>9, ServerPassedFrame
  DEF ReconcilePolicyServer

-----------------------------------------------------------------------------
(* The policy reconcilers. *)

\* A reconcile of p leaves the PolicyServer to its own reconciler.
LEMMA PolicyIsQuiet ==
  ASSUME TypeInv, NEW p \in Policies, ReconcilePolicy(p) \/ PolicyApiError(p)
  PROVE  Quiet /\ UNCHANGED << policyCache, webhookCache, deployment >>
<1>1. UNCHANGED << policyServerCache, serverStatus, serverWorker, configMap, podCache,
                   policyCache, webhookCache, deployment >>
  BY DEF ReconcilePolicy, StartReconciling, GetDeployment, GetConfigMap,
     ListReplicaSetsAndPods, ReconcileWebhookConfiguration, SetPolicyStatus, UpdateStatus,
     DeleteWebhook, RemoveFinalizer, PolicyApiError, cluster, caches
<1>2. UpdateStatus(p) => (serverQueue => serverQueue')
  BY DEF UpdateStatus
<1>3. UpdateStatus(p) \/ UNCHANGED serverQueue
  BY DEF ReconcilePolicy, StartReconciling, GetDeployment, GetConfigMap,
     ListReplicaSetsAndPods, ReconcileWebhookConfiguration, SetPolicyStatus,
     DeleteWebhook, RemoveFinalizer, PolicyApiError
<1>4. faults \in Nat /\ faults' \in {faults, faults + 1}
  BY DEF ReconcilePolicy, StartReconciling, GetDeployment, GetConfigMap,
     ListReplicaSetsAndPods, ReconcileWebhookConfiguration, SetPolicyStatus, UpdateStatus,
     DeleteWebhook, RemoveFinalizer, PolicyApiError, TypeInv, TypeOK
<1> QED
  BY <1>1, <1>2, <1>3, <1>4 DEF Quiet

\* A reconcile of p leaves the other policies alone.
LEMMA OthersProgress ==
  ASSUME TypeInv, TypeInv', Safe, Followed, NEW p \in Policies, NEW q \in Policies \ {p},
         ReconcilePolicy(p) \/ PolicyApiError(p), Progresses(q)
  PROVE  Progresses(q)'
<1>1. policy'[q] = policy[q] /\ status'[q] = status[q] /\ webhook'[q] = webhook[q]
  BY DEF ReconcilePolicy, StartReconciling, GetDeployment, GetConfigMap,
     ListReplicaSetsAndPods, ReconcileWebhookConfiguration, SetPolicyStatus, UpdateStatus,
     DeleteWebhook, RemoveFinalizer, PolicyApiError, cluster, TypeInv, TypeOK
<1>2. worker'[q] = worker[q]
  BY DEF ReconcilePolicy, StartReconciling, GetDeployment, GetConfigMap,
     ListReplicaSetsAndPods, ReconcileWebhookConfiguration, SetPolicyStatus, UpdateStatus,
     DeleteWebhook, RemoveFinalizer, PolicyApiError, Conclude, Becomes, TypeInv, TypeOK
<1>3. q \in queue => q \in queue'
  BY DEF ReconcilePolicy, StartReconciling, GetDeployment, GetConfigMap,
     ListReplicaSetsAndPods, ReconcileWebhookConfiguration, SetPolicyStatus, UpdateStatus,
     DeleteWebhook, RemoveFinalizer, PolicyApiError
<1>4. Quiet /\ UNCHANGED << policyCache, webhookCache >>
  BY PolicyIsQuiet
<1> QED
  BY <1>1, <1>2, <1>3, <1>4, QuietUndisturbed, ProgressFrame DEF Spared

\* A step that leaves the reconcile of p under way: what is to be shown.
LEMMA OutcomeProgresses ==
  ASSUME TypeInv, TypeInv', NEW p \in Policies, Progresses(p),
         ReconcilePolicy(p) \/ PolicyApiError(p),
         UNCHANGED policy, worker[p].pc # "idle", worker'[p].pc # "idle",
         worker'[p].seen = worker[p].seen,
         worker'[p].revision \in {0, worker[p].revision, deployment.revision},
         policy[p].phase = "live" => webhook'[p] = webhook[p] \/ WebhookFollows(p)',
         p \in Bound /\ policy[p].phase = "live" => OutcomeStays(p)'
  PROVE  Progresses(p)'
<1>1. UNCHANGED << policyCache, webhookCache, deployment >>
  BY PolicyIsQuiet
<1>2. /\ policy[p].gen \in Nat
      /\ deployment.version \in Nat /\ 0 <= deployment.version
      /\ deployment.revision <= deployment.version
  BY DEF TypeInv, TypeOK, Objects, NoPolicy, Gens, Versions, RevisionFollowsVersion
<1>3. Past(p)'
  BY <1>1, <1>2 DEF Progresses, Past
<1>4. Retained(p) <=> policy[p].phase = "live"
  BY DEF TypeInv, WorkersHoldPolicies, Retained
<1>5. Retained(p)' => WebhookFollows(p)'
  BY <1>1, <1>2, <1>4, WebhookFrame DEF Progresses, Retained
<1>6. Going(p)'
  BY DEF Going, UnderWay
<1> QED
  BY <1>3, <1>5, <1>6 DEF Progresses

\* A reconcile that starts reads the policy live, and waits for a PolicyServer that is
\* not yet known.
LEMMA StartProgresses ==
  ASSUME TypeInv, TypeInv', NEW p \in Policies, Progresses(p), StartReconciling(p)
  PROVE  Progresses(p)'
<1> DEFINE first == FirstStep(p)
           w == [IdleWorker EXCEPT !.seen = policy[p], !.pc = first.pc, !.outcome = first.outcome]
<1>1. /\ UNCHANGED << policy, status, webhook, policyCache, webhookCache, deployment,
                      policyServerCache >>
      /\ worker[p].pc = "idle"
      /\ \/ policy[p].phase \in {"absent", "gone"} /\ UNCHANGED worker
         \/ policy[p].phase \notin {"absent", "gone"} /\ Becomes(p, w)
  BY DEF StartReconciling, cluster, caches
<1>2. CASE policy[p].phase \in {"absent", "gone"} /\ UNCHANGED worker
  BY <1>1, <1>2 DEF Progresses, Past, Going, Retained, WebhookFollows
<1>3. CASE policy[p].phase \notin {"absent", "gone"} /\ Becomes(p, w)
  <2>1. /\ first.pc \in {"deleteWebhook", "inspect", "deployment"}
        /\ p \in Bound /\ policy[p].phase = "live" =>
              \/ first.pc = "deployment"
              \/ first.pc = "inspect" /\ first.outcome = "scheduled" /\ ~policyServerCache
    BY DEF FirstStep
  <2> HIDE DEF first
  <2>2. w.seen = policy[p] /\ w.pc = first.pc /\ w.outcome = first.outcome /\ w.revision = 0
    BY DEF IdleWorker
  <2> HIDE DEF w
  <2>3. worker'[p] = w
    BY <1>3, WorkerBecomes
  <2>4. policy[p].gen \in Nat /\ deployment.version \in Nat
    BY DEF TypeInv, TypeOK, Objects, NoPolicy, Gens, Versions
  <2>5. Past(p)'
    BY <1>1, <2>2, <2>3, <2>4 DEF Progresses, Past
  <2>6. Retained(p)' => WebhookFollows(p)'
    BY <1>1, <2>2, <2>3, <2>4, WebhookFrame DEF Progresses, Retained
  <2>7. p \in Bound /\ policy[p].phase = "live" => OutcomeStays(p)'
    BY <1>1, <2>1, <2>2, <2>3 DEF OutcomeStays, ServerToCome
  <2>8. Going(p)'
    BY <1>1, <2>1, <2>2, <2>3, <2>7 DEF Going, UnderWay
  <2> QED
    BY <2>5, <2>6, <2>8 DEF Progresses
<1> QED
  BY <1>1, <1>2, <1>3

\* A reconcile that concludes with an outcome for which it is repeated.
LEMMA RequeueProgresses ==
  ASSUME TypeInv, TypeInv', NEW p \in Policies, Progresses(p),
         ReconcilePolicy(p) \/ PolicyApiError(p),
         UNCHANGED policy, worker[p].pc # "idle",
         NEW o \in {"pending", "unreachable", "notRegistered"}, Conclude(p, o),
         policy[p].phase = "live" => webhook'[p] = webhook[p] \/ WebhookFollows(p)'
  PROVE  Progresses(p)'
<1>1. /\ worker'[p].pc = "inspect" /\ worker'[p].outcome = o
      /\ worker'[p].seen = worker[p].seen /\ worker'[p].revision = 0
  BY WorkerConcludes
<1>2. OutcomeStays(p)'
  BY <1>1 DEF OutcomeStays, Requeues
<1> QED
  BY <1>1, <1>2, OutcomeProgresses

\* The first two calls decide nothing but that the reconcile is repeated.
LEMMA ReadsProgress ==
  ASSUME TypeInv, TypeInv', NEW p \in Policies, Progresses(p), GetDeployment(p) \/ GetConfigMap(p)
  PROVE  Progresses(p)'
<1> DEFINE w == [worker[p] EXCEPT !.pc = "configMap", !.revision = deployment.revision]
           x == [worker[p] EXCEPT !.pc = "pods", !.version = Len(configMap)]
<1>1. /\ UNCHANGED << policy, webhook >> /\ worker[p].pc # "idle"
      /\ \/ Conclude(p, "pending") \/ Conclude(p, "unreachable")
         \/ Becomes(p, w) \/ Becomes(p, x)
  BY DEF GetDeployment, GetConfigMap, cluster
<1>2. worker[p] \in Workers
  BY DEF TypeInv, TypeOK
<1>3. /\ w.pc = "configMap" /\ w.seen = worker[p].seen /\ w.revision = deployment.revision
      /\ x.pc = "pods" /\ x.seen = worker[p].seen /\ x.revision = worker[p].revision
  BY <1>2 DEF Workers
<1> HIDE DEF w, x
<1>4. ReconcilePolicy(p)
  BY DEF ReconcilePolicy
<1>5. CASE Conclude(p, "pending") \/ Conclude(p, "unreachable")
  BY <1>1, <1>4, <1>5, RequeueProgresses
<1>6. CASE Becomes(p, w) \/ Becomes(p, x)
  <2>1. worker'[p] \in {w, x}
    BY <1>6, WorkerBecomes
  <2>2. OutcomeStays(p)'
    BY <1>3, <2>1 DEF OutcomeStays
  <2> QED
    BY <1>1, <1>3, <1>4, <2>1, <2>2, OutcomeProgresses
<1> QED
  BY <1>1, <1>5, <1>6

\* The gate is passed only when all pods that the cache shows are of one version, which
\* the Deployment has.
LEMMA GateProgresses ==
  ASSUME TypeInv, TypeInv', NEW p \in Policies, Progresses(p), ListReplicaSetsAndPods(p)
  PROVE  Progresses(p)'
<1> DEFINE w == [worker[p] EXCEPT !.pc = "webhook", !.revision = 0, !.version = 0]
<1>1. /\ UNCHANGED << policy, webhook, podCache, deployment >> /\ worker[p].pc # "idle"
      /\ \/ Conclude(p, "unreachable")
         \/ isUniquelyReachable(worker[p].revision, worker[p].version) /\ Becomes(p, w)
  BY DEF ListReplicaSetsAndPods, cluster, caches
<1>2. ReconcilePolicy(p)
  BY DEF ReconcilePolicy
<1>3. CASE Conclude(p, "unreachable")
  BY <1>1, <1>2, <1>3, RequeueProgresses
<1>4. CASE isUniquelyReachable(worker[p].revision, worker[p].version) /\ Becomes(p, w)
  <2>1. worker[p] \in Workers
    BY DEF TypeInv, TypeOK
  <2>2. w.pc = "webhook" /\ w.seen = worker[p].seen /\ w.revision = 0
    BY <2>1 DEF Workers
  <2> HIDE DEF w
  <2>3. worker'[p] = w
    BY <1>4, WorkerBecomes
  <2>4. PICK v \in 1 .. replicaSetCache :
            /\ v = worker[p].revision
            /\ \E k \in Slots : podCache[k] # Unlisted
            /\ \A k \in Slots : podCache[k] # Unlisted => podCache[k].version = v
    BY <1>4 DEF isUniquelyReachable, isLatestReplicaSetFromPolicyServerDeployment
  <2>5. v \in 1 .. deployment.version
    BY <2>4 DEF Progresses, Past, TypeInv, TypeOK, Versions
  <2>6. GateStays(v)' /\ v \in 1 .. deployment'.version
    BY <1>1, <2>4, <2>5 DEF GateStays
  <2>7. OutcomeStays(p)'
    BY <2>2, <2>3, <2>6 DEF OutcomeStays
  <2> QED
    BY <1>1, <1>2, <2>2, <2>3, <2>7, OutcomeProgresses
<1> QED
  BY <1>1, <1>3, <1>4

\* What a reconcile writes to the webhook is of the spec it has seen, unless the cache
\* shows that already: then so is the webhook, if no edit has been reversed.
LEMMA WebhookWritten ==
  ASSUME TypeInv, NEW p \in Policies, Past(p), WebhookFollows(p), worker[p].pc = "webhook",
         webhook'[p] = ReconciledWebhook(p), webhookCache'[p] = webhookCache[p],
         policy'[p] = policy[p], worker'[p].seen = worker[p].seen
  PROVE  WebhookFollows(p)' /\ (RulesApart => webhook'[p] = Rules[worker[p].seen.gen])
<1> DEFINE g == worker[p].seen.gen
<1>1. g \in Gens /\ g <= policy'[p].gen /\ g <= g /\ Rules[g] # None
  <2>1. worker[p].seen \in Objects /\ worker[p].seen.phase \in {"live", "deleting"}
    BY DEF TypeInv, TypeOK, WorkersHoldPolicies, Workers
  <2>2. g \in Gens
    BY <2>1 DEF Objects, NoPolicy
  <2> QED
    BY <2>2, ConstantsAssumption DEF Past, Gens
<1>2. webhook'[p] = IF webhook[p] = None \/ webhookCache[p] # Rules[g] THEN Rules[g] ELSE webhook[p]
  BY DEF ReconciledWebhook
<1>3. g = worker'[p].seen.gen
  OBVIOUS
<1> HIDE DEF g
<1>4. CASE webhook[p] = None
  <2>1. webhookCache'[p] = None /\ webhook'[p] = Rules[g]
    BY <1>2, <1>4 DEF WebhookFollows
  <2> QED
    BY <1>1, <1>3, <2>1 DEF WebhookFollows, g
<1>5. CASE webhook[p] # None
  <2>1. PICK i \in Gens, j \in Gens :
            /\ i <= j /\ j <= policy[p].gen /\ j <= g
            /\ webhook[p] = Rules[j] /\ webhookCache[p] \in {None, Rules[i]}
    BY <1>5 DEF WebhookFollows, g
  <2>2. i <= g
    BY <1>1, <2>1 DEF Gens
  <2>3. CASE webhookCache[p] # Rules[g]
    <3>1. webhook'[p] = Rules[g]
      BY <1>2, <2>3
    <3> QED
      BY <1>1, <1>3, <2>1, <2>2, <3>1 DEF WebhookFollows, g
  <2>4. CASE webhookCache[p] = Rules[g]
    <3>1. webhook'[p] = Rules[j] /\ Rules[i] = Rules[g]
      BY <1>1, <1>2, <1>5, <2>1, <2>4
    <3>2. RulesApart => Rules[j] = Rules[g]
      BY <1>1, <2>1, <3>1 DEF RulesApart
    <3>3. WebhookFollows(p)'
      BY <1>3, <1>5, <2>1, <3>1 DEF WebhookFollows
    <3> QED
      BY <3>1, <3>2, <3>3 DEF g
  <2> QED
    BY <2>3, <2>4
<1> QED
  BY <1>4, <1>5

\* The webhook is registered, or the reconcile is repeated.
LEMMA WebhookProgresses ==
  ASSUME TypeInv, TypeInv', Followed, NEW p \in Policies, Progresses(p),
         ReconcileWebhookConfiguration(p)
  PROVE  Progresses(p)'
<1>1. /\ UNCHANGED << policy, podCache, deployment, policyCache, webhookCache, queue >>
      /\ worker[p].pc = "webhook"
      /\ \/ Conclude(p, "notRegistered") /\ UNCHANGED webhook
         \/ Conclude(p, "registered") /\ webhook'[p] = ReconciledWebhook(p)
  BY DEF ReconcileWebhookConfiguration, caches, TypeInv, TypeOK
<1>2. ReconcilePolicy(p)
  BY DEF ReconcilePolicy
<1>3. CASE Conclude(p, "notRegistered") /\ UNCHANGED webhook
  BY <1>1, <1>2, <1>3, RequeueProgresses
<1>4. CASE Conclude(p, "registered") /\ webhook'[p] = ReconciledWebhook(p)
  <2>1. /\ worker'[p].pc = "inspect" /\ worker'[p].outcome = "registered"
        /\ worker'[p].seen = worker[p].seen /\ worker'[p].revision = 0
    BY <1>4, WorkerConcludes
  <2>2. policy[p].phase = "live" =>
           WebhookFollows(p)' /\ (RulesApart => webhook'[p] = Rules[worker'[p].seen.gen])
    BY <1>1, <1>4, <2>1, WebhookWritten DEF Progresses, Retained
  <2>3. ASSUME p \in Bound, policy[p].phase = "live" PROVE OutcomeStays(p)'
    <3>1. OutcomeStays(p)
      BY <1>1, <2>3 DEF Progresses, Going
    <3>2. CASE p \in queue \/ policyCache[p] # policy[p] \/ worker[p].seen # policy[p]
      BY <1>1, <2>1, <3>2 DEF OutcomeStays
    <3>3. ASSUME NEW v \in 1 .. deployment.version, GateStays(v) PROVE OutcomeStays(p)'
      <4>1. v \in 1 .. deployment'.version /\ GateStays(v)'
        BY <1>1, <3>3 DEF GateStays
      <4> QED
        BY <2>1, <2>2, <2>3, <4>1 DEF OutcomeStays, Registered
    <3> QED
      BY <1>1, <3>1, <3>2, <3>3 DEF OutcomeStays
  <2> QED
    BY <1>1, <1>2, <2>1, <2>2, <2>3, OutcomeProgresses
<1> QED
  BY <1>1, <1>3, <1>4

\* The status is filled in from the live ConfigMap and Deployment; after an error it
\* keeps what it said.
LEMMA InspectProgresses ==
  ASSUME TypeInv, TypeInv', NEW p \in Policies, Progresses(p),
         worker[p].pc = "inspect", SetPolicyStatus(p) \/ PolicyApiError(p)
  PROVE  Progresses(p)'
<1>1. UNCHANGED << policy, webhook, queue, configMap >>
  BY DEF SetPolicyStatus, PolicyApiError, cluster, caches
<1>2. ReconcilePolicy(p) \/ PolicyApiError(p)
  BY DEF ReconcilePolicy
<1>3. Quiet /\ UNCHANGED << policyCache, deployment >>
  BY <1>2, PolicyIsQuiet
<1>4. /\ worker'[p].pc = "update" /\ worker'[p].seen = worker[p].seen
      /\ worker'[p].revision = worker[p].revision /\ worker'[p].outcome = worker[p].outcome
      /\ \/ ~StatusIsExact'
         \/ p \in Bound /\ deployment.version # 0 =>
               /\ deployment.version = Len(configMap) => worker'[p].upToDate = TRUE
               /\ worker'[p].mode = configMap[Len(configMap)][p]
  <2>1. worker[p] \in Workers /\ faults \in Nat
    BY DEF TypeInv, TypeOK
  <2>2. CASE SetPolicyStatus(p)
    <3> DEFINE u == IF p \in Bound /\ deployment.version # 0
                    THEN deployment.version = Len(configMap) ELSE status[p].upToDate
               m == IF p \in Bound /\ deployment.version # 0
                    THEN configMap[Len(configMap)][p] ELSE status[p].mode
               w == [worker[p] EXCEPT !.pc = "update", !.upToDate = u, !.mode = m]
    <3>1. Becomes(p, w)
      BY <2>2 DEF SetPolicyStatus
    <3>2. p \in Bound /\ deployment.version # 0 =>
             /\ deployment.version = Len(configMap) => u = TRUE
             /\ m = configMap[Len(configMap)][p]
      OBVIOUS
    <3> HIDE DEF u, m
    <3>3. /\ w.pc = "update" /\ w.seen = worker[p].seen /\ w.revision = worker[p].revision
          /\ w.outcome = worker[p].outcome /\ w.upToDate = u /\ w.mode = m
      BY <2>1 DEF Workers
    <3> HIDE DEF w
    <3>4. worker'[p] = w
      BY <3>1, WorkerBecomes
    <3> QED
      BY <3>2, <3>3, <3>4
  <2>3. CASE PolicyApiError(p)
    <3> DEFINE w == [worker[p] EXCEPT !.pc = "update", !.upToDate = status[p].upToDate,
                                      !.mode = status[p].mode]
    <3>1. Becomes(p, w) /\ faults' = faults + 1 /\ StatusReadsFail
      BY <2>3 DEF PolicyApiError
    <3>2. /\ w.pc = "update" /\ w.seen = worker[p].seen /\ w.revision = worker[p].revision
          /\ w.outcome = worker[p].outcome
      BY <2>1 DEF Workers
    <3> HIDE DEF w
    <3>3. worker'[p] = w
      BY <3>1, WorkerBecomes
    <3> QED
      BY <2>1, <3>1, <3>2, <3>3 DEF StatusIsExact
  <2> QED
    BY <2>2, <2>3
<1>5. ASSUME p \in Bound, policy[p].phase = "live" PROVE OutcomeStays(p)'
  <2>1. OutcomeStays(p)
    BY <1>5 DEF Progresses, Going
  <2>2. CASE p \in queue \/ policyCache[p] # policy[p] \/ worker[p].seen # policy[p]
    BY <1>1, <1>3, <1>4, <2>2 DEF OutcomeStays
  <2>3. CASE Requeues(worker[p].outcome)
    BY <1>4, <2>3 DEF OutcomeStays, Requeues
  <2>4. CASE worker[p].outcome = "scheduled" /\ ServerToCome(p)
    BY <1>3, <1>4, <2>4, QuietKeeps DEF OutcomeStays
  <2>5. ASSUME NEW v \in 1 .. deployment.version, GateStays(v),
               worker[p].outcome = "registered", Registered(p, worker[p].seen.gen)
        PROVE  OutcomeStays(p)'
    <3>1. v \in 1 .. deployment'.version /\ GateStays(v)'
      BY <1>3, <2>5 DEF GateStays, Quiet
    <3>2. RulesApart => webhook'[p] = Rules[worker'[p].seen.gen]
      BY <1>1, <1>4, <2>5 DEF Registered
    <3>3. v = Len(configMap') /\ StatusIsExact' =>
             worker'[p].mode = configMap'[v][p] /\ worker'[p].upToDate = TRUE
      BY <1>1, <1>4, <1>5 DEF TypeInv, TypeOK, Versions
    <3> QED
      BY <1>4, <2>5, <3>1, <3>2, <3>3 DEF OutcomeStays, Registered, Reported
  <2> QED
    BY <2>1, <2>2, <2>3, <2>4, <2>5 DEF OutcomeStays
<1> QED
  BY <1>1, <1>2, <1>4, <1>5, OutcomeProgresses

\* The status is saved, and an event follows if it changed; or the reconcile is repeated.
LEMMA UpdateProgresses ==
  ASSUME TypeInv, TypeInv', Followed, NEW p \in Policies, Progresses(p), UpdateStatus(p)
  PROVE  Progresses(p)'
<1>1. /\ UNCHANGED << policy, webhook, policyCache, webhookCache, deployment, configMap, podCache >>
      /\ worker[p].pc = "update" /\ Becomes(p, IdleWorker)
      /\ queue \subseteq queue'
      /\ faults' = faults
  BY DEF UpdateStatus, caches
<1>2. worker'[p] = IdleWorker /\ worker'[p].pc = "idle" /\ worker'[p].revision = 0
  BY <1>1, WorkerBecomes DEF IdleWorker
<1>3. policy[p].gen \in Nat /\ deployment.version \in Nat
  BY DEF TypeInv, TypeOK, Objects, NoPolicy, Gens, Versions
<1>4. Past(p)'
  BY <1>1, <1>2, <1>3 DEF Progresses, Past
<1>5. Retained(p)' => WebhookFollows(p)'
  BY <1>1, <1>2, <1>3, WebhookFrame DEF Progresses, Retained
<1>6. policy[p].phase = "deleting" => p \in queue'
  <2>1. worker[p].seen.phase = "live"
    BY <1>1 DEF Followed, WorkersFollowPhase
  <2> QED
    BY <2>1 DEF UpdateStatus, SavesStatus, IsCurrent
<1>7. ASSUME p \in Bound, policy[p].phase = "live" PROVE StatusStays(p)'
  <2>1. CASE p \in queue' \/ policyCache[p] # policy[p]
    BY <1>1, <2>1 DEF StatusStays
  <2>2. CASE p \notin queue' /\ policyCache[p] = policy[p]
    <3>1. /\ policy[p] = worker[p].seen /\ ~Requeues(worker[p].outcome)
          /\ status' = [status EXCEPT ![p] = ReconciledStatus(p)]
      BY <2>2 DEF UpdateStatus, SavesStatus, IsCurrent
    <3>2. status'[p] = ReconciledStatus(p)
      BY <3>1 DEF TypeInv, TypeOK
    <3>3. /\ OutcomeStays(p) /\ worker[p].pc = "update"
          /\ p \notin queue /\ policyCache[p] = policy[p] /\ worker[p].seen = policy[p]
          /\ ~Requeues(worker[p].outcome)
      BY <1>1, <1>7, <2>2, <3>1 DEF Progresses, Going
    <3>4. CASE ServerToCome(p)
      <4>1. ReconcilePolicy(p)
        BY DEF ReconcilePolicy
      <4>2. ServerToCome(p)'
        BY <3>4, <4>1, PolicyIsQuiet, QuietKeeps
      <4> QED
        BY <4>2 DEF StatusStays
    <3>5. ASSUME NEW v \in 1 .. deployment.version, GateStays(v),
                 worker[p].outcome = "registered", Registered(p, worker[p].seen.gen),
                 Reported(p, v, worker[p].mode, worker[p].upToDate)
          PROVE  StatusStays(p)'
      <4>1. /\ status'[p].policyStatus = "active"
            /\ status'[p].active = TRUE /\ status'[p].reachable = TRUE
            /\ status'[p].mode = worker[p].mode /\ status'[p].upToDate = worker[p].upToDate
        <5>1. PolicyActive(p)
          BY <3>5 DEF PolicyActive
        <5>2. PolicyStatus(p) = "active"
          BY <3>5, <5>1 DEF PolicyStatus
        <5>3. PolicyUniquelyReachable(p) = TRUE
          BY <3>5 DEF PolicyUniquelyReachable
        <5> QED
          BY <3>2, <5>1, <5>2, <5>3 DEF ReconciledStatus
      <4>2. v \in 1 .. deployment'.version /\ GateStays(v)'
        BY <1>1, <3>5 DEF GateStays
      <4>3. RulesApart => webhook'[p] = Rules[policy'[p].gen]
        BY <1>1, <3>1, <3>5 DEF Registered
      <4>4. v = Len(configMap') /\ StatusIsExact' =>
               status'[p].mode = configMap'[v][p] /\ status'[p].upToDate
        BY <1>1, <3>5, <4>1 DEF Reported, StatusIsExact
      <4> QED
        BY <4>1, <4>2, <4>3, <4>4 DEF StatusStays, Registered, Reported
    <3> QED
      BY <3>3, <3>4, <3>5 DEF OutcomeStays
  <2> QED
    BY <2>1, <2>2
<1>8. Going(p)'
  BY <1>1, <1>2, <1>6, <1>7 DEF Going, UnderWay
<1> QED
  BY <1>4, <1>5, <1>8 DEF Progresses

\* A policy that is being deleted is so until its finalizer goes.
LEMMA DeleteProgresses ==
  ASSUME TypeInv, TypeInv', Followed, NEW p \in Policies, Progresses(p), DeleteWebhook(p)
  PROVE  Progresses(p)'
<1> DEFINE w == [worker[p] EXCEPT !.pc = "removeFinalizer"]
<1>1. UNCHANGED policy /\ worker[p].pc = "deleteWebhook" /\ Becomes(p, w)
  BY DEF DeleteWebhook
<1>2. worker[p] \in Workers
  BY DEF TypeInv, TypeOK
<1>3. w.pc = "removeFinalizer" /\ w.seen = worker[p].seen /\ w.revision = worker[p].revision
  BY <1>2 DEF Workers
<1> HIDE DEF w
<1>4. worker'[p] = w
  BY <1>1, WorkerBecomes
<1>5. policy[p].phase # "live"
  BY <1>1 DEF Followed, WorkersFollowPhase
<1>6. ReconcilePolicy(p)
  BY DEF ReconcilePolicy
<1> QED
  BY <1>1, <1>3, <1>4, <1>5, <1>6, OutcomeProgresses

\* A policy that is gone needs no more; a conflict leads to another attempt.
LEMMA RemoveProgresses ==
  ASSUME TypeInv, TypeInv', NEW p \in Policies, Progresses(p), RemoveFinalizer(p)
  PROVE  Progresses(p)'
<1>1. UNCHANGED << webhook, webhookCache, policyCache, deployment >> /\ Becomes(p, IdleWorker)
  BY DEF RemoveFinalizer, caches
<1>2. worker'[p].pc = "idle" /\ worker'[p].revision = 0
  BY <1>1, WorkerBecomes DEF IdleWorker
<1>3. deployment.version \in Nat /\ policy[p].gen \in Nat
  BY DEF TypeInv, TypeOK, Objects, NoPolicy, Gens, Versions
<1>4. CASE RemovesPolicy(p)
  BY <1>1, <1>2, <1>3, <1>4 DEF RemovesPolicy, Progresses, Past, Going, Retained
<1>5. CASE UNCHANGED policy /\ queue' = queue \cup {p}
  <2>1. Past(p)'
    BY <1>1, <1>2, <1>3, <1>5 DEF Progresses, Past
  <2>2. Retained(p)' => WebhookFollows(p)'
    BY <1>1, <1>2, <1>3, <1>5, WebhookFrame DEF Progresses, Retained
  <2>3. Going(p)'
    BY <1>2, <1>5 DEF Going, UnderWay, StatusStays
  <2> QED
    BY <2>1, <2>2, <2>3 DEF Progresses
<1> QED
  BY <1>4, <1>5, Removes

\* The steps of a policy reconcile.
LEMMA PolicyProgresses ==
  ASSUME TypeInv, TypeInv', Safe, Followed, NEW p \in Policies, NEW q \in Policies,
         Progresses(q), ReconcilePolicy(p)
  PROVE  Progresses(q)'
<1>1. CASE p = q
  <2>1. SetPolicyStatus(p) => worker[p].pc = "inspect"
    BY DEF SetPolicyStatus
  <2> QED
    BY <1>1, <2>1, StartProgresses, ReadsProgress, GateProgresses, WebhookProgresses,
       InspectProgresses, UpdateProgresses, DeleteProgresses, RemoveProgresses DEF ReconcilePolicy
<1>2. CASE p # q
  BY <1>2, OthersProgress
<1> QED
  BY <1>1, <1>2

-----------------------------------------------------------------------------
(* Faults. *)

\* An error leads to a requeue, at once or when the reconcile ends.
LEMMA ErrorProgresses ==
  ASSUME TypeInv, TypeInv', Safe, Followed, NEW p \in Policies, Progresses(p), PolicyApiError(p)
  PROVE  Progresses(p)'
<1>1. UNCHANGED << policy, policyCache, webhookCache, deployment, status >>
  BY DEF PolicyApiError, caches
<1>2. CASE worker[p].pc \in {"deployment", "configMap", "pods"}
  <2>1. PICK o \in {"pending", "unreachable"} : Conclude(p, o) /\ UNCHANGED webhook
    BY <1>2 DEF PolicyApiError
  <2> QED
    BY <1>1, <1>2, <2>1, RequeueProgresses
<1>3. CASE worker[p].pc = "webhook"
  <2>1. /\ Conclude(p, "notRegistered")
        /\ webhook'[p] \in {webhook[p], ReconciledWebhook(p)}
    BY <1>3 DEF PolicyApiError, TypeInv, TypeOK
  <2>2. worker'[p].seen = worker[p].seen
    BY <2>1, WorkerConcludes
  <2>3. policy[p].phase = "live" => webhook'[p] = webhook[p] \/ WebhookFollows(p)'
    BY <1>1, <1>3, <2>1, <2>2, WebhookWritten DEF Progresses, Retained
  <2> QED
    BY <1>1, <1>3, <2>1, <2>3, RequeueProgresses
<1>4. CASE worker[p].pc \in {"update", "deleteWebhook", "removeFinalizer"}
  <2>1. Becomes(p, IdleWorker) /\ p \in queue' /\ UNCHANGED webhook
    BY <1>4 DEF PolicyApiError
  <2>2. worker'[p].pc = "idle" /\ worker'[p].revision = 0
    BY <2>1, WorkerBecomes DEF IdleWorker
  <2>3. policy[p].gen \in Nat /\ deployment.version \in Nat
    BY DEF TypeInv, TypeOK, Objects, NoPolicy, Gens, Versions
  <2>4. Past(p)'
    BY <1>1, <2>2, <2>3 DEF Progresses, Past
  <2>5. Retained(p)' => WebhookFollows(p)'
    BY <1>1, <2>1, <2>2, <2>3, WebhookFrame DEF Progresses, Retained
  <2>6. Going(p)'
    BY <2>1, <2>2 DEF Going, UnderWay, StatusStays
  <2> QED
    BY <2>4, <2>5, <2>6 DEF Progresses
<1> QED
  BY <1>2, <1>3, <1>4, InspectProgresses DEF PolicyApiError

\* A restart enqueues every policy that exists, and lists everything afresh.
LEMMA CrashProgresses ==
  ASSUME TypeInv, TypeInv', NEW p \in Policies, Progresses(p), Crash
  PROVE  Progresses(p)'
<1>1. /\ UNCHANGED << policy, webhook, deployment >>
      /\ worker'[p] = IdleWorker
      /\ policyCache' = policy /\ webhookCache' = webhook
      /\ policy[p].phase \in {"live", "deleting"} => p \in queue'
  BY DEF Crash, cluster
<1>2. worker'[p].pc = "idle" /\ worker'[p].revision = 0
  BY <1>1 DEF IdleWorker
<1>3. policy[p].gen \in Nat /\ deployment.version \in Nat
  BY DEF TypeInv, TypeOK, Objects, NoPolicy, Gens, Versions
<1>4. Past(p)'
  BY <1>1, <1>2, <1>3 DEF Past
<1>5. Retained(p)' => WebhookFollows(p)'
  BY <1>1, <1>2, <1>3, WebhookFrame DEF Progresses, Retained
<1>6. Going(p)'
  BY <1>1, <1>2 DEF Going, UnderWay, StatusStays
<1> QED
  BY <1>4, <1>5, <1>6 DEF Progresses

\* Errors, evictions and restarts stop no reconcile for good.
LEMMA FaultsProgress ==
  ASSUME TypeInv, TypeInv', Safe, Followed, NEW p \in Policies, Progresses(p), Faults
  PROVE  Progresses(p)'
<1>1. ASSUME NEW k \in Slots, EvictPod(k) PROVE Progresses(p)'
  <2>1. Quiet /\ Spared(p)
    BY <1>1 DEF EvictPod, caches, Quiet, Spared, TypeInv, TypeOK
  <2> QED
    BY <2>1, QuietUndisturbed, ProgressFrame
<1>2. ASSUME NEW q \in Policies, PolicyApiError(q) PROVE Progresses(p)'
  <2>1. CASE p = q
    BY <1>2, <2>1, ErrorProgresses
  <2>2. CASE p # q
    BY <1>2, <2>2, OthersProgress
  <2> QED
    BY <2>1, <2>2
<1> QED
  BY <1>1, <1>2, CrashProgresses, PolicyServerProgresses DEF Faults

-----------------------------------------------------------------------------
(* The theorems. *)

\* There is no policy yet.
LEMMA InitProgress == Init => ProgressInv
<1> SUFFICES ASSUME Init PROVE ProgressInv
  OBVIOUS
<1>1. ServerKnown /\ ServerPassed
  BY DEF Init, ServerKnown, ServerPassed, IdleServerWorker
<1>2. \A p \in Policies : Progresses(p)
  BY DEF Init, Progresses, Past, Going, WebhookFollows, NoPolicy, IdleWorker
<1> QED
  BY <1>1, <1>2, ProgressParts

\* ProgressInv is inductive, given IInv.
LEMMA NextProgress ==
  ASSUME TypeInv, TypeInv', Safe, Followed, ProgressInv, [Next]_vars PROVE ProgressInv'
<1>1. ServerKnown' /\ ServerPassed'
  BY ProgressParts, ServerKnownNext, ServerPassedNext
<1>2. ASSUME NEW p \in Policies PROVE Progresses(p)'
  <2>1. ServerKnown /\ Progresses(p)
    BY ProgressParts
  <2>2. CASE UNCHANGED vars
    <3>1. Quiet /\ Spared(p)
      BY <2>2 DEF vars, Quiet, Spared, TypeInv, TypeOK
    <3> QED
      BY <2>1, <3>1, QuietUndisturbed, ProgressFrame
  <2> QED
    BY <2>1, <2>2, UserProgresses, InformersProgress, KubernetesProgresses,
       PolicyServerProgresses, PolicyProgresses, FaultsProgress DEF Next
<1>3. CopiesAreOfThePast'
  BY <1>1, <1>2 DEF CopiesAreOfThePast, ServerKnown, Progresses, Past
<1>4. DeletionStaysUnderWay'
  BY <1>2 DEF DeletionStaysUnderWay, Progresses, Going
<1>5. \A p \in Bound : policy'[p].phase = "live" =>
         IF worker'[p].pc = "idle" THEN StatusStays(p)' ELSE OutcomeStays(p)'
  BY <1>2, ConstantsAssumption DEF Progresses, Going
<1> QED
  BY <1>1, <1>2, <1>3, <1>4, <1>5 DEF ProgressInv, Progresses

\* Whatever the users, the caches, the faults and the order of calls: a controller that
\* rests has nothing left to do, or an event is on its way to it.
THEOREM RolloutProgress == Spec => []ProgressInv
<1>1. IInv => TypeInv /\ Safe /\ Followed
  BY DEF IInv, TypeInv, Safe, Followed
<1>2. IInv /\ IInv' /\ ProgressInv /\ [Next]_vars => ProgressInv'
  <2>1. IInv' => TypeInv'
    BY DEF IInv, TypeInv
  <2> QED
    BY <1>1, <2>1, NextProgress
<1> QED
  BY <1>2, InitProgress, IInvHolds, PTL DEF Spec

\* The deletion of a policy goes on until its finalizer is removed, through errors,
\* conflicts and restarts.
THEOREM DeletionStays == Spec => []DeletionStaysUnderWay
<1>1. ProgressInv => DeletionStaysUnderWay
  BY DEF ProgressInv
<1> QED
  BY <1>1, RolloutProgress, PTL

\* When the PolicyServer reconciler rests, the ConfigMap is what the cache shows, and the
\* Deployment is of its version.
LEMMA ServerAtRest ==
  ASSUME ProgressInv, policyServer, ~ServerUnderWay
  PROVE  /\ policyServerCache /\ ~serverQueue /\ serverWorker.pc = "idle"
         /\ configMap # << >> /\ configMap[Len(configMap)] = GetPolicies
         /\ deployment.version = Len(configMap)
<1>1. ~serverQueue /\ serverWorker.pc = "idle" /\ policyServerCache = policyServer
  BY DEF ServerUnderWay
<1>2. policyServerCache
  BY <1>1
<1> QED
  BY <1>1, <1>2 DEF ProgressInv, ServerPassed

\* A controller that rests has enforced the policy: the pods that the cache shows are of
\* the version at which the gate was passed, which is that of the last ConfigMap.
THEOREM RestIsEnforced == Spec => []RestMeansEnforced
<1> SUFFICES ASSUME TypeInv, Safe, Followed, ProgressInv PROVE RestMeansEnforced
  <2>1. IInv /\ ProgressInv => RestMeansEnforced
    BY DEF IInv, TypeInv, Safe, Followed
  <2> QED
    BY <2>1, IInvHolds, RolloutProgress, PTL
<1> SUFFICES ASSUME policyServer, ~ServerUnderWay, RolledOut, NEW p \in Bound,
                    policy[p].phase = "live", ~UnderWay(p)
             PROVE  Enforced(p)
  BY DEF RestMeansEnforced
<1> DEFINE n == Len(configMap)
<1>1. /\ policyServerCache /\ ~serverQueue /\ serverWorker.pc = "idle"
      /\ configMap # << >> /\ configMap[n] = GetPolicies
      /\ deployment.version = n
  BY ServerAtRest
<1>2. p \in Policies /\ n \in Nat /\ n # 0
  BY <1>1, ConstantsAssumption DEF TypeInv, TypeOK
<1>3. p \notin queue /\ policyCache[p] = policy[p] /\ worker[p].pc = "idle"
  BY DEF UnderWay
<1>4. configMap[n][p] = Entry[policy[p].gen]
  BY <1>1, <1>2, <1>3 DEF GetPolicies
<1>5. StatusStays(p)
  BY <1>3 DEF ProgressInv
<1>6. ~ServerToCome(p)
  BY <1>1 DEF ServerToCome
<1>7. /\ status[p].policyStatus = "active" /\ status[p].active /\ status[p].reachable
      /\ Registered(p, policy[p].gen)
      /\ \E v \in 1 .. deployment.version :
            GateStays(v) /\ Reported(p, v, status[p].mode, status[p].upToDate)
  BY <1>3, <1>5, <1>6 DEF StatusStays
<1>8. PICK v \in 1 .. n : GateStays(v) /\ Reported(p, v, status[p].mode, status[p].upToDate)
  BY <1>1, <1>7
<1>9. \A k \in Slots : podCache[k].version = n /\ podCache[k] # Unlisted /\ pods[k].version = n
  <2>1. ASSUME NEW k \in Slots PROVE podCache[k].version = n /\ pods[k].version = n
    BY <1>1 DEF RolledOut, ListedPods
  <2> QED
    BY <1>2, <2>1 DEF Unlisted
<1>10. v = n
  BY <1>8, <1>9 DEF GateStays
<1>11. \A k \in Slots : pods[k].loaded = n
  BY <1>2, <1>9 DEF RolledOut, Safe, PodsLoadTheirVersion, Versions
<1> QED
  BY <1>4, <1>7, <1>8, <1>10, <1>11 DEF Registered, Reported, Enforced
=============================================================================
