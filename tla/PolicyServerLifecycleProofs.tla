--------------------- MODULE PolicyServerLifecycleProofs ---------------------
(***************************************************************************)
(* Type correctness of PolicyServerLifecycle, for any PolicyServers, specs, *)
(* policies and certificates, and any number of writes and faults.         *)
(***************************************************************************)
EXTENDS PolicyServerLifecycle, TLAPS

Objects == [deployment  : Deployments \cup {None},
            certificate : CAs \cup {None},
            service     : Services \cup {None},
            configMap   : ConfigMaps \cup {None}]

\* What the controller builds from a spec, and from a policy list, is what may be stored.
LEMMA BuiltType ==
  ASSUME NEW spec \in Specs, NEW ps \in SUBSET Policies
  PROVE  /\ deployment(spec) \in Deployments
         /\ service(spec) \in Services
         /\ configMap(spec, ps) \in ConfigMaps
  BY DEF deployment, service, configMap, Deployments, Services, ConfigMaps

\* A patch leaves a Deployment.
LEMMA PatchType ==
  ASSUME NEW d \in Deployments, NEW new \in Deployments
  PROVE  updatePolicyServerDeployment(d, new) \in Deployments
  BY DEF updatePolicyServerDeployment

\* A write of one object leaves the others.
LEMMA WriteType ==
  ASSUME NEW o \in [Servers -> Objects], NEW s \in Servers,
         NEW d \in Deployments \cup {None}, NEW c \in CAs \cup {None},
         NEW v \in Services \cup {None}, NEW m \in ConfigMaps \cup {None}
  PROVE  /\ [o EXCEPT ![s]["deployment"] = d] \in [Servers -> Objects]
         /\ [o EXCEPT ![s]["certificate"] = c] \in [Servers -> Objects]
         /\ [o EXCEPT ![s]["service"] = v] \in [Servers -> Objects]
         /\ [o EXCEPT ![s]["configMap"] = m] \in [Servers -> Objects]
  BY DEF Objects

LEMMA DeleteType ==
  ASSUME NEW o \in [Servers -> Objects], NEW s \in Servers, NEW k \in Kinds
  PROVE  [o EXCEPT ![s][k] = None] \in [Servers -> Objects]
  BY WriteType DEF Kinds

\* TypeOK holds only with the parts of IInv that tell a PolicyServer from its past.
TypeInv == TypeOK /\ CacheIsOfThisLife /\ WorkerIsOfThisLife

Pcs == {"idle"} \cup LivePcs \cup DeletingPcs

\* Nothing exists and nothing is under way.
LEMMA InitType == Init => TypeInv
<1> SUFFICES ASSUME Init PROVE TypeInv
  OBVIOUS
<1>1. TypeOK
  BY LifecycleAssumption DEF Init, TypeOK, ServerStates, NoServer, NoObjects, Kinds, IdleWorker,
     WorkerStates, Phases
<1> QED
  BY <1>1 DEF Init, TypeInv, CacheIsOfThisLife, WorkerIsOfThisLife, IdleWorker, LivePcs,
     DeletingPcs, NoServer

\* A PolicyServer that exists has a spec and conditions.
LEMMA StateType ==
  ASSUME NEW x \in ServerStates
  PROVE  \/ x = NoServer /\ x.phase = "absent"
         \/ x \in [phase : {"live", "deleting"}, spec : Specs, conditions : SUBSET Conditions]
  BY DEF ServerStates, NoServer

\* A write of users leaves a PolicyServer, and takes the copy of a reconcile out of date.
LEMMA WriteServerType ==
  ASSUME TypeInv, NEW s \in Servers, WriteServer(s) PROVE TypeInv'
<1>1. server' \in [Servers -> ServerStates]
  BY DEF WriteServer, TypeInv, TypeOK, ServerStates, NoServer
<1>2. worker' \in WorkerStates /\ worker' = [worker EXCEPT !.fresh = worker'.fresh]
  BY DEF WriteServer, OutdateWorker, TypeInv, TypeOK, WorkerStates
<1>3. writes' \in [Servers -> 0 .. MaxWrites] /\ synced' \in [Servers -> BOOLEAN]
  BY LifecycleAssumption DEF WriteServer, Outdate, TypeInv, TypeOK
<1>4. TypeOK'
  BY <1>1, <1>2, <1>3 DEF WriteServer, caches, TypeInv, TypeOK, WorkerStates
<1>5. CacheIsOfThisLife' /\ WorkerIsOfThisLife'
  BY <1>1, <1>2 DEF WriteServer, Outdate, OutdateWorker, caches, TypeInv, TypeOK, WorkerStates,
     ServerStates, CacheIsOfThisLife, WorkerIsOfThisLife, Exists, LivePcs, DeletingPcs
<1> QED
  BY <1>4, <1>5 DEF TypeInv

LEMMA DeleteServerType ==
  ASSUME TypeInv, NEW s \in Servers, DeleteServer(s) PROVE TypeInv'
<1>1. server[s] \in [phase : {"live", "deleting"}, spec : Specs, conditions : SUBSET Conditions]
  BY StateType DEF DeleteServer, TypeInv, TypeOK
<1>2. server' \in [Servers -> ServerStates]
  BY <1>1 DEF DeleteServer, TypeInv, TypeOK, ServerStates
<1>3. worker' \in WorkerStates /\ worker' = [worker EXCEPT !.fresh = worker'.fresh]
  BY DEF DeleteServer, OutdateWorker, TypeInv, TypeOK, WorkerStates
<1>4. TypeOK'
  BY <1>2, <1>3 DEF DeleteServer, Outdate, cluster, caches, TypeInv, TypeOK, WorkerStates
<1>5. CacheIsOfThisLife' /\ WorkerIsOfThisLife'
  BY <1>1, <1>2, <1>3 DEF DeleteServer, Outdate, OutdateWorker, caches, TypeInv, TypeOK,
     WorkerStates, CacheIsOfThisLife, WorkerIsOfThisLife, Exists, LivePcs, DeletingPcs
<1> QED
  BY <1>4, <1>5 DEF TypeInv

\* The other writes of users.
LEMMA RestartType ==
  ASSUME TypeInv, NEW s \in Servers, RestartRollout(s) PROVE TypeInv'
<1>1. object[s]["deployment"] \in Deployments
  BY DEF RestartRollout, Has, TypeInv, TypeOK
<1>2. [object[s]["deployment"] EXCEPT !.restarted = TRUE] \in Deployments
  BY <1>1 DEF Deployments
<1>3. object' \in [Servers -> Objects]
  BY <1>2, WriteType DEF RestartRollout, TypeInv, TypeOK, Objects
<1> QED
  BY <1>3 DEF RestartRollout, cluster, caches, TypeInv, TypeOK, Objects, CacheIsOfThisLife,
     WorkerIsOfThisLife, Exists

LEMMA UsersType ==
  ASSUME TypeInv, Users PROVE TypeInv'
<1>1. ASSUME NEW spec \in Specs, CreatePullSecret(spec.pullSecret) PROVE TypeInv'
  BY <1>1 DEF CreatePullSecret, caches, TypeInv, TypeOK, CacheIsOfThisLife, WorkerIsOfThisLife,
     Exists
<1>2. ASSUME NEW p \in Policies, CreatePolicy(p) \/ DeletePolicy(p) PROVE TypeInv'
  BY <1>2 DEF CreatePolicy, DeletePolicy, Phases, cluster, caches, TypeInv, TypeOK, CacheIsOfThisLife,
     WorkerIsOfThisLife, Exists
<1> QED
  BY <1>1, <1>2, WriteServerType, DeleteServerType, RestartType DEF Users

\* The informers and the policy controllers.
LEMMA SyncServerType ==
  ASSUME TypeInv, NEW s \in Servers, SyncServer(s) PROVE TypeInv'
<1>1. TypeOK'
  BY DEF SyncServer, cluster, TypeInv, TypeOK
<1>2. CacheIsOfThisLife' /\ WorkerIsOfThisLife'
  BY DEF SyncServer, cluster, TypeInv, TypeOK, CacheIsOfThisLife, WorkerIsOfThisLife, Exists,
     LivePcs, DeletingPcs
<1> QED
  BY <1>1, <1>2 DEF TypeInv

LEMMA OthersType ==
  ASSUME TypeInv, \/ \E p \in Policies : SyncPolicy(p) \/ ReconcilePolicy(p)
                  \/ SyncSecrets
  PROVE  TypeInv'
<1>1. UNCHANGED << server, serverCache, synced, worker, object, rootCA, pullSecrets, writes, faults >>
  BY DEF SyncPolicy, SyncSecrets, ReconcilePolicy, RegisterWebhook, DeleteWebhook, FinishPolicy,
     cluster, caches
<1>2. /\ policy' \in [Policies -> Phases] /\ webhook' \in [Policies -> BOOLEAN]
      /\ policyCache' \in [Policies -> Phases] /\ queue' \subseteq Servers
  <2>1. ASSUME NEW p \in Policies, SyncPolicy(p) PROVE <1>2!:
    BY <2>1, LifecycleAssumption DEF SyncPolicy, cluster, TypeInv, TypeOK
  <2>2. ASSUME NEW p \in Policies, ReconcilePolicy(p) PROVE <1>2!:
    BY <2>2 DEF ReconcilePolicy, RegisterWebhook, DeleteWebhook, FinishPolicy, cluster, caches,
       TypeInv, TypeOK, Phases
  <2>3. CASE SyncSecrets
    BY <2>3 DEF SyncSecrets, cluster, TypeInv, TypeOK
  <2> QED
    BY <2>1, <2>2, <2>3
<1>3. /\ certificateCache' \in [Servers -> CAs \cup {None}]
      /\ rootCache' \in CAs \cup {None}
  BY DEF SyncPolicy, SyncSecrets, ReconcilePolicy, RegisterWebhook,
     DeleteWebhook, FinishPolicy, cluster, caches, TypeInv, TypeOK
<1> QED
  BY <1>1, <1>2, <1>3 DEF TypeInv, TypeOK, CacheIsOfThisLife, WorkerIsOfThisLife, Exists

\* A reconcile starts with what the cache has.
LEMMA StartType ==
  ASSUME TypeInv, NEW s \in Servers, StartReconcile(s) PROVE TypeInv'
<1>1. UNCHANGED << cluster, server, object, policy, webhook, caches, synced >>
  BY DEF StartReconcile
<1>2. queue' \subseteq Servers
  BY DEF StartReconcile, TypeInv, TypeOK
<1>3. faults' \in 0 .. MaxFaults
  BY LifecycleAssumption DEF StartReconcile, Fault, TypeInv, TypeOK
<1>4. \/ UNCHANGED worker
      \/ /\ serverCache[s].phase # "absent"
         /\ \E listed \in SUBSET Policies : worker' = StartedWorker(s, listed)
  <2>1. ASSUME NEW failed PROVE GetPolicies(s, failed) \in SUBSET Policies
    BY DEF GetPolicies
  <2> QED
    BY <2>1 DEF StartReconcile
<1>5. CASE UNCHANGED worker
  BY <1>1, <1>2, <1>3, <1>5 DEF cluster, caches, TypeInv, TypeOK, CacheIsOfThisLife,
     WorkerIsOfThisLife, Exists
<1>6. ASSUME serverCache[s].phase # "absent", NEW listed \in SUBSET Policies,
             worker' = StartedWorker(s, listed)
      PROVE  TypeInv'
  <2>1. /\ worker'.pc \in Pcs /\ worker'.server = s /\ worker'.seen = serverCache[s]
        /\ worker'.fresh = synced[s]
        /\ \/ serverCache[s].phase = "live" /\ worker'.pc = "rootCA"
           \/ serverCache[s].phase = "deleting" /\ worker'.pc \in DeletingPcs
    BY <1>6, StateType DEF StartedWorker, FirstStep, TypeInv, TypeOK, Pcs, LivePcs, DeletingPcs
  <2>2. DeletionOrder \in Seq(Kinds) /\ << >> \in Seq(Kinds)
    BY DEF DeletionOrder, Kinds
  <2>3. worker' \in WorkerStates
    BY <1>6, <2>1, <2>2 DEF StartedWorker, TypeInv, TypeOK, WorkerStates, Pcs, LivePcs, DeletingPcs
  <2>4. TypeOK'
    BY <1>1, <1>2, <1>3, <2>1, <2>3 DEF cluster, caches, TypeInv, TypeOK, DeletingPcs
  <2>5. CacheIsOfThisLife' /\ WorkerIsOfThisLife'
    BY <1>1, <2>1 DEF cluster, caches, TypeInv, CacheIsOfThisLife, WorkerIsOfThisLife, Exists,
       LivePcs, DeletingPcs
  <2> QED
    BY <2>4, <2>5 DEF TypeInv
<1> QED
  BY <1>4, <1>5, <1>6

\* A step of Reconcile that moves on to the next, or fails, leaves the worker with its
\* PolicyServer and what it knows of its phase.
LEMMA BuildType ==
  ASSUME TypeInv, worker.pc \in LivePcs,
         worker' \in WorkerStates, worker'.pc \in LivePcs,
         worker'.server = worker.server, worker'.fresh = worker.fresh,
         worker'.seen.phase = "live",
         worker'.pc = "status" \/ worker'.ca # None,
         object' \in [Servers -> Objects], rootCA' \in CAs \cup {None},
         faults' \in 0 .. MaxFaults,
         UNCHANGED << server, writes, pullSecrets, policy, webhook, caches, synced, queue >>
  PROVE  TypeInv'
<1>1. worker.server \in Servers /\ worker.seen.phase = "live"
  BY DEF TypeInv, WorkerIsOfThisLife, LivePcs
<1>2. TypeOK'
  BY <1>1, LifecycleAssumption DEF caches, TypeInv, TypeOK, Objects
<1>3. CacheIsOfThisLife' /\ WorkerIsOfThisLife'
  BY <1>1 DEF caches, TypeInv, CacheIsOfThisLife, WorkerIsOfThisLife, Exists, LivePcs,
     DeletingPcs
<1> QED
  BY <1>2, <1>3 DEF TypeInv

LiveStates == [phase : {"live", "deleting"}, spec : Specs, conditions : SUBSET Conditions]

\* The copy of the PolicyServer that it works on.
LEMMA SeenType ==
  ASSUME TypeInv, worker.pc \in LivePcs
  PROVE  /\ worker.seen \in LiveStates /\ worker.seen.phase = "live"
         /\ worker.seen.conditions \in SUBSET Conditions
  BY StateType DEF TypeInv, TypeOK, WorkerStates, WorkerIsOfThisLife, LiveStates

LEMMA ConditionsType ==
  ASSUME NEW seen \in LiveStates, NEW conditions \in SUBSET Conditions
  PROVE  /\ [seen EXCEPT !.conditions = conditions] \in ServerStates
         /\ [seen EXCEPT !.conditions = conditions].phase = seen.phase
  BY DEF LiveStates, ServerStates

\* The outcomes of a step of Reconcile.
LEMMA SucceedsType ==
  ASSUME TypeInv, worker.pc \in LivePcs \ {"status"}, worker.ca # None,
         NEW pc \in LivePcs, Succeeds(pc),
         object' \in [Servers -> Objects], UNCHANGED rootCA,
         UNCHANGED << server, writes, pullSecrets, policy, webhook, caches, synced, queue >>
  PROVE  TypeInv'
<1> DEFINE conditions == worker.seen.conditions \cup {worker.pc}
           seen       == [worker.seen EXCEPT !.conditions = conditions]
<1>1. conditions \in SUBSET Conditions
  BY SeenType DEF Conditions, Kinds, LivePcs
<1>2. seen \in ServerStates /\ seen.phase = "live"
  BY <1>1, SeenType, ConditionsType
<1>3. worker' = [worker EXCEPT !.pc = pc, !.seen = seen]
  BY DEF Succeeds, TypeInv, TypeOK, WorkerStates
<1> HIDE DEF conditions, seen
<1>4. worker \in WorkerStates
  BY DEF TypeInv, TypeOK
<1>5. /\ worker' \in WorkerStates /\ worker'.pc = pc /\ worker'.seen = seen
      /\ worker'.server = worker.server /\ worker'.fresh = worker.fresh
      /\ worker'.ca = worker.ca
  BY <1>2, <1>3, <1>4 DEF WorkerStates, LivePcs
<1>6. rootCA' \in CAs \cup {None} /\ faults' \in 0 .. MaxFaults
  BY DEF Succeeds, TypeInv, TypeOK
<1> QED
  BY <1>2, <1>5, <1>6, BuildType

LEMMA ReturnsErrorType ==
  ASSUME TypeInv, worker.pc \in LivePcs, ReturnsError, Fault \/ UNCHANGED faults,
         object' \in [Servers -> Objects], rootCA' \in CAs \cup {None},
         UNCHANGED << server, writes, pullSecrets, policy, webhook, caches, synced, queue >>
  PROVE  TypeInv'
<1> DEFINE seen == [worker.seen EXCEPT !.conditions = ConditionsAfterError]
<1>1. ConditionsAfterError \in SUBSET Conditions
  BY SeenType DEF ConditionsAfterError
<1>2. seen \in ServerStates /\ seen.phase = "live"
  BY <1>1, SeenType, ConditionsType
<1>3. worker' = [worker EXCEPT !.pc = "status", !.seen = seen, !.failed = TRUE]
  BY DEF ReturnsError, TypeInv, TypeOK, WorkerStates
<1> HIDE DEF seen
<1>4. worker \in WorkerStates
  BY DEF TypeInv, TypeOK
<1>5. /\ worker' \in WorkerStates /\ worker'.pc = "status" /\ worker'.seen = seen
      /\ worker'.server = worker.server /\ worker'.fresh = worker.fresh
  BY <1>2, <1>3, <1>4 DEF WorkerStates
<1>6. faults' \in 0 .. MaxFaults
  BY LifecycleAssumption DEF Fault, TypeInv, TypeOK
<1>7. worker'.pc \in LivePcs
  BY <1>5 DEF LivePcs
<1> QED
  BY <1>2, <1>5, <1>6, <1>7, BuildType

\* What each step writes.
LEMMA RootCAType ==
  ASSUME TypeInv, rootCache = None => UnusedCAs # {} PROVE RootCAInHand \in CAs
  BY DEF RootCAInHand, GenerateCA, UnusedCAs, TypeInv, TypeOK

LEMMA CreatedCertificateType ==
  ASSUME TypeInv, NEW s \in Servers, worker.server = s
  PROVE  CreatedCertificate(s) \in [Servers -> Objects]
<1> DEFINE ca == IF certificateCache[s] = None THEN worker.ca ELSE certificateCache[s]
<1>1. ca \in CAs \cup {None}
  BY DEF TypeInv, TypeOK, WorkerStates
<1>2. object \in [Servers -> Objects]
  BY DEF TypeInv, TypeOK, Objects
<1>3. CreatedCertificate(s) \in {object, [object EXCEPT ![s]["certificate"] = ca]}
  BY DEF CreatedCertificate, WriteIfAbsent, Write
<1> HIDE DEF ca
<1>4. [object EXCEPT ![s]["certificate"] = ca] \in [Servers -> Objects]
  BY <1>1, <1>2, WriteType
<1> QED
  BY <1>2, <1>3, <1>4

LEMMA ReconciledConfigMapType ==
  ASSUME TypeInv, worker.pc \in LivePcs PROVE ReconciledConfigMap \in [Servers -> Objects]
<1>1. worker.seen.spec \in Specs /\ worker.policies \in SUBSET Policies /\ worker.server \in Servers
  BY StateType DEF TypeInv, TypeOK, WorkerStates, WorkerIsOfThisLife, LivePcs
<1>2. configMap(worker.seen.spec, worker.policies) \in ConfigMaps
  BY <1>1, BuiltType
<1>3. object \in [Servers -> Objects]
  BY DEF TypeInv, TypeOK, Objects
<1>4. ASSUME NEW d \in Deployments PROVE [d EXCEPT !.latest = FALSE] \in Deployments
  BY DEF Deployments
<1> DEFINE old == object[worker.server]["deployment"]
           d   == IF old = None THEN None ELSE [old EXCEPT !.latest = FALSE]
           m   == configMap(worker.seen.spec, worker.policies)
<1>5. d \in Deployments \cup {None}
  BY <1>1, <1>3, <1>4 DEF Objects
<1>6. ReconciledConfigMap \in
        {object, [[object EXCEPT ![worker.server]["configMap"] = m]
                    EXCEPT ![worker.server]["deployment"] = d]}
  BY DEF ReconciledConfigMap
<1> HIDE DEF d, m
<1>7. [object EXCEPT ![worker.server]["configMap"] = m] \in [Servers -> Objects]
  BY <1>1, <1>2, <1>3, WriteType DEF m
<1> QED
  BY <1>1, <1>3, <1>5, <1>6, <1>7, WriteType

LEMMA ReconciledDeploymentType ==
  ASSUME TypeInv, worker.pc \in LivePcs PROVE ReconciledDeployment \in [Servers -> Objects]
<1>1. worker.seen.spec \in Specs /\ worker.server \in Servers
  BY StateType DEF TypeInv, TypeOK, WorkerStates, WorkerIsOfThisLife, LivePcs
<1>2. deployment(worker.seen.spec) \in Deployments
  BY <1>1, BuiltType
<1>3. object \in [Servers -> Objects]
  BY DEF TypeInv, TypeOK, Objects
<1>4. Has(worker.server, "deployment") => object[worker.server]["deployment"] \in Deployments
  BY <1>1, <1>3 DEF Has, Objects
<1> QED
  BY <1>1, <1>2, <1>3, <1>4, PatchType, WriteType DEF ReconciledDeployment, Write

LEMMA CreatedServiceType ==
  ASSUME TypeInv, worker.pc \in LivePcs PROVE CreatedService \in [Servers -> Objects]
<1>1. worker.seen.spec \in Specs /\ worker.server \in Servers
  BY StateType DEF TypeInv, TypeOK, WorkerStates, WorkerIsOfThisLife, LivePcs
<1>2. service(worker.seen.spec) \in Services
  BY <1>1, BuiltType
<1>3. object \in [Servers -> Objects]
  BY DEF TypeInv, TypeOK, Objects
<1> QED
  BY <1>1, <1>2, <1>3, WriteType DEF CreatedService, WriteIfAbsent, Write

\* The steps of Reconcile.
LEMMA ReconcileStepsType ==
  ASSUME TypeInv, \/ ReconcileRootCA \/ ReconcileCertificate \/ ReconcileConfigMap
                  \/ ReconcileDeployment \/ ReconcileService
  PROVE  TypeInv'
<1>1. object \in [Servers -> Objects]
  BY DEF TypeInv, TypeOK, Objects
<1>2. worker.pc \in {"certificate", "configMap", "deployment", "service"} => worker.ca # None
  BY DEF TypeInv, TypeOK
<1>3. CASE ReconcileRootCA
  <2>1. RootCAInHand \in CAs /\ RootCAInHand # None
    BY <1>3, RootCAType, LifecycleAssumption DEF ReconcileRootCA
  <2>2. rootCA' \in CAs \cup {None} /\ UNCHANGED object
    BY <1>3, <2>1 DEF ReconcileRootCA, TypeInv, TypeOK
  <2>3. worker.pc = "rootCA" /\ worker.pc \in LivePcs
    BY <1>3 DEF ReconcileRootCA, LivePcs
  <2>4. UNCHANGED << server, writes, pullSecrets, policy, webhook, caches, synced, queue >>
    BY <1>3 DEF ReconcileRootCA
  <2>5. CASE ReturnsError /\ Fault
    BY <1>1, <2>2, <2>3, <2>4, <2>5, ReturnsErrorType
  <2>6. CASE /\ worker' = [worker EXCEPT !.pc = "certificate", !.ca = RootCAInHand,
                                          !.seen.conditions = @ \cup {"rootCA"}]
             /\ UNCHANGED faults
    <3> DEFINE conditions == worker.seen.conditions \cup {"rootCA"}
               seen       == [worker.seen EXCEPT !.conditions = conditions]
    <3>1. conditions \in SUBSET Conditions
      BY <2>3, SeenType DEF Conditions
    <3>2. seen \in ServerStates /\ seen.phase = "live"
      BY <2>3, <3>1, SeenType, ConditionsType
    <3>3. worker' = [worker EXCEPT !.pc = "certificate", !.ca = RootCAInHand, !.seen = seen]
      BY <2>6 DEF TypeInv, TypeOK, WorkerStates
    <3> HIDE DEF conditions, seen
    <3>4. worker \in WorkerStates /\ faults' \in 0 .. MaxFaults
      BY <2>6 DEF TypeInv, TypeOK
    <3>5. /\ worker' \in WorkerStates /\ worker'.pc = "certificate" /\ worker'.seen = seen
          /\ worker'.server = worker.server /\ worker'.fresh = worker.fresh
          /\ worker'.ca = RootCAInHand
      BY <2>1, <3>2, <3>3, <3>4 DEF WorkerStates
    <3>6. worker'.pc \in LivePcs
      BY <3>5 DEF LivePcs
    <3> QED
      BY <1>1, <2>1, <2>2, <2>3, <2>4, <3>2, <3>4, <3>5, <3>6, BuildType
  <2> QED
    BY <1>3, <2>5, <2>6 DEF ReconcileRootCA
<1> DEFINE Frame == UNCHANGED << server, writes, pullSecrets, policy, webhook, caches, synced, queue >>
<1>4. CASE ReconcileCertificate
  <2>1. worker.pc = "certificate" /\ worker.server \in Servers /\ UNCHANGED rootCA /\ Frame
    BY <1>4 DEF ReconcileCertificate, cluster, TypeInv, WorkerIsOfThisLife
  <2>2. object' \in [Servers -> Objects]
    BY <1>1, <1>4, <2>1, CreatedCertificateType DEF ReconcileCertificate
  <2> QED
    BY <1>2, <1>4, <2>1, <2>2, SucceedsType, ReturnsErrorType DEF ReconcileCertificate, LivePcs,
       TypeInv, TypeOK
<1>5. CASE ReconcileConfigMap
  <2>1. worker.pc = "configMap" /\ UNCHANGED rootCA /\ Frame
    BY <1>5 DEF ReconcileConfigMap, cluster
  <2>2. object' \in [Servers -> Objects]
    BY <1>1, <1>5, <2>1, ReconciledConfigMapType DEF ReconcileConfigMap, LivePcs
  <2> QED
    BY <1>2, <1>5, <2>1, <2>2, SucceedsType, ReturnsErrorType DEF ReconcileConfigMap, LivePcs,
       TypeInv, TypeOK
<1>6. CASE ReconcileDeployment
  <2>1. worker.pc = "deployment" /\ UNCHANGED rootCA /\ Frame
    BY <1>6 DEF ReconcileDeployment, cluster
  <2>2. object' \in [Servers -> Objects]
    BY <1>1, <1>6, <2>1, ReconciledDeploymentType DEF ReconcileDeployment, LivePcs
  <2> QED
    BY <1>2, <1>6, <2>1, <2>2, SucceedsType, ReturnsErrorType DEF ReconcileDeployment, LivePcs,
       TypeInv, TypeOK
<1>7. CASE ReconcileService
  <2>1. worker.pc = "service" /\ UNCHANGED rootCA /\ Frame
    BY <1>7 DEF ReconcileService, cluster
  <2>2. object' \in [Servers -> Objects]
    BY <1>1, <1>7, <2>1, CreatedServiceType DEF ReconcileService, LivePcs
  <2> QED
    BY <1>2, <1>7, <2>1, <2>2, SucceedsType, ReturnsErrorType DEF ReconcileService, LivePcs,
       TypeInv, TypeOK
<1> QED
  BY <1>3, <1>4, <1>5, <1>6, <1>7

\* The idle worker is of no PolicyServer.
LEMMA IdleType == IdleWorker \in WorkerStates /\ IdleWorker.pc = "idle"
  BY DEF IdleWorker, WorkerStates, ServerStates

LEMMA FinishType ==
  ASSUME TypeInv, NEW requeue \in BOOLEAN, worker.pc # "idle", Finish(requeue)
  PROVE  worker' \in WorkerStates /\ worker'.pc = "idle" /\ queue' \subseteq Servers
  BY IdleType DEF Finish, TypeInv, TypeOK, WorkerIsOfThisLife

LEMMA FaultType ==
  ASSUME TypeInv, Fault \/ UNCHANGED faults PROVE faults' \in 0 .. MaxFaults
  BY LifecycleAssumption DEF Fault, TypeInv, TypeOK

\* The status is saved only from the current copy: the PolicyServer keeps its phase and spec.
LEMMA UpdateStatusType ==
  ASSUME TypeInv, UpdateStatus PROVE TypeInv'
<1> DEFINE s == worker.server
<1>1. worker.pc = "status" /\ worker.pc # "idle" /\ worker.pc \in LivePcs
  BY DEF UpdateStatus, LivePcs
<1>2. s \in Servers
  BY <1>1 DEF TypeInv, WorkerIsOfThisLife
<1>3. worker.seen.conditions \in SUBSET Conditions /\ worker.failed \in BOOLEAN
  BY <1>1, SeenType DEF TypeInv, TypeOK, WorkerStates
<1>4. worker' \in WorkerStates /\ worker'.pc = "idle" /\ queue' \subseteq Servers
  BY <1>1, <1>3, FinishType DEF UpdateStatus
<1>5. faults' \in 0 .. MaxFaults
  BY FaultType DEF UpdateStatus
<1>6. UNCHANGED << cluster, object, policy, webhook, caches >>
  BY DEF UpdateStatus
<1>7. \/ UNCHANGED << server, synced >>
      \/ /\ worker.fresh
         /\ server' = [server EXCEPT ![s].conditions = worker.seen.conditions]
         /\ synced' = [synced EXCEPT ![s] = synced[s] /\ server' = server]
  BY DEF UpdateStatus, SavedStatus
<1>8. CASE UNCHANGED << server, synced >>
  BY <1>4, <1>5, <1>6, <1>8 DEF cluster, caches, TypeInv, TypeOK, CacheIsOfThisLife,
     WorkerIsOfThisLife, Exists, LivePcs, DeletingPcs
<1>9. CASE /\ worker.fresh
           /\ server' = [server EXCEPT ![s].conditions = worker.seen.conditions]
           /\ synced' = [synced EXCEPT ![s] = synced[s] /\ server' = server]
  <2>1. server[s] \in LiveStates
    BY <1>1, <1>2, <1>9, StateType, SeenType DEF TypeInv, TypeOK, WorkerIsOfThisLife, LiveStates
  <2> DEFINE saved == [server[s] EXCEPT !.conditions = worker.seen.conditions]
  <2>2. saved \in ServerStates /\ saved.phase = server[s].phase
    BY <1>3, <2>1, ConditionsType
  <2>3. server' = [server EXCEPT ![s] = saved]
    BY <1>9
  <2> HIDE DEF saved
  <2>4. server' \in [Servers -> ServerStates] /\ \A x \in Servers : server'[x].phase = server[x].phase
    BY <1>2, <2>2, <2>3 DEF TypeInv, TypeOK
  <2>5. /\ synced' \in [Servers -> BOOLEAN]
        /\ \A x \in Servers : synced'[x] => synced[x] /\ server'[x] = server[x]
    BY <1>2, <1>9, <2>3 DEF TypeInv, TypeOK
  <2>6. TypeOK'
    BY <1>4, <1>5, <1>6, <2>4, <2>5 DEF cluster, caches, TypeInv, TypeOK
  <2>7. CacheIsOfThisLife' /\ WorkerIsOfThisLife'
    BY <1>4, <1>6, <2>4, <2>5 DEF caches, TypeInv, CacheIsOfThisLife, WorkerIsOfThisLife, Exists,
       LivePcs, DeletingPcs
  <2> QED
    BY <2>6, <2>7 DEF TypeInv
<1> QED
  BY <1>7, <1>8, <1>9

\* The steps of a deletion keep the worker with its PolicyServer.
LEMMA DeletingType ==
  ASSUME TypeInv, worker.pc \in DeletingPcs,
         worker' \in WorkerStates,
         \/ worker'.pc = "idle"
         \/ /\ worker'.pc = worker.pc /\ worker'.seen = worker.seen
            /\ worker'.server = worker.server /\ worker'.fresh = worker.fresh,
         object' \in [Servers -> Objects], policy' \in [Policies -> Phases],
         queue' \subseteq Servers, faults' \in 0 .. MaxFaults,
         UNCHANGED << cluster, server, webhook, caches, synced >>
  PROVE  TypeInv'
<1>1. TypeOK'
  BY DEF cluster, caches, TypeInv, TypeOK, Objects, DeletingPcs
<1>2. CacheIsOfThisLife' /\ WorkerIsOfThisLife'
  BY DEF caches, TypeInv, CacheIsOfThisLife, WorkerIsOfThisLife, Exists, LivePcs, DeletingPcs
<1> QED
  BY <1>1, <1>2 DEF TypeInv

LEMMA DeletePoliciesType ==
  ASSUME TypeInv, DeletePolicies PROVE TypeInv'
<1>1. worker.pc \in DeletingPcs /\ worker.pc # "idle" /\ object \in [Servers -> Objects]
  BY DEF DeletePolicies, DeletingPcs, TypeInv, TypeOK, Objects
<1>2. UNCHANGED << cluster, server, object, webhook, caches, synced >>
  BY DEF DeletePolicies
<1>3. CASE worker.policies = {}
  BY <1>1, <1>2, <1>3, FinishType, FaultType, DeletingType DEF DeletePolicies, TypeInv, TypeOK
<1>4. ASSUME NEW p \in worker.policies, worker.policies # {},
             worker' = [worker EXCEPT !.policies = @ \ {p}],
             \/ policy' = [policy EXCEPT ![p] = IF @ = "live" THEN "deleting" ELSE @]
             \/ policy' = policy,
             Fault \/ UNCHANGED faults, UNCHANGED queue
      PROVE  TypeInv'
  <2>1. p \in Policies
    BY <1>4 DEF TypeInv, TypeOK, WorkerStates
  <2>2. policy' \in [Policies -> Phases]
    BY <1>4, <2>1 DEF TypeInv, TypeOK, Phases
  <2>3. /\ worker' \in WorkerStates
        /\ worker'.pc = worker.pc /\ worker'.seen = worker.seen
        /\ worker'.server = worker.server /\ worker'.fresh = worker.fresh
    BY <1>4 DEF TypeInv, TypeOK, WorkerStates
  <2>4. queue' \subseteq Servers /\ faults' \in 0 .. MaxFaults
    BY <1>4, FaultType DEF TypeInv, TypeOK
  <2> QED
    BY <1>1, <1>2, <2>2, <2>3, <2>4, DeletingType
<1> QED
  BY <1>3, <1>4 DEF DeletePolicies

LEMMA DeleteObjectType ==
  ASSUME TypeInv, DeleteObject PROVE TypeInv'
<1>1. /\ worker.pc \in DeletingPcs /\ worker.server \in Servers
      /\ object \in [Servers -> Objects] /\ queue' \subseteq Servers
      /\ policy' \in [Policies -> Phases]
      /\ UNCHANGED << cluster, server, webhook, caches, synced >>
  BY DEF DeleteObject, DeletingPcs, cluster, TypeInv, TypeOK, WorkerIsOfThisLife, Objects
<1>2. worker.left \in Seq(Kinds) /\ worker.left # << >>
  BY DEF DeleteObject, TypeInv, TypeOK, WorkerStates
<1>3. Head(worker.left) \in Kinds /\ Tail(worker.left) \in Seq(Kinds)
  BY <1>2
<1>4. object' \in [Servers -> Objects]
  <2>1. PICK k \in Kinds : k = Head(worker.left)
    BY <1>3
  <2>2. object' \in {object, [object EXCEPT ![worker.server][k] = None]}
    BY <2>1 DEF DeleteObject, Write
  <2>3. [object EXCEPT ![worker.server][k] = None] \in [Servers -> Objects]
    BY <1>1, DeleteType
  <2> QED
    BY <1>1, <2>2, <2>3
<1>5. PICK failed \in BOOLEAN :
        worker' = [worker EXCEPT !.left = Tail(worker.left), !.failed = failed]
  <2>1. worker \in WorkerStates /\ worker.failed \in BOOLEAN
    BY DEF TypeInv, TypeOK, WorkerStates
  <2>2. \/ worker' = [worker EXCEPT !.left = Tail(worker.left), !.failed = worker.failed]
        \/ worker' = [worker EXCEPT !.left = Tail(worker.left), !.failed = TRUE]
    BY DEF DeleteObject
  <2> QED
    BY <2>1, <2>2
<1>6. /\ worker' \in WorkerStates
      /\ worker'.pc = worker.pc /\ worker'.seen = worker.seen
      /\ worker'.server = worker.server /\ worker'.fresh = worker.fresh
  BY <1>3, <1>5 DEF TypeInv, TypeOK, WorkerStates
<1>7. faults' \in 0 .. MaxFaults
  BY FaultType DEF DeleteObject
<1> QED
  BY <1>1, <1>4, <1>6, <1>7, DeletingType

\* The finalizer is removed only from the current copy, which the cache has, too: the
\* cache does not take a PolicyServer for live that is gone.
LEMMA RemoveFinalizerType ==
  ASSUME TypeInv, RemoveFinalizer PROVE TypeInv'
<1> DEFINE s == worker.server
<1>1. worker.pc = "deleteObjects" /\ worker.pc # "idle" /\ worker.pc \in DeletingPcs
  BY DEF RemoveFinalizer, DeletingPcs
<1>2. s \in Servers /\ object \in [Servers -> Objects]
  BY <1>1 DEF TypeInv, TypeOK, WorkerIsOfThisLife, Objects
<1>3. worker' \in WorkerStates /\ worker'.pc = "idle" /\ queue' \subseteq Servers
  BY <1>1, FinishType DEF RemoveFinalizer
<1>4. faults' \in 0 .. MaxFaults
  BY FaultType DEF RemoveFinalizer
<1>5. UNCHANGED << cluster, object, policy, webhook, caches >>
  BY DEF RemoveFinalizer
<1>6. \/ UNCHANGED << server, synced >>
      \/ /\ worker.fresh
         /\ server' = [server EXCEPT ![s] = NoServer]
         /\ synced' = [synced EXCEPT ![s] = FALSE]
  BY DEF RemoveFinalizer, Outdate
<1>7. CASE UNCHANGED << server, synced >>
  BY <1>1, <1>2, <1>3, <1>4, <1>5, <1>7, DeletingType DEF cluster, TypeInv, TypeOK
<1>8. CASE /\ worker.fresh
           /\ server' = [server EXCEPT ![s] = NoServer]
           /\ synced' = [synced EXCEPT ![s] = FALSE]
  <2>1. server' \in [Servers -> ServerStates] /\ synced' \in [Servers -> BOOLEAN]
    BY <1>2, <1>8 DEF TypeInv, TypeOK, ServerStates
  <2>2. TypeOK'
    BY <1>3, <1>4, <1>5, <2>1 DEF cluster, caches, TypeInv, TypeOK
  <2>3. serverCache[s].phase = "deleting"
    BY <1>1, <1>2, <1>8 DEF TypeInv, CacheIsOfThisLife, WorkerIsOfThisLife
  <2>4. CacheIsOfThisLife' /\ WorkerIsOfThisLife'
    BY <1>2, <1>3, <1>5, <1>8, <2>3 DEF caches, TypeInv, TypeOK, CacheIsOfThisLife,
       WorkerIsOfThisLife, Exists, LivePcs, DeletingPcs
  <2> QED
    BY <2>2, <2>4 DEF TypeInv
<1> QED
  BY <1>6, <1>7, <1>8

\* The controller restarts with fresh caches and an idle worker.
LEMMA CrashType ==
  ASSUME TypeInv, Crash PROVE TypeInv'
<1>1. worker' \in WorkerStates /\ worker'.pc = "idle"
  BY IdleType DEF Crash
<1>2. faults' \in 0 .. MaxFaults
  BY FaultType DEF Crash
<1>3. queue' \subseteq Servers
  BY LifecycleAssumption DEF Crash
<1>4. /\ serverCache' = server /\ synced' = [s \in Servers |-> TRUE]
      /\ rootCache' = rootCA /\ policyCache' = policy
      /\ certificateCache' \in [Servers -> CAs \cup {None}]
      /\ UNCHANGED << cluster, server, object, policy, webhook >>
  BY DEF Crash, TypeInv, TypeOK
<1>5. TypeOK'
  BY <1>1, <1>2, <1>3, <1>4 DEF cluster, TypeInv, TypeOK
<1>6. CacheIsOfThisLife' /\ WorkerIsOfThisLife'
  BY <1>1, <1>4 DEF TypeInv, CacheIsOfThisLife, WorkerIsOfThisLife, Exists, LivePcs, DeletingPcs
<1> QED
  BY <1>5, <1>6 DEF TypeInv

LEMMA StepType ==
  ASSUME TypeInv, [Next]_vars PROVE TypeInv'
<1>1. CASE UNCHANGED vars
  BY <1>1 DEF vars, TypeInv, TypeOK, CacheIsOfThisLife, WorkerIsOfThisLife, Exists
<1>2. CASE Reconcile
  BY <1>2, StartType, ReconcileStepsType, UpdateStatusType, DeletePoliciesType, DeleteObjectType,
     RemoveFinalizerType DEF Reconcile
<1> QED
  BY <1>1, <1>2, UsersType, SyncServerType, OthersType, CrashType DEF Next

\* Every variable has its type; a reconcile past the root CA has a CA to sign with, works
\* on a PolicyServer that was live when it read it, and never on one it does not know.
THEOREM LifecycleTypeCorrect == Spec => []TypeOK
<1>1. TypeInv => TypeOK
  BY DEF TypeInv
<1> QED
  BY <1>1, InitType, StepType, PTL DEF Spec

\* The reconcile under way is of the PolicyServer it was started for, in the life the
\* cache shows, and current while no write came in between.
THEOREM ReconcileIsOfThisLife == Spec => [](CacheIsOfThisLife /\ WorkerIsOfThisLife)
<1>1. TypeInv => CacheIsOfThisLife /\ WorkerIsOfThisLife
  BY DEF TypeInv
<1> QED
  BY <1>1, InitType, StepType, PTL DEF Spec
=============================================================================
