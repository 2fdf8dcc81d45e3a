-------------------- MODULE PolicyServerLifecycleProgress --------------------
(***************************************************************************)
(* No attempt is lost: while a PolicyServer is being deleted something     *)
(* leads to the next reconcile of it, and once nothing does, a live one is *)
(* in step with its spec and lists its policies.  This is what the         *)
(* liveness properties of PolicyServerLifecycle need of every state.       *)
(***************************************************************************)
EXTENDS PolicyServerLifecycleSafety

LEMMA InitProgress == Init => ProgressInv
<1> SUFFICES ASSUME Init PROVE ProgressInv
  OBVIOUS
<1>1. worker.pc = "idle" /\ \A s \in Servers : server[s].phase = "absent"
  BY DEF Init, IdleWorker, NoServer
<1> QED
  BY <1>1 DEF ProgressInv, StaleIsFollowed, FreshSeesSpec, PassedIsInStep, ListIsFollowed,
     DeletionIsUnderWay, RestMeansInStep, RestMeansComplete, LivePcs

\* Something is still to come for s.
Pending(s) == s \in queue \/ ~synced[s]

\* The policies a ConfigMap lists, and that it should.
SameParts(s) ==
    /\ object'[s]["configMap"] = object[s]["configMap"]
    /\ Has(s, "service") => Has(s, "service")'
    /\ \A spec : DeploymentFollows(s, spec) => DeploymentFollows(s, spec)'

\* Faults only ever grow in number.
LEMMA FaultsCount ==
  ASSUME TypeInv, Fault \/ UNCHANGED faults PROVE faults \in Nat /\ (faults' = 0 => faults = 0)
  BY LifecycleAssumption DEF Fault, TypeInv, TypeOK

LEMMA CompleteKept ==
  ASSUME NEW s \in Servers, NEW policies, Complete(s, policies),
         GetPolicies(s, {})' = GetPolicies(s, {}), faults' = 0 => faults = 0
  PROVE  Complete(s, policies)'
  BY DEF Complete

\* A PolicyServer at rest that the step leaves alone stays as it is.
RestKept(s) ==
    /\ server'[s] = server[s]
    /\ SameParts(s)
    /\ GetPolicies(s, {})' = GetPolicies(s, {})
    /\ UnderWay(s) => UnderWay(s)'

\* What the invariant says of a PolicyServer s.
Cared(s) ==
    /\ server[s].phase = "deleting" => UnderWay(s)
    /\ server[s].phase = "live" /\ ~UnderWay(s) =>
          InStep(s) /\ Complete(s, object[s]["configMap"].policies)

\* What it says of the reconcile under way.
WorkerInv == StaleIsFollowed /\ FreshSeesSpec /\ PassedIsInStep /\ ListIsFollowed

LEMMA ProgressParts == ProgressInv <=> WorkerInv /\ \A s \in Servers : Cared(s)
  BY DEF ProgressInv, WorkerInv, DeletionIsUnderWay, RestMeansInStep, RestMeansComplete, Cared

LEMMA CaredKept ==
  ASSUME NEW s \in Servers, Cared(s), RestKept(s), faults' = 0 => faults = 0
  PROVE  Cared(s)'
<1>1. /\ ConfigMapFollows(s, server[s].spec) => ConfigMapFollows(s, server[s].spec)'
      /\ DeploymentFollows(s, server[s].spec) => DeploymentFollows(s, server[s].spec)'
  BY DEF RestKept, SameParts, ConfigMapFollows, Has
<1>2. InStep(s) => InStep(s)'
  BY <1>1 DEF InStep, RestKept, SameParts
<1>3. ASSUME Complete(s, object[s]["configMap"].policies)
      PROVE  Complete(s, object[s]["configMap"].policies)'
  BY <1>3, CompleteKept DEF RestKept, SameParts, Complete
<1> QED
  BY <1>2, <1>3 DEF Cared, RestKept

\* Steps that do not touch the reconcile under way, nor what it has built.
LEMMA QuietProgress ==
  ASSUME TypeInv, ProgressInv, UNCHANGED << server, worker, faults >>, queue \subseteq queue',
         \A s \in Servers : /\ SameParts(s)
                            /\ Pending(s) => Pending(s)'
                            /\ s \in queue' \/ GetPolicies(s, {})' = GetPolicies(s, {})
  PROVE  ProgressInv'
<1>1. worker.pc # "idle" => worker.server \in Servers
  BY DEF TypeInv, WorkerIsOfThisLife
<1>2. StaleIsFollowed' /\ FreshSeesSpec'
  BY <1>1 DEF ProgressInv, StaleIsFollowed, FreshSeesSpec, Pending
<1>3. ASSUME worker.pc \in LivePcs PROVE PassedIsInStep' /\ ListIsFollowed'
  <2> DEFINE s == worker.server spec == worker.seen.spec
  <2>1. SameParts(s) /\ s \in Servers
    BY <1>1, <1>3 DEF LivePcs
  <2>2. /\ ConfigMapFollows(s, spec) => ConfigMapFollows(s, spec)'
        /\ DeploymentFollows(s, spec) => DeploymentFollows(s, spec)'
        /\ Has(s, "service") => Has(s, "service")'
    BY <2>1 DEF SameParts, ConfigMapFollows, Has
  <2>3. PassedIsInStep'
    BY <2>1, <2>2 DEF ProgressInv, PassedIsInStep, SameParts
  <2>4. ListIsFollowed'
    BY <2>1, CompleteKept DEF ProgressInv, ListIsFollowed
  <2> QED
    BY <2>3, <2>4
<1>4. WorkerInv'
  BY <1>2, <1>3 DEF WorkerInv, PassedIsInStep, ListIsFollowed
<1>5. ASSUME NEW s \in Servers PROVE Cared(s)'
  <2>1. CASE s \in queue'
    <3>1. UnderWay(s)'
      BY <2>1 DEF UnderWay
    <3> QED
      BY <3>1 DEF Cared
  <2>2. CASE s \notin queue'
    <3>1. RestKept(s)
      BY <2>2 DEF RestKept, UnderWay, Pending
    <3> QED
      BY <3>1, CaredKept, ProgressParts
  <2> QED
    BY <2>1, <2>2
<1> QED
  BY <1>4, <1>5 DEF ProgressInv, WorkerInv, DeletionIsUnderWay, RestMeansInStep, RestMeansComplete, Cared

\* A step that touches neither the objects nor the policies that are listed.
LEMMA SamePartsKept ==
  ASSUME NEW s \in Servers, object'[s] = object[s] PROVE SameParts(s)
  BY DEF SameParts, Has, DeploymentFollows

LEMMA RestartProgress ==
  ASSUME TypeInv, ProgressInv, NEW x \in Servers, RestartRollout(x) PROVE ProgressInv'
<1> DEFINE old == object[x]["deployment"]
           d   == [old EXCEPT !.restarted = TRUE]
<1>1. old \in Deployments /\ old # None
  BY DEF RestartRollout, Has, TypeInv, TypeOK
<1>2. /\ d \in Deployments /\ d # None /\ d.latest = old.latest
      /\ \A part \in {"replicas", "image", "account", "env", "annotations"} : d[part] = old[part]
  BY <1>1, LifecycleAssumption DEF Deployments
<1>3. object' = [object EXCEPT ![x]["deployment"] = d]
  BY DEF RestartRollout
<1> HIDE DEF d
<1>4. /\ \A s \in Servers \ {x} : object'[s] = object[s]
      /\ object'[x]["configMap"] = object[x]["configMap"]
      /\ object'[x]["service"] = object[x]["service"]
      /\ object'[x]["deployment"] = d
  BY <1>3 DEF TypeInv, TypeOK
<1>5. SameParts(x)
  BY <1>1, <1>2, <1>4 DEF SameParts, Has, DeploymentFollows
<1>6. \A s \in Servers : SameParts(s)
  BY <1>4, <1>5, SamePartsKept
<1>7. /\ UNCHANGED << server, worker, faults, queue, synced >>
      /\ \A s \in Servers : GetPolicies(s, {})' = GetPolicies(s, {})
  BY DEF RestartRollout, caches, GetPolicies
<1> QED
  BY <1>6, <1>7, QuietProgress DEF Pending

\* What changes neither PolicyServers, nor what they consist of, nor the caches.
LEMMA OthersProgress ==
  ASSUME TypeInv, ProgressInv,
         \/ \E spec \in Specs : CreatePullSecret(spec.pullSecret)
         \/ \E p \in Policies : CreatePolicy(p) \/ DeletePolicy(p)
         \/ \E s \in Servers : SyncServer(s)
         \/ \E p \in Policies : SyncPolicy(p) \/ ReconcilePolicy(p)
         \/ SyncSecrets
  PROVE  ProgressInv'
<1>1. UNCHANGED << server, worker, faults, object >>
  BY DEF CreatePullSecret, CreatePolicy, DeletePolicy, SyncServer, SyncPolicy, SyncSecrets,
     ReconcilePolicy, RegisterWebhook, DeleteWebhook, FinishPolicy, cluster
<1>2. ASSUME NEW x \in Servers, SyncServer(x) PROVE ProgressInv'
  <2>1. /\ synced' = [synced EXCEPT ![x] = TRUE] /\ queue' = queue \cup {x}
        /\ UNCHANGED policyCache
    BY <1>2 DEF SyncServer
  <2>2. \A s \in Servers : Pending(s) => Pending(s)'
    BY <2>1 DEF Pending, TypeInv, TypeOK
  <2>3. \A s \in Servers : GetPolicies(s, {})' = GetPolicies(s, {})
    BY <2>1 DEF GetPolicies
  <2> QED
    BY <1>1, <2>1, <2>2, <2>3, SamePartsKept, QuietProgress
<1>3. ASSUME NEW p \in Policies, SyncPolicy(p) PROVE ProgressInv'
  <2>1. /\ policyCache' = [policyCache EXCEPT ![p] = policy[p]]
        /\ queue' = queue \cup {Owner[p]} /\ UNCHANGED synced
    BY <1>3 DEF SyncPolicy
  <2>2. \A s \in Servers : Pending(s) => Pending(s)'
    BY <2>1 DEF Pending
  <2>3. \A s \in Servers : s # Owner[p] => GetPolicies(s, {})' = GetPolicies(s, {})
    BY <2>1 DEF GetPolicies, TypeInv, TypeOK
  <2> QED
    BY <1>1, <2>1, <2>2, <2>3, SamePartsKept, QuietProgress
<1>4. CASE \/ \E spec \in Specs : CreatePullSecret(spec.pullSecret)
           \/ \E p \in Policies : CreatePolicy(p) \/ DeletePolicy(p)
           \/ \E p \in Policies : ReconcilePolicy(p)
           \/ SyncSecrets
  <2>1. UNCHANGED << queue, synced, policyCache >>
    BY <1>4 DEF CreatePullSecret, CreatePolicy, DeletePolicy, SyncSecrets, ReconcilePolicy,
       RegisterWebhook, DeleteWebhook, FinishPolicy, caches
  <2>2. \A s \in Servers : GetPolicies(s, {})' = GetPolicies(s, {})
    BY <2>1 DEF GetPolicies
  <2> QED
    BY <1>1, <2>1, <2>2, SamePartsKept, QuietProgress DEF Pending
<1> QED
  BY <1>2, <1>3, <1>4

\* A write of users is an event to come, and outdates the reconcile under way.
LEMMA WriteProgress ==
  ASSUME TypeInv, ProgressInv, NEW x \in Servers, WriteServer(x) \/ DeleteServer(x)
  PROVE  ProgressInv'
<1>1. /\ \A s \in Servers \ {x} : server'[s] = server[s]
      /\ synced' = [synced EXCEPT ![x] = FALSE]
      /\ UNCHANGED << object, queue, policyCache, faults >>
  BY DEF WriteServer, DeleteServer, Outdate, cluster, caches, TypeInv, TypeOK
<1>2. /\ worker'.pc = worker.pc /\ worker'.server = worker.server /\ worker'.seen = worker.seen
      /\ worker'.policies = worker.policies /\ worker'.failed = worker.failed
      /\ worker'.fresh <=> worker.fresh /\ worker.server # x
  BY DEF WriteServer, DeleteServer, OutdateWorker, TypeInv, TypeOK, WorkerStates
<1>3. worker.pc # "idle" => worker.server \in Servers
  BY DEF TypeInv, WorkerIsOfThisLife
<1>4. StaleIsFollowed' /\ FreshSeesSpec'
  BY <1>1, <1>2, <1>3 DEF ProgressInv, StaleIsFollowed, FreshSeesSpec, TypeInv, TypeOK
<1>5. \A s \in Servers : SameParts(s) /\ GetPolicies(s, {})' = GetPolicies(s, {})
  BY <1>1, SamePartsKept DEF GetPolicies
<1>6. PassedIsInStep'
  BY <1>1, <1>2 DEF ProgressInv, PassedIsInStep, ConfigMapFollows, DeploymentFollows, Has
<1>7. ListIsFollowed'
  BY <1>1, <1>2, <1>3, <1>5, CompleteKept DEF ProgressInv, ListIsFollowed, LivePcs
<1>8. ASSUME NEW s \in Servers PROVE Cared(s)'
  <2>1. CASE s = x
    BY <1>1, <2>1 DEF Cared, UnderWay, TypeInv, TypeOK
  <2>2. CASE s # x
    <3>1. RestKept(s)
      BY <1>1, <1>2, <1>5, <2>2 DEF RestKept, UnderWay, TypeInv, TypeOK
    <3> QED
      BY <1>1, <3>1, CaredKept, ProgressParts
  <2> QED
    BY <2>1, <2>2
<1> QED
  BY <1>4, <1>6, <1>7, <1>8 DEF ProgressInv, DeletionIsUnderWay, RestMeansInStep, RestMeansComplete,
     Cared

LEMMA NextProgressParts ==
  ASSUME WorkerInv', \A s \in Servers : Cared(s)' PROVE ProgressInv'
  BY DEF ProgressInv, WorkerInv, DeletionIsUnderWay, RestMeansInStep, RestMeansComplete, Cared

\* The worker takes a PolicyServer from the queue.  What the cache does not have any more
\* is gone, or is back, and that is an event to come.
LEMMA StartProgress ==
  ASSUME TypeInv, ProgressInv, NEW x \in Servers, StartReconcile(x) PROVE ProgressInv'
<1>1. /\ UNCHANGED << server, object, synced, policyCache, serverCache >>
      /\ queue' = queue \ {x} /\ worker.pc = "idle"
      /\ faults' = 0 => faults = 0
  BY FaultsCount DEF StartReconcile, cluster, caches
<1>2. \A s \in Servers : SameParts(s) /\ GetPolicies(s, {})' = GetPolicies(s, {})
  BY <1>1, SamePartsKept DEF GetPolicies
<1>3. ASSUME NEW s \in Servers \ {x} PROVE Cared(s)'
  <2>1. RestKept(s)
    BY <1>1, <1>2, <1>3 DEF RestKept, UnderWay
  <2> QED
    BY <1>1, <2>1, CaredKept, ProgressParts
<1>4. CASE serverCache[x].phase = "absent" /\ UNCHANGED worker
  <2>1. synced[x] => server[x].phase = "absent"
    BY <1>4 DEF TypeInv, CacheIsOfThisLife
  <2>2. Cared(x)'
    BY <1>1, <2>1 DEF Cared, UnderWay
  <2>3. WorkerInv'
    BY <1>1, <1>4 DEF WorkerInv, StaleIsFollowed, FreshSeesSpec, PassedIsInStep, ListIsFollowed, LivePcs
  <2> QED
    BY <1>3, <2>2, <2>3, NextProgressParts
<1>5. ASSUME serverCache[x].phase # "absent", NEW failed, worker' = StartedWorker(x, GetPolicies(x, failed)),
             failed = {} \/ faults' # 0
      PROVE  ProgressInv'
  <2>1. /\ worker'.server = x /\ worker'.seen = serverCache[x] /\ worker'.fresh = synced[x]
        /\ worker'.failed = FALSE /\ worker'.policies = GetPolicies(x, failed)
        /\ \/ worker'.pc = "rootCA"
           \/ worker'.pc \in DeletingPcs
    BY <1>5, StateType DEF StartedWorker, FirstStep, TypeInv, TypeOK, DeletingPcs
  <2>2. Cared(x)'
    BY <2>1 DEF Cared, UnderWay, DeletingPcs
  <2>3. StaleIsFollowed' /\ FreshSeesSpec'
    BY <1>1, <2>1 DEF StaleIsFollowed, FreshSeesSpec, TypeInv, CacheIsOfThisLife
  <2>4. PassedIsInStep'
    BY <2>1 DEF PassedIsInStep, UpTo, Conditions, Kinds, LivePcs, DeletingPcs
  <2>5. GetPolicies(x, failed) \subseteq GetPolicies(x, {})
    BY DEF GetPolicies
  <2>6. ListIsFollowed'
    BY <1>2, <1>5, <2>1, <2>5 DEF ListIsFollowed, Complete
  <2> QED
    BY <1>3, <2>2, <2>3, <2>4, <2>6, NextProgressParts DEF WorkerInv
<1>6. faults # -1 /\ (Fault => faults' # 0)
  BY LifecycleAssumption DEF Fault, TypeInv, TypeOK
<1> QED
  BY <1>4, <1>5, <1>6 DEF StartReconcile

\* The steps of UpTo, spelled out.
LEMMA Steps ==
  /\ UpTo("rootCA") = {"rootCA"}
  /\ UpTo("certificate") = {"rootCA", "certificate"}
  /\ UpTo("configMap") = {"rootCA", "certificate", "configMap"}
  /\ UpTo("deployment") = {"rootCA", "certificate", "configMap", "deployment"}
  /\ UpTo("service") = {"rootCA", "certificate", "configMap", "deployment", "service"}
  BY DEF UpTo, LivePcs

\* What a step of Reconcile leaves alone.
BuildFrame ==
    /\ UNCHANGED << server, synced, queue, policyCache >>
    /\ worker'.pc \in LivePcs /\ worker'.server = worker.server /\ worker'.fresh = worker.fresh
    /\ worker'.policies = worker.policies /\ worker'.seen.spec = worker.seen.spec
    /\ \A s \in Servers \ {worker.server} : object'[s] = object[s]
    /\ faults' = 0 => faults = 0

LEMMA BuildProgress ==
  ASSUME TypeInv, ProgressInv, worker.pc \in LivePcs, BuildFrame, PassedIsInStep'
  PROVE  ProgressInv'
<1>1. worker.server \in Servers /\ worker.pc # "idle"
  BY DEF TypeInv, WorkerIsOfThisLife, LivePcs
<1>2. StaleIsFollowed' /\ FreshSeesSpec'
  BY <1>1 DEF BuildFrame, ProgressInv, StaleIsFollowed, FreshSeesSpec
<1>3. \A s \in Servers : GetPolicies(s, {})' = GetPolicies(s, {})
  BY DEF BuildFrame, GetPolicies
<1>4. ListIsFollowed'
  BY <1>1, <1>3, CompleteKept DEF BuildFrame, ProgressInv, ListIsFollowed
<1>5. ASSUME NEW s \in Servers PROVE Cared(s)'
  <2>1. CASE s = worker.server
    BY <2>1 DEF BuildFrame, Cared, UnderWay, LivePcs
  <2>2. CASE s # worker.server
    <3>1. RestKept(s)
      BY <1>3, <2>2, SamePartsKept DEF BuildFrame, RestKept, UnderWay
    <3> QED
      BY <3>1, CaredKept, ProgressParts DEF BuildFrame
  <2> QED
    BY <2>1, <2>2
<1> QED
  BY <1>2, <1>4, <1>5, NextProgressParts DEF WorkerInv

\* What the outcomes of a step leave of what the reconcile knows.
LEMMA SucceedsKeeps ==
  ASSUME TypeInv, worker.pc \in LivePcs \ {"status"}, NEW pc \in LivePcs, Succeeds(pc)
  PROVE  /\ worker'.failed = worker.failed /\ worker'.policies = worker.policies
         /\ worker'.seen.spec = worker.seen.spec
<1> DEFINE seen == [worker.seen EXCEPT !.conditions = worker.seen.conditions \cup {worker.pc}]
<1>1. seen.spec = worker.seen.spec
  BY SeenType DEF LiveStates
<1>2. worker' = [worker EXCEPT !.pc = pc, !.seen = seen]
  BY DEF Succeeds, TypeInv, TypeOK, WorkerStates
<1> HIDE DEF seen
<1> QED
  BY <1>1, <1>2 DEF TypeInv, TypeOK, WorkerStates

LEMMA ReturnsErrorKeeps ==
  ASSUME TypeInv, worker.pc \in LivePcs, ReturnsError
  PROVE  /\ worker'.failed = TRUE /\ worker'.policies = worker.policies
         /\ worker'.seen.spec = worker.seen.spec
<1> DEFINE seen == [worker.seen EXCEPT !.conditions = ConditionsAfterError]
<1>1. seen.spec = worker.seen.spec
  BY SeenType DEF LiveStates
<1>2. worker' = [worker EXCEPT !.pc = "status", !.seen = seen, !.failed = TRUE]
  BY DEF ReturnsError, TypeInv, TypeOK, WorkerStates
<1> HIDE DEF seen
<1> QED
  BY <1>1, <1>2 DEF TypeInv, TypeOK, WorkerStates

\* A failed reconcile claims nothing.
LEMMA ErrorProgress ==
  ASSUME TypeInv, ProgressInv, worker.pc \in LivePcs, ReturnsError, Fault \/ UNCHANGED faults,
         UNCHANGED << server, synced, queue, policyCache >>,
         \A s \in Servers \ {worker.server} : object'[s] = object[s]
  PROVE  ProgressInv'
<1>1. BuildFrame
  BY ReturnsErrorMeans, ReturnsErrorKeeps, FaultsCount DEF BuildFrame, LivePcs
<1>2. PassedIsInStep'
  BY ReturnsErrorMeans, ReturnsErrorKeeps DEF PassedIsInStep
<1> QED
  BY <1>1, <1>2, BuildProgress

\* The step that follows another.
Follows(a, b) ==
    \/ a = "rootCA" /\ b = "certificate"
    \/ a = "certificate" /\ b = "configMap"
    \/ a = "configMap" /\ b = "deployment"
    \/ a = "deployment" /\ b = "service"
    \/ a = "service" /\ b = "status"

LEMMA FollowsMeans ==
  ASSUME NEW a, NEW b, Follows(a, b), NEW c \in Conditions, b \notin UpTo(c)
  PROVE  a \notin UpTo(c) \/ c = a
<1>1. c \in {"rootCA", "certificate", "configMap", "deployment", "service"}
  BY DEF Conditions, Kinds
<1> QED
  BY <1>1, Steps DEF Follows

\* A step that succeeds: what is left is to say that it has built what its spec says.
LEMMA SucceedsProgress ==
  ASSUME TypeInv, ProgressInv, NEW pc, Follows(worker.pc, pc),
         worker'.pc = pc, worker'.server = worker.server, worker'.fresh = worker.fresh,
         worker'.failed = worker.failed, worker'.policies = worker.policies,
         worker'.seen.spec = worker.seen.spec,
         worker'.seen.conditions = worker.seen.conditions \cup {worker.pc},
         UNCHANGED << server, synced, queue, policyCache, faults >>,
         \A s \in Servers \ {worker.server} : object'[s] = object[s],
         worker.pc \notin {"rootCA", "certificate"} =>
            /\ ConfigMapFollows(worker.server, worker.seen.spec)'
            /\ object'[worker.server]["configMap"].policies = worker.policies,
         worker.pc \in {"deployment", "service"} =>
            DeploymentFollows(worker.server, worker.seen.spec)',
         worker.pc = "service" => Has(worker.server, "service")'
  PROVE  ProgressInv'
<1>1. worker.pc \in LivePcs /\ pc \in LivePcs
  BY DEF Follows, LivePcs
<1>2. BuildFrame
  BY <1>1 DEF BuildFrame
<1>3. ~worker.failed /\ \A c \in Conditions : worker.pc \notin UpTo(c) => c \in worker.seen.conditions
  BY <1>1 DEF ProgressInv, PassedIsInStep, Follows
<1>4. \A c \in Conditions : pc \notin UpTo(c) => c \in worker'.seen.conditions
  BY <1>3, FollowsMeans
<1>5. /\ pc \notin UpTo("configMap") => worker.pc \notin {"rootCA", "certificate"}
      /\ pc \notin UpTo("deployment") => worker.pc \in {"deployment", "service"}
      /\ pc \notin UpTo("service") => worker.pc = "service"
  BY Steps DEF Follows
<1>6. PassedIsInStep'
  BY <1>3, <1>4, <1>5 DEF PassedIsInStep, ConfigMapFollows, DeploymentFollows, Has
<1> QED
  BY <1>1, <1>2, <1>6, BuildProgress

\* The steps themselves.
LEMMA RootCAProgress ==
  ASSUME TypeInv, ProgressInv, ReconcileRootCA PROVE ProgressInv'
<1>1. /\ worker.pc = "rootCA" /\ worker.pc \in LivePcs
      /\ UNCHANGED << server, object, synced, queue, policyCache >>
  BY DEF ReconcileRootCA, LivePcs, caches
<1>2. CASE ReturnsError /\ Fault
  BY <1>1, <1>2, ErrorProgress
<1>3. CASE /\ worker' = [worker EXCEPT !.pc = "certificate", !.ca = RootCAInHand,
                                       !.seen.conditions = @ \cup {"rootCA"}]
           /\ UNCHANGED faults
  <2> DEFINE conditions == worker.seen.conditions \cup {"rootCA"}
             seen       == [worker.seen EXCEPT !.conditions = conditions]
  <2>1. seen.conditions = conditions /\ seen.spec = worker.seen.spec
    BY <1>1, SeenType DEF LiveStates
  <2>2. worker' = [worker EXCEPT !.pc = "certificate", !.ca = RootCAInHand, !.seen = seen]
    BY <1>3 DEF TypeInv, TypeOK, WorkerStates
  <2> HIDE DEF seen
  <2>3. /\ worker'.pc = "certificate" /\ worker'.seen = seen
        /\ worker'.server = worker.server /\ worker'.fresh = worker.fresh
        /\ worker'.failed = worker.failed /\ worker'.policies = worker.policies
    BY <2>2 DEF TypeInv, TypeOK, WorkerStates
  <2>4. Follows(worker.pc, "certificate")
    BY <1>1 DEF Follows
  <2> QED
    BY <1>1, <1>3, <2>1, <2>3, <2>4, SucceedsProgress
<1> QED
  BY <1>2, <1>3 DEF ReconcileRootCA

LEMMA CertificateProgress ==
  ASSUME TypeInv, ProgressInv, ReconcileCertificate PROVE ProgressInv'
<1> DEFINE s == worker.server
<1>1. /\ worker.pc = "certificate" /\ worker.pc \in LivePcs \ {"status"} /\ s \in Servers
      /\ UNCHANGED << server, synced, queue, policyCache >>
  BY DEF ReconcileCertificate, LivePcs, cluster, caches, TypeInv, WorkerIsOfThisLife
<1>2. \E ca : object' \in {object, [object EXCEPT ![s]["certificate"] = ca]}
  BY DEF ReconcileCertificate, CreatedCertificate, WriteIfAbsent, Write
<1>3. \A x \in Servers \ {s} : object'[x] = object[x]
  BY <1>1, <1>2 DEF TypeInv, TypeOK
<1>4. CASE ReturnsError /\ Fault
  BY <1>1, <1>3, <1>4, ErrorProgress
<1>5. CASE Succeeds("configMap")
  <2>1. "configMap" \in LivePcs /\ Follows(worker.pc, "configMap") /\ UNCHANGED faults
    BY <1>1, <1>5 DEF LivePcs, Follows, Succeeds
  <2> QED
    BY <1>1, <1>3, <1>5, <2>1, SucceedsMeans, SucceedsKeeps, SucceedsProgress
<1> QED
  BY <1>4, <1>5 DEF ReconcileCertificate

LEMMA ConfigMapProgress ==
  ASSUME TypeInv, ProgressInv, ReconcileConfigMap PROVE ProgressInv'
<1> DEFINE s   == worker.server
           old == object[s]["deployment"]
           d   == IF old = None THEN None ELSE [old EXCEPT !.latest = FALSE]
           m   == configMap(worker.seen.spec, worker.policies)
<1>1. /\ worker.pc = "configMap" /\ worker.pc \in LivePcs \ {"status"} /\ s \in Servers
      /\ UNCHANGED << server, synced, queue, policyCache >>
  BY DEF ReconcileConfigMap, LivePcs, cluster, caches, TypeInv, WorkerIsOfThisLife
<1>2. m \in ConfigMaps /\ m # None
  <2>1. worker.seen.spec \in Specs /\ worker.policies \in SUBSET Policies
    BY <1>1, SeenType DEF LiveStates, TypeInv, TypeOK, WorkerStates
  <2> QED
    BY <2>1, BuiltType, LifecycleAssumption
<1>3. m.sources = worker.seen.spec.sources /\ m.policies = worker.policies
  BY DEF configMap
<1>4. \/ ReconciledConfigMap = object /\ object[s]["configMap"] = m
      \/ ReconciledConfigMap = [[object EXCEPT ![s]["configMap"] = m]
                                  EXCEPT ![s]["deployment"] = d]
  BY DEF ReconciledConfigMap
<1> HIDE DEF m, d
<1>5. /\ ReconciledConfigMap[s]["configMap"] = m
      /\ \A x \in Servers \ {s} : ReconciledConfigMap[x] = object[x]
  BY <1>1, <1>4 DEF TypeInv, TypeOK
<1>6. \A x \in Servers \ {s} : object'[x] = object[x]
  BY <1>5 DEF ReconcileConfigMap
<1>7. CASE ReturnsError /\ Fault
  BY <1>1, <1>6, <1>7, ErrorProgress
<1>8. CASE object' = ReconciledConfigMap /\ Succeeds("deployment")
  <2>1. "deployment" \in LivePcs /\ Follows(worker.pc, "deployment") /\ UNCHANGED faults
    BY <1>1, <1>8 DEF LivePcs, Follows, Succeeds
  <2>2. /\ worker'.server = s /\ worker'.seen.spec = worker.seen.spec
        /\ worker'.policies = worker.policies
    BY <1>1, <1>8, <2>1, SucceedsMeans, SucceedsKeeps
  <2>3. /\ ConfigMapFollows(worker.server, worker.seen.spec)'
        /\ object'[s]["configMap"].policies = worker.policies
    BY <1>2, <1>3, <1>5, <1>8, <2>2 DEF ConfigMapFollows, Has
  <2> QED
    BY <1>1, <1>6, <1>8, <2>1, <2>3, SucceedsMeans, SucceedsKeeps, SucceedsProgress
<1> QED
  BY <1>7, <1>8 DEF ReconcileConfigMap

\* What is patched, or need not be, is as the spec says, in the parts that are compared.
LEMMA PatchFollows ==
  ASSUME NEW d \in Deployments, NEW new \in Deployments, new.latest
  PROVE  LET u == updatePolicyServerDeployment(d, new) IN
         /\ u.latest
         /\ \A part \in {"replicas", "image", "account", "env", "annotations"} : u[part] = new[part]
<1>1. CASE shouldUpdatePolicyServerDeployment(d, new)
  BY <1>1 DEF updatePolicyServerDeployment
<1>2. CASE ~shouldUpdatePolicyServerDeployment(d, new)
  <2>1. /\ d.replicas = new.replicas /\ d.image = new.image /\ d.account = new.account
        /\ d.latest = new.latest /\ d.env = new.env /\ d.annotations = new.annotations
    BY <1>2 DEF shouldUpdatePolicyServerDeployment, isPolicyServerImageChanged,
       haveEqualAnnotationsWithoutRestart
  <2>2. d["replicas"] = d.replicas /\ new["replicas"] = new.replicas
    OBVIOUS
  <2> QED
    BY <1>2, <2>1 DEF updatePolicyServerDeployment
<1> QED
  BY <1>1, <1>2

LEMMA DeploymentProgress ==
  ASSUME TypeInv, ProgressInv, ReconcileDeployment PROVE ProgressInv'
<1> DEFINE s   == worker.server
           new == deployment(worker.seen.spec)
<1>1. /\ worker.pc = "deployment" /\ worker.pc \in LivePcs \ {"status"} /\ s \in Servers
      /\ UNCHANGED << server, synced, queue, policyCache >>
  BY DEF ReconcileDeployment, LivePcs, cluster, caches, TypeInv, WorkerIsOfThisLife
<1>2. new \in Deployments /\ new.latest
  BY <1>1, SeenType, BuiltType DEF LiveStates, deployment
<1> HIDE DEF new
<1>3. PICK d \in Deployments :
        /\ ReconciledDeployment = [object EXCEPT ![s]["deployment"] = d]
        /\ d.latest
        /\ \A part \in {"replicas", "image", "account", "env", "annotations"} : d[part] = new[part]
  <2>1. CASE Has(s, "deployment")
    <3>1. object[s]["deployment"] \in Deployments
      BY <1>1, <2>1 DEF Has, TypeInv, TypeOK
    <3> QED
      BY <1>2, <2>1, <3>1, PatchType, PatchFollows DEF ReconciledDeployment, Write, new
  <2>2. CASE ~Has(s, "deployment")
    BY <1>2, <2>2 DEF ReconciledDeployment, Write, new
  <2> QED
    BY <2>1, <2>2
<1>4. d # None
  BY LifecycleAssumption
<1>5. /\ ReconciledDeployment[s]["deployment"] = d
      /\ ReconciledDeployment[s]["configMap"] = object[s]["configMap"]
      /\ \A x \in Servers \ {s} : ReconciledDeployment[x] = object[x]
  BY <1>1, <1>3 DEF TypeInv, TypeOK
<1>6. \A x \in Servers \ {s} : object'[x] = object[x]
  BY <1>5 DEF ReconcileDeployment
<1>7. CASE ReturnsError /\ (Fault \/ UNCHANGED faults)
  BY <1>1, <1>6, <1>7, ErrorProgress
<1>8. CASE object' = ReconciledDeployment /\ Succeeds("service")
  <2>1. "service" \in LivePcs /\ Follows(worker.pc, "service") /\ UNCHANGED faults
    BY <1>1, <1>8 DEF LivePcs, Follows, Succeeds
  <2>2. /\ worker'.server = s /\ worker'.seen.spec = worker.seen.spec
        /\ worker'.policies = worker.policies
    BY <1>1, <1>8, <2>1, SucceedsMeans, SucceedsKeeps
  <2>3. /\ ConfigMapFollows(s, worker.seen.spec)
        /\ object[s]["configMap"].policies = worker.policies
    BY <1>1, Steps DEF ProgressInv, PassedIsInStep
  <2>4. /\ ConfigMapFollows(worker.server, worker.seen.spec)'
        /\ object'[s]["configMap"].policies = worker.policies
    BY <1>5, <1>8, <2>2, <2>3 DEF ConfigMapFollows, Has
  <2>5. DeploymentFollows(worker.server, worker.seen.spec)'
    BY <1>3, <1>4, <1>5, <1>8, <2>2 DEF DeploymentFollows, Has, new
  <2> QED
    BY <1>1, <1>6, <1>8, <2>1, <2>4, <2>5, SucceedsMeans, SucceedsKeeps, SucceedsProgress
<1> QED
  BY <1>7, <1>8 DEF ReconcileDeployment

LEMMA ServiceProgress ==
  ASSUME TypeInv, ProgressInv, ReconcileService PROVE ProgressInv'
<1> DEFINE s == worker.server
           v == service(worker.seen.spec)
<1>1. /\ worker.pc = "service" /\ worker.pc \in LivePcs \ {"status"} /\ s \in Servers
      /\ UNCHANGED << server, synced, queue, policyCache >>
  BY DEF ReconcileService, LivePcs, cluster, caches, TypeInv, WorkerIsOfThisLife
<1>2. v # None
  BY <1>1, SeenType, BuiltType, LifecycleAssumption DEF LiveStates
<1>3. \/ CreatedService = object /\ Has(s, "service")
      \/ CreatedService = [object EXCEPT ![s]["service"] = v]
  BY DEF CreatedService, WriteIfAbsent, Write
<1> HIDE DEF v
<1>4. /\ CreatedService[s]["service"] # None
      /\ CreatedService[s]["configMap"] = object[s]["configMap"]
      /\ CreatedService[s]["deployment"] = object[s]["deployment"]
      /\ \A x \in Servers \ {s} : CreatedService[x] = object[x]
  BY <1>1, <1>2, <1>3 DEF Has, TypeInv, TypeOK
<1>5. \A x \in Servers \ {s} : object'[x] = object[x]
  BY <1>4 DEF ReconcileService
<1>6. CASE ReturnsError /\ Fault
  BY <1>1, <1>5, <1>6, ErrorProgress
<1>7. CASE object' = CreatedService /\ Succeeds("status")
  <2>1. "status" \in LivePcs /\ Follows(worker.pc, "status") /\ UNCHANGED faults
    BY <1>1, <1>7 DEF LivePcs, Follows, Succeeds
  <2>2. /\ worker'.server = s /\ worker'.seen.spec = worker.seen.spec
        /\ worker'.policies = worker.policies
    BY <1>1, <1>7, <2>1, SucceedsMeans, SucceedsKeeps
  <2>3. /\ ConfigMapFollows(s, worker.seen.spec)
        /\ object[s]["configMap"].policies = worker.policies
        /\ DeploymentFollows(s, worker.seen.spec)
    BY <1>1, Steps DEF ProgressInv, PassedIsInStep
  <2>4. /\ ConfigMapFollows(worker.server, worker.seen.spec)'
        /\ object'[s]["configMap"].policies = worker.policies
        /\ DeploymentFollows(worker.server, worker.seen.spec)'
        /\ Has(worker.server, "service")'
    BY <1>4, <1>7, <2>2, <2>3 DEF ConfigMapFollows, DeploymentFollows, Has
  <2> QED
    BY <1>1, <1>5, <1>7, <2>1, <2>4, SucceedsMeans, SucceedsKeeps, SucceedsProgress
<1> QED
  BY <1>6, <1>7 DEF ReconcileService

\* The end of a reconcile: what becomes of its own PolicyServer, and that it leaves the
\* others alone.
EndFrame ==
    /\ worker.pc # "idle" /\ worker'.pc = "idle"
    /\ UNCHANGED << object, policyCache >> /\ queue \subseteq queue'
    /\ \A s \in Servers \ {worker.server} : server'[s] = server[s] /\ synced'[s] = synced[s]
    /\ faults' = 0 => faults = 0

LEMMA EndProgress ==
  ASSUME TypeInv, ProgressInv, EndFrame,
         \A s \in Servers : s = worker.server => Cared(s)'
  PROVE  ProgressInv'
<1>1. WorkerInv'
  BY DEF EndFrame, WorkerInv, StaleIsFollowed, FreshSeesSpec, PassedIsInStep, ListIsFollowed, LivePcs
<1>2. ASSUME NEW s \in Servers, s # worker.server PROVE Cared(s)'
  <2>1. GetPolicies(s, {})' = GetPolicies(s, {})
    BY DEF EndFrame, GetPolicies
  <2>2. SameParts(s)
    BY SamePartsKept DEF EndFrame
  <2>3. RestKept(s)
    BY <1>2, <2>1, <2>2 DEF EndFrame, RestKept, UnderWay
  <2> QED
    BY <2>3, CaredKept, ProgressParts DEF EndFrame
<1> QED
  BY <1>1, <1>2, NextProgressParts

LEMMA FinishMeans ==
  ASSUME NEW requeue, Finish(requeue)
  PROVE  /\ worker'.pc = "idle" /\ queue \subseteq queue'
         /\ requeue => worker.server \in queue'
  BY DEF Finish, IdleWorker

\* A reconcile that has gone through without an error has put all in step.
LEMMA UpdateStatusProgress ==
  ASSUME TypeInv, ProgressInv, UpdateStatus PROVE ProgressInv'
<1> DEFINE s == worker.server
<1>1. /\ worker.pc = "status" /\ worker.pc \in LivePcs /\ s \in Servers
      /\ UNCHANGED << object, policyCache >>
  BY DEF UpdateStatus, LivePcs, caches, TypeInv, WorkerIsOfThisLife
<1>2. PICK requeue : Finish(requeue)
  BY DEF UpdateStatus
<1>3. faults' = 0 => faults = 0
  BY FaultsCount DEF UpdateStatus
<1>4. \/ UNCHANGED << server, synced >>
      \/ /\ worker.fresh
         /\ server' = [server EXCEPT ![s].conditions = worker.seen.conditions]
         /\ synced' = [synced EXCEPT ![s] = synced[s] /\ server' = server]
  BY DEF UpdateStatus, SavedStatus
<1>5. EndFrame
  <2>1. \A x \in Servers \ {s} : server'[x] = server[x] /\ synced'[x] = synced[x]
    BY <1>1, <1>4 DEF TypeInv, TypeOK
  <2> QED
    BY <1>1, <1>2, <1>3, <2>1, FinishMeans DEF EndFrame
<1>6. CASE Finish(TRUE)
  <2>1. s \in queue'
    BY <1>6, FinishMeans
  <2>2. \A x \in Servers : x = s => Cared(x)'
    BY <2>1 DEF Cared, UnderWay
  <2> QED
    BY <1>5, <2>2, EndProgress
<1>7. CASE /\ worker.fresh /\ server' = SavedStatus(s)
           /\ worker.failed = FALSE /\ UNCHANGED faults
  <2>1. server[s] \in LiveStates /\ server[s].phase = "live" /\ server[s].spec = worker.seen.spec
    BY <1>1, <1>7, StateType, SeenType DEF TypeInv, TypeOK, WorkerIsOfThisLife, LiveStates,
       ProgressInv, FreshSeesSpec
  <2>2. /\ server'[s].phase = "live" /\ server'[s].spec = worker.seen.spec
        /\ server'[s].conditions = worker.seen.conditions
    BY <1>1, <1>7, <2>1 DEF SavedStatus, TypeInv, TypeOK, LiveStates
  <2>3. \A c \in Conditions : worker.pc \notin UpTo(c)
    BY <1>1, Steps DEF Conditions, Kinds
  <2>4. /\ \A c \in Conditions : c \in worker.seen.conditions
        /\ ConfigMapFollows(s, worker.seen.spec)
        /\ object[s]["configMap"].policies = worker.policies
        /\ DeploymentFollows(s, worker.seen.spec) /\ Has(s, "service")
    BY <1>1, <1>7, <2>3, Steps DEF ProgressInv, PassedIsInStep
  <2>5. worker.seen.conditions = Conditions
    BY <1>1, <2>4, SeenType
  <2>6. s \in queue \/ Complete(s, worker.policies)
    BY <1>1 DEF ProgressInv, ListIsFollowed
  <2>7. \A x : GetPolicies(x, {})' = GetPolicies(x, {})
    BY <1>1 DEF GetPolicies
  <2>8. ASSUME NEW x \in Servers, x = s PROVE Cared(x)'
    <3>1. InStep(x)'
      BY <1>1, <2>2, <2>4, <2>5, <2>8 DEF InStep, ConfigMapFollows, DeploymentFollows, Has
    <3>2. x \in queue' \/ Complete(x, object[x]["configMap"].policies)'
      BY <1>1, <1>5, <1>7, <2>4, <2>6, <2>7, <2>8 DEF Complete, EndFrame
    <3> QED
      BY <2>2, <2>8, <3>1, <3>2 DEF Cared, UnderWay
  <2> QED
    BY <1>5, <2>8, EndProgress
<1>8. worker.failed \in BOOLEAN
  BY DEF TypeInv, TypeOK, WorkerStates
<1> QED
  BY <1>6, <1>7, <1>8 DEF UpdateStatus

\* A deletion goes on, or is followed by another attempt.
LEMMA DeletingProgress ==
  ASSUME TypeInv, ProgressInv, worker.pc \in DeletingPcs, worker'.pc = worker.pc,
         worker'.server = worker.server, worker'.fresh = worker.fresh, worker'.seen = worker.seen,
         UNCHANGED << server, synced, queue, policyCache >>,
         \A s \in Servers \ {worker.server} : object'[s] = object[s],
         faults' = 0 => faults = 0
  PROVE  ProgressInv'
<1>1. WorkerInv'
  BY DEF ProgressInv, WorkerInv, StaleIsFollowed, FreshSeesSpec, PassedIsInStep, ListIsFollowed,
     LivePcs, DeletingPcs
<1>2. ASSUME NEW s \in Servers PROVE Cared(s)'
  <2>1. CASE s = worker.server
    BY <2>1 DEF Cared, UnderWay, DeletingPcs
  <2>2. CASE s # worker.server
    <3>1. GetPolicies(s, {})' = GetPolicies(s, {})
      BY DEF GetPolicies
    <3>2. RestKept(s)
      BY <2>2, <3>1, SamePartsKept DEF RestKept, UnderWay
    <3> QED
      BY <3>2, CaredKept, ProgressParts
  <2> QED
    BY <2>1, <2>2
<1> QED
  BY <1>1, <1>2, NextProgressParts

LEMMA DeletePoliciesProgress ==
  ASSUME TypeInv, ProgressInv, DeletePolicies PROVE ProgressInv'
<1>1. /\ worker.pc = "deletePolicies" /\ worker.pc \in DeletingPcs
      /\ UNCHANGED << server, object, synced, policyCache >>
  BY DEF DeletePolicies, DeletingPcs, caches
<1>2. faults' = 0 => faults = 0
  BY FaultsCount DEF DeletePolicies
<1>3. CASE worker.policies = {}
  <2>1. Finish(TRUE)
    BY <1>3 DEF DeletePolicies
  <2>2. EndFrame /\ worker.server \in queue'
    BY <1>1, <1>2, <2>1, FinishMeans DEF EndFrame
  <2>3. \A s \in Servers : s = worker.server => Cared(s)'
    BY <2>2 DEF Cared, UnderWay
  <2> QED
    BY <2>2, <2>3, EndProgress
<1>4. ASSUME worker.policies # {}, NEW p, worker' = [worker EXCEPT !.policies = @ \ {p}],
             UNCHANGED queue
      PROVE  ProgressInv'
  <2>1. /\ worker'.pc = worker.pc /\ worker'.server = worker.server
        /\ worker'.fresh = worker.fresh /\ worker'.seen = worker.seen
    BY <1>4 DEF TypeInv, TypeOK, WorkerStates
  <2> QED
    BY <1>1, <1>2, <1>4, <2>1, DeletingProgress
<1> QED
  BY <1>3, <1>4 DEF DeletePolicies

LEMMA DeleteObjectProgress ==
  ASSUME TypeInv, ProgressInv, DeleteObject PROVE ProgressInv'
<1>1. /\ worker.pc \in DeletingPcs /\ worker.server \in Servers
      /\ UNCHANGED << server, synced, queue, policyCache >>
  BY DEF DeleteObject, DeletingPcs, caches, TypeInv, WorkerIsOfThisLife
<1>2. faults' = 0 => faults = 0
  BY FaultsCount DEF DeleteObject
<1>3. object' \in {object, [object EXCEPT ![worker.server][Head(worker.left)] = None]}
  BY DEF DeleteObject, Write
<1>4. \A s \in Servers \ {worker.server} : object'[s] = object[s]
  BY <1>1, <1>3 DEF TypeInv, TypeOK
<1>5. PICK failed : worker' = [worker EXCEPT !.left = Tail(@), !.failed = failed]
  BY DEF DeleteObject
<1>6. /\ worker'.pc = worker.pc /\ worker'.server = worker.server
      /\ worker'.fresh = worker.fresh /\ worker'.seen = worker.seen
  BY <1>5 DEF TypeInv, TypeOK, WorkerStates
<1> QED
  BY <1>1, <1>2, <1>4, <1>6, DeletingProgress

\* A Conflict is not retried: the write that caused it is.
LEMMA RemoveFinalizerProgress ==
  ASSUME TypeInv, ProgressInv, RemoveFinalizer PROVE ProgressInv'
<1> DEFINE s == worker.server
<1>1. /\ worker.pc = "deleteObjects" /\ worker.pc # "idle" /\ s \in Servers
      /\ UNCHANGED << object, policyCache >>
  BY DEF RemoveFinalizer, caches, TypeInv, WorkerIsOfThisLife
<1>2. PICK requeue : Finish(requeue)
  BY DEF RemoveFinalizer
<1>3. faults' = 0 => faults = 0
  BY FaultsCount DEF RemoveFinalizer
<1>4. \/ UNCHANGED << server, synced >>
      \/ /\ server' = [server EXCEPT ![s] = NoServer]
         /\ synced' = [synced EXCEPT ![s] = FALSE]
  BY DEF RemoveFinalizer, Outdate
<1>5. EndFrame
  <2>1. \A x \in Servers \ {s} : server'[x] = server[x] /\ synced'[x] = synced[x]
    BY <1>1, <1>4 DEF TypeInv, TypeOK
  <2> QED
    BY <1>1, <1>2, <1>3, <2>1, FinishMeans DEF EndFrame
<1>6. \/ s \in queue' \/ ~synced'[s] \/ server'[s].phase = "absent"
  <2>1. CASE Finish(TRUE)
    BY <2>1, FinishMeans
  <2>2. CASE server' = [server EXCEPT ![s] = NoServer]
    BY <1>1, <2>2 DEF NoServer, TypeInv, TypeOK
  <2>3. CASE ~worker.fresh /\ UNCHANGED << server, synced >>
    <3>1. s \in queue \/ ~synced[s]
      BY <1>1, <2>3 DEF ProgressInv, StaleIsFollowed
    <3> QED
      BY <1>5, <2>3, <3>1 DEF EndFrame
  <2> QED
    BY <2>1, <2>2, <2>3 DEF RemoveFinalizer
<1>7. \A x \in Servers : x = s => Cared(x)'
  BY <1>6 DEF Cared, UnderWay
<1> QED
  BY <1>5, <1>7, EndProgress

\* After a restart every PolicyServer that exists is enqueued.
LEMMA CrashProgress ==
  ASSUME TypeInv, ProgressInv, Crash PROVE ProgressInv'
<1>1. worker'.pc = "idle" /\ UNCHANGED server /\ \A s \in Servers : Exists(s) => s \in queue'
  BY DEF Crash, IdleWorker
<1>2. WorkerInv'
  BY <1>1 DEF WorkerInv, StaleIsFollowed, FreshSeesSpec, PassedIsInStep, ListIsFollowed, LivePcs
<1>3. \A s \in Servers : Cared(s)'
  BY <1>1 DEF Cared, UnderWay, Exists
<1> QED
  BY <1>2, <1>3, NextProgressParts

LEMMA StepProgress ==
  ASSUME TypeInv, ProgressInv, [Next]_vars PROVE ProgressInv'
<1>1. CASE UNCHANGED vars
  <2>1. \A s \in Servers : SameParts(s) /\ GetPolicies(s, {})' = GetPolicies(s, {})
    BY <1>1, SamePartsKept DEF vars, GetPolicies
  <2> QED
    BY <1>1, <2>1, QuietProgress DEF vars, Pending
<1>2. CASE Users
  BY <1>2, WriteProgress, RestartProgress, OthersProgress DEF Users
<1>3. CASE Reconcile
  BY <1>3, StartProgress, RootCAProgress, CertificateProgress, ConfigMapProgress,
     DeploymentProgress, ServiceProgress, UpdateStatusProgress, DeletePoliciesProgress,
     DeleteObjectProgress, RemoveFinalizerProgress DEF Reconcile
<1> QED
  BY <1>1, <1>2, <1>3, OthersProgress, CrashProgress DEF Next

\* What is under way, or at rest, is so in every reachable state.
THEOREM ProgressInvariant == Spec => []ProgressInv
<1>1. TypeInv /\ ProgressInv /\ [Next]_vars => TypeInv' /\ ProgressInv'
  BY StepType, StepProgress
<1> QED
  BY <1>1, InitType, InitProgress, PTL DEF Spec

\* The deletion of a PolicyServer is never forgotten.
THEOREM DeletionGoesOn == Spec => []DeletionIsUnderWay
<1>1. ProgressInv => DeletionIsUnderWay
  BY DEF ProgressInv
<1> QED
  BY <1>1, ProgressInvariant, PTL

\* Whatever failed, a live PolicyServer that nothing will reconcile again is in step with
\* its spec: no edit is lost.
THEOREM NoEditIsLost == Spec => []RestMeansInStep
<1>1. ProgressInv => RestMeansInStep
  BY DEF ProgressInv
<1> QED
  BY <1>1, ProgressInvariant, PTL

\* ... and its ConfigMap lists its policies.
LEMMA ListedAtRest == ProgressInv => RestMeansListed
<1> SUFFICES ASSUME ProgressInv, NEW p \in Policies,
                    server[Owner[p]].phase = "live", ~UnderWay(Owner[p]),
                    policyCache[p] = policy[p]
             PROVE  /\ Listed(p) => policy[p] = "live"
                    /\ faults = 0 /\ policy[p] = "live" => Listed(p)
  BY DEF RestMeansListed
<1>1. Owner[p] \in Servers
  BY LifecycleAssumption
<1>2. /\ Has(Owner[p], "configMap")
      /\ Complete(Owner[p], object[Owner[p]]["configMap"].policies)
  BY <1>1 DEF ProgressInv, RestMeansInStep, RestMeansComplete, InStep, ConfigMapFollows
<1> QED
  BY <1>2 DEF Complete, GetPolicies, Listed

THEOREM ListIsComplete == Spec => []RestMeansListed
<1> QED
  BY ListedAtRest, ProgressInvariant, PTL
=============================================================================
