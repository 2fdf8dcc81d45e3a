------------------------ MODULE PolicyServerLifecycle ------------------------
(***************************************************************************)
(* The life of a PolicyServer: how the controller builds what it consists  *)
(* of (a serving certificate, a ConfigMap, a Deployment and a Service,     *)
(* under a root CA that all PolicyServers share), keeps that in step with  *)
(* its spec, and takes it down again                                       *)
(* (controllers/policyserver_controller.go, internal/pkg/admission).       *)
(*                                                                         *)
(* The PolicyServer controller has one worker.  Each reconcile is split at *)
(* its API calls, any of which may fail, with or without effect.  Secrets, *)
(* policies and PolicyServers are read from informer caches, which lag;    *)
(* ConfigMaps and Deployments are read live (main.go, ClientDisableCacheFor). *)
(* PolicyRollout has what the policy controllers do meanwhile; here they   *)
(* are the three actions of the section Policy reconcilers.                *)
(***************************************************************************)
EXTENDS PolicyServerObjects, Sequences

CONSTANTS
    Servers,      \* the PolicyServers users may create
    Specs,        \* the specs they may give one
    Policies,     \* the policies users may create
    Owner,        \* Owner[p]: the PolicyServer that the spec of p names
    Namespaced,   \* those that are AdmissionPolicies, not ClusterAdmissionPolicies
    CAs,          \* as many root CAs as the controller may generate
    MaxWrites,    \* bound: how often users create or edit one PolicyServer
    MaxFaults,    \* bound: API errors and crashes
    None          \* no certificate, no object

VARIABLES
    server,       \* etcd: [phase, spec, conditions] of each PolicyServer
    writes,       \* how often users wrote it
    object,       \* etcd: what each PolicyServer consists of, by kind
    rootCA,       \* etcd: the CA in the secret policy-server-root-ca
    pullSecrets,  \* etcd: the image pull secrets that exist
    policy,       \* etcd: the phase of each policy
    webhook,      \* etcd: has it a webhook configuration?
    serverCache,  \* the informers: each PolicyServer,
    synced,       \*   is that its current resourceVersion?
    certificateCache, rootCache, policyCache,
    queue,        \* the PolicyServers enqueued for reconciliation
    worker,       \* the reconcile under way
    faults        \* faults so far

vars == << server, writes, object, rootCA, pullSecrets, policy, webhook, serverCache,
           synced, certificateCache, rootCache, policyCache, queue, worker, faults >>

cluster == << rootCA, pullSecrets, writes >>
caches  == << serverCache, certificateCache, rootCache, policyCache >>

-----------------------------------------------------------------------------
(* State. *)

\* ReconcileDeletion deletes them in this order.
DeletionOrder == << "deployment", "certificate", "service", "configMap" >>
Kinds         == { "deployment", "certificate", "service", "configMap" }

\* The conditions of a PolicyServer; those that are True are listed.
Conditions == Kinds \cup {"rootCA"}

NoServer   == [phase |-> "absent", spec |-> None, conditions |-> {}]
NoObjects  == [k \in Kinds |-> None]
IdleWorker == [pc |-> "idle", server |-> None, seen |-> NoServer, fresh |-> TRUE,
               policies |-> {}, ca |-> None, left |-> << >>, failed |-> FALSE]

ServerStates == {NoServer} \cup
    [phase : {"live", "deleting"}, spec : Specs, conditions : SUBSET Conditions]
WorkerStates ==
    [pc : {"idle", "rootCA", "certificate", "configMap", "deployment", "service",
           "status", "deletePolicies", "deleteObjects"},
     server : Servers \cup {None}, seen : ServerStates, fresh : BOOLEAN,
     policies : SUBSET Policies, ca : CAs \cup {None}, left : Seq(Kinds), failed : BOOLEAN]
Phases == {"absent", "live", "deleting", "gone"}

\* What may be stored of each kind.
Deployments ==
    [latest      : BOOLEAN,
     restarted   : BOOLEAN,
     replicas    : { spec.replicas : spec \in Specs },
     image       : { spec.image : spec \in Specs },
     account     : { spec.account : spec \in Specs },
     annotations : { spec.annotations : spec \in Specs },
     env         : { spec.env \cup AddedEnv(spec) : spec \in Specs },
     volumes     : { AddedVolumes(spec) : spec \in Specs }]
Services    == [metrics : BOOLEAN]
ConfigMaps  == [policies : SUBSET Policies, sources : { spec.sources : spec \in Specs }]

ASSUME LifecycleAssumption ==
    /\ Owner \in [Policies -> Servers]
    /\ Namespaced \subseteq Policies
    /\ MaxWrites \in Nat
    /\ MaxFaults \in Nat
    /\ None \notin CAs \cup Servers
    /\ None \notin Deployments /\ None \notin Services /\ None \notin ConfigMaps

\* Every variable has its type; past its first steps a reconcile has a CA and something
\* to sign it for.
TypeOK ==
    /\ server \in [Servers -> ServerStates]
    /\ writes \in [Servers -> 0 .. MaxWrites]
    /\ object \in [Servers -> [deployment  : Deployments \cup {None},
                               certificate : CAs \cup {None},
                               service     : Services \cup {None},
                               configMap   : ConfigMaps \cup {None}]]
    /\ rootCA \in CAs \cup {None}
    /\ pullSecrets \subseteq { spec.pullSecret : spec \in Specs }
    /\ policy \in [Policies -> Phases]
    /\ webhook \in [Policies -> BOOLEAN]
    /\ serverCache \in [Servers -> ServerStates]
    /\ synced \in [Servers -> BOOLEAN]
    /\ certificateCache \in [Servers -> CAs \cup {None}]
    /\ rootCache \in CAs \cup {None}
    /\ policyCache \in [Policies -> Phases]
    /\ queue \subseteq Servers
    /\ worker \in WorkerStates
    /\ worker.pc \in {"certificate", "configMap", "deployment", "service"} =>
          worker.ca # None /\ worker.server # None /\ worker.seen.phase = "live"
    /\ faults \in 0 .. MaxFaults

Init ==
    /\ server = [s \in Servers |-> NoServer]
    /\ writes = [s \in Servers |-> 0]
    /\ object = [s \in Servers |-> NoObjects]
    /\ rootCA = None
    /\ pullSecrets = {}
    /\ policy = [p \in Policies |-> "absent"]
    /\ webhook = [p \in Policies |-> FALSE]
    /\ serverCache = server
    /\ synced = [s \in Servers |-> TRUE]
    /\ certificateCache = [s \in Servers |-> None]
    /\ rootCache = None
    /\ policyCache = policy
    /\ queue = {}
    /\ worker = IdleWorker
    /\ faults = 0

Exists(s)    == server[s].phase # "absent"
Has(s, kind) == object[s][kind] # None

\* Is there what the condition stands for?
IsTrue(s, condition) == IF condition = "rootCA" THEN rootCA # None ELSE Has(s, condition)

\* A write gives the PolicyServer a new resourceVersion: neither the cache nor the
\* copy that a reconcile under way holds is the current one any more.
Outdate(s) == synced' = [synced EXCEPT ![s] = FALSE]
OutdateWorker(s) == worker' = [worker EXCEPT !.fresh = @ /\ worker.server # s]

-----------------------------------------------------------------------------
(* The users.  The mutating webhook of PolicyServer (policyserver_webhook.go) *)
(* adds the finalizer to what they write, unless it is being deleted.         *)

WriteServer(s) ==
    /\ server[s].phase \in {"absent", "live"}
    /\ writes[s] < MaxWrites
    /\ \E spec \in Specs \ {server[s].spec} :
          server' = [server EXCEPT ![s].phase = "live", ![s].spec = spec]
    /\ writes' = [writes EXCEPT ![s] = @ + 1]
    /\ Outdate(s) /\ OutdateWorker(s)
    /\ UNCHANGED << object, rootCA, pullSecrets, policy, webhook, caches, queue, faults >>

DeleteServer(s) ==
    /\ server[s].phase = "live"
    /\ server' = [server EXCEPT ![s].phase = "deleting"]
    /\ Outdate(s) /\ OutdateWorker(s)
    /\ UNCHANGED << cluster, object, policy, webhook, caches, queue, faults >>

\* kubectl rollout restart.
RestartRollout(s) ==
    /\ Has(s, "deployment") /\ ~object[s]["deployment"].restarted
    /\ object' = [object EXCEPT ![s]["deployment"].restarted = TRUE]
    /\ UNCHANGED << cluster, server, policy, webhook, caches, synced, queue, worker, faults >>

CreatePullSecret(name) ==
    /\ name # "" /\ name \notin pullSecrets
    /\ pullSecrets' = pullSecrets \cup {name}
    /\ UNCHANGED << server, writes, object, rootCA, policy, webhook, caches, synced,
                    queue, worker, faults >>

CreatePolicy(p) ==
    /\ policy[p] = "absent"
    /\ policy' = [policy EXCEPT ![p] = "live"]
    /\ UNCHANGED << cluster, server, object, webhook, caches, synced, queue, worker, faults >>

\* ... or delete one on their own; its finalizer keeps it until its controller is done.
DeletePolicy(p) ==
    /\ policy[p] = "live"
    /\ policy' = [policy EXCEPT ![p] = "deleting"]
    /\ UNCHANGED << cluster, server, object, webhook, caches, synced, queue, worker, faults >>

-----------------------------------------------------------------------------
(* The informers.  The watches of SetupWithManager enqueue the PolicyServer, *)
(* and the PolicyServer of a policy; nothing watches the secrets.            *)

SyncServer(s) ==
    /\ ~synced[s]
    /\ serverCache' = [serverCache EXCEPT ![s] = server[s]]
    /\ synced' = [synced EXCEPT ![s] = TRUE]
    /\ queue' = queue \cup {s}
    /\ UNCHANGED << cluster, server, object, policy, webhook, certificateCache, rootCache,
                    policyCache, worker, faults >>

\* A write of its status, which only the policy controllers read, is an event too.
SyncPolicy(p) ==
    /\ policyCache[p] # policy[p] \/ policy[p] \in {"live", "deleting"}
    /\ policyCache' = [policyCache EXCEPT ![p] = policy[p]]
    /\ queue' = queue \cup {Owner[p]}
    /\ UNCHANGED << cluster, server, object, policy, webhook, serverCache, synced,
                    certificateCache, rootCache, worker, faults >>

SyncSecrets ==
    /\ \/ rootCache # rootCA
       \/ \E s \in Servers : certificateCache[s] # object[s]["certificate"]
    /\ rootCache' = rootCA
    /\ certificateCache' = [s \in Servers |-> object[s]["certificate"]]
    /\ UNCHANGED << cluster, server, object, policy, webhook, serverCache, synced,
                    policyCache, queue, worker, faults >>

-----------------------------------------------------------------------------
(* Policy reconcilers, in outline: PolicyRollout has the detail.  They read *)
(* the policy live.                                                        *)

\* isPolicyUniquelyReachable needs the Deployment and the ConfigMap entry.
RegisterWebhook(p) ==
    LET s == Owner[p] IN
    /\ policy[p] = "live" /\ ~webhook[p]
    /\ Has(s, "deployment") /\ Has(s, "configMap")
    /\ p \in object[s]["configMap"].policies
    /\ webhook' = [webhook EXCEPT ![p] = TRUE]
    /\ UNCHANGED << cluster, server, object, policy, caches, synced, queue, worker, faults >>

DeleteWebhook(p) ==
    /\ policy[p] = "deleting" /\ webhook[p]
    /\ webhook' = [webhook EXCEPT ![p] = FALSE]
    /\ UNCHANGED << cluster, server, object, policy, caches, synced, queue, worker, faults >>

FinishPolicy(p) ==
    /\ policy[p] = "deleting" /\ ~webhook[p]
    /\ policy' = [policy EXCEPT ![p] = "gone"]
    /\ UNCHANGED << cluster, server, object, webhook, caches, synced, queue, worker, faults >>

\* Faults, MaxFaults of them at most.
Fault == faults < MaxFaults /\ faults' = faults + 1

-----------------------------------------------------------------------------
(* PolicyServerReconciler.                                                 *)

Kind(p) == IF p \in Namespaced THEN "AdmissionPolicy" ELSE "ClusterAdmissionPolicy"

\* Broken variant: policies that are being deleted are listed, too.
GetPoliciesIncludeDeleted(s, failed) ==
    { p \in Policies : Owner[p] = s /\ policyCache[p] \in {"live", "deleting"}
                                    /\ Kind(p) \notin failed }

\* GetPolicies(SkipDeleted).  A List error other than NotFound is dropped: the
\* policies of that kind are missing.
GetPolicies(s, failed) ==
    { p \in Policies : Owner[p] = s /\ policyCache[p] = "live" /\ Kind(p) \notin failed }

\* Broken variant: what ReconcileDeletion or the removal of the finalizer returns is
\* logged, and dropped.
FinishDropsErrors(requeue) ==
    /\ worker' = IdleWorker
    /\ queue' = IF requeue /\ worker.pc # "deleteObjects" THEN queue \cup {worker.server}
                                                          ELSE queue

\* Does the worker end its reconcile with an error, or with Requeue: true?
Finish(requeue) ==
    /\ worker' = IdleWorker
    /\ queue' = IF requeue THEN queue \cup {worker.server} ELSE queue

\* Reconcile, or reconcileDeletion while policies are bound to it, or ReconcileDeletion.
FirstStep(seen, listed) ==
    CASE seen.phase = "live" -> "rootCA"
      [] seen.phase = "deleting" /\ listed # {} -> "deletePolicies"
      [] OTHER -> "deleteObjects"

StartedWorker(s, listed) ==
    [pc |-> FirstStep(serverCache[s], listed), server |-> s, seen |-> serverCache[s],
     fresh |-> synced[s], policies |-> listed, ca |-> None,
     left |-> IF serverCache[s].phase = "deleting" THEN DeletionOrder ELSE << >>,
     failed |-> FALSE]

StartReconcile(s) ==
    /\ s \in queue /\ worker.pc = "idle"
    /\ queue' = queue \ {s}
    /\ \/ /\ serverCache[s].phase = "absent"
          /\ UNCHANGED << worker, faults >>
       \/ /\ serverCache[s].phase # "absent"
          /\ worker' = StartedWorker(s, GetPolicies(s, {}))
          /\ UNCHANGED faults
       \/ /\ serverCache[s].phase # "absent"
          /\ \E failed \in (SUBSET {"AdmissionPolicy", "ClusterAdmissionPolicy"}) \ {{}} :
                worker' = StartedWorker(s, GetPolicies(s, failed))
          /\ Fault
    /\ UNCHANGED << cluster, server, object, policy, webhook, caches, synced >>

\* A step of Reconcile succeeds and its condition becomes True.
Succeeds(next) ==
    /\ worker' = [worker EXCEPT !.pc = next, !.seen.conditions = @ \cup {worker.pc}]
    /\ UNCHANGED faults

\* Broken variant: the condition of a failed step is left as it was set before the call.
ConditionsAnyway == worker.seen.conditions \cup {worker.pc}

\* setFalseConditionType
ConditionsAfterError == worker.seen.conditions \ {worker.pc}

\* It returns an error: its condition becomes False and the rest is skipped.
ReturnsError ==
    worker' = [worker EXCEPT !.pc = "status", !.seen.conditions = ConditionsAfterError,
                             !.failed = TRUE]

Write(kind, value) == [object EXCEPT ![worker.server][kind] = value]
WriteIfAbsent(kind, value) ==
    IF Has(worker.server, kind) THEN object ELSE Write(kind, value)

\* The key pairs that nobody has.
UnusedCAs ==
    CAs \ ({rootCA, rootCache, worker.ca}
              \cup { object[s]["certificate"] : s \in Servers }
              \cup { certificateCache[s] : s \in Servers })

\* generateCA
GenerateCA == CHOOSE ca \in UnusedCAs : TRUE

\* Broken variant: a secret that is not found is returned all the same.
CachedRootCA == rootCache

\* fetchOrInitializePolicyServerCARootSecret: what the cache has, or a new CA.
RootCAInHand == IF rootCache = None THEN GenerateCA ELSE rootCache

\* reconcileCASecret: creating a secret that exists already is no error.  The worker
\* keeps the CA it has in hand, stored or not.
ReconcileRootCA ==
    LET Create == IF rootCA = None THEN RootCAInHand ELSE rootCA IN
    /\ worker.pc = "rootCA"
    /\ rootCache = None => UnusedCAs # {}          \* bound: CAs
    /\ \/ /\ rootCA' = Create
          /\ worker' = [worker EXCEPT !.pc = "certificate", !.ca = RootCAInHand,
                                      !.seen.conditions = @ \cup {"rootCA"}]
          /\ UNCHANGED faults
       \/ rootCA' \in {rootCA, Create} /\ ReturnsError /\ Fault
    /\ UNCHANGED << server, writes, object, pullSecrets, policy, webhook, caches, synced,
                    queue >>

\* Broken variant: a secret that the cache has is not created again.
CertificateUnlessCached(s) ==
    IF certificateCache[s] = None THEN WriteIfAbsent("certificate", worker.ca) ELSE object

\* fetchOrInitializePolicyServerCASecret and reconcileCASecret: the secret in the
\* cache, or a certificate signed by the CA in hand, is created unless it exists.
CreatedCertificate(s) ==
    WriteIfAbsent("certificate",
        IF certificateCache[s] = None THEN worker.ca ELSE certificateCache[s])

ReconcileCertificate ==
    /\ worker.pc = "certificate"
    /\ \/ object' = CreatedCertificate(worker.server) /\ Succeeds("configMap")
       \/ object' \in {object, CreatedCertificate(worker.server)} /\ ReturnsError /\ Fault
    /\ UNCHANGED << cluster, server, policy, webhook, caches, synced, queue >>

\* reconcilePolicyServerConfigMap: created, or patched where it differs.  Another
\* content is another resourceVersion, which no Deployment has yet.
ReconciledConfigMap ==
    LET s   == worker.server
        old == object[s]["deployment"]
        new == configMap(worker.seen.spec, worker.policies)
    IN  IF object[s]["configMap"] = new THEN object
        ELSE [object EXCEPT
                ![s]["configMap"] = new,
                ![s]["deployment"] = IF old = None THEN None ELSE [old EXCEPT !.latest = FALSE]]

ReconcileConfigMap ==
    /\ worker.pc = "configMap"
    /\ \/ object' = ReconciledConfigMap /\ Succeeds("deployment")
       \/ object' \in {object, ReconciledConfigMap} /\ ReturnsError /\ Fault
    /\ UNCHANGED << cluster, server, policy, webhook, caches, synced, queue >>

\* reconcilePolicyServerDeployment: created, or fetched, compared and patched.
ReconciledDeployment ==
    LET new == deployment(worker.seen.spec) IN
    IF Has(worker.server, "deployment")
    THEN Write("deployment",
               updatePolicyServerDeployment(object[worker.server]["deployment"], new))
    ELSE Write("deployment", new)

\* policyServerImagePullSecretPresent
PullSecretPresent ==
    worker.seen.spec.pullSecret # "" => worker.seen.spec.pullSecret \in pullSecrets

ReconcileDeployment ==
    /\ worker.pc = "deployment"
    /\ \/ PullSecretPresent /\ object' = ReconciledDeployment /\ Succeeds("service")
       \/ ~PullSecretPresent /\ ReturnsError /\ UNCHANGED << object, faults >>
       \/ /\ PullSecretPresent /\ object' \in {object, ReconciledDeployment}
          /\ ReturnsError /\ Fault
    /\ UNCHANGED << cluster, server, policy, webhook, caches, synced, queue >>

\* reconcilePolicyServerService: a Service that exists is left as it is.
CreatedService == WriteIfAbsent("service", service(worker.seen.spec))

ReconcileService ==
    /\ worker.pc = "service"
    /\ \/ object' = CreatedService /\ Succeeds("status")
       \/ object' \in {object, CreatedService} /\ ReturnsError /\ Fault
    /\ UNCHANGED << cluster, server, policy, webhook, caches, synced, queue >>

\* Status().Update: the conditions are saved, unless the copy that was read is not
\* the current one (Conflict, or NotFound), which is an error.
SavedStatus(s) == [server EXCEPT ![s].conditions = worker.seen.conditions]

UpdateStatus ==
    LET s == worker.server
        Save == /\ worker.fresh
                /\ server' = SavedStatus(s)
                /\ synced' = [synced EXCEPT ![s] = @ /\ server' = server] IN
    /\ worker.pc = "status"
    /\ \/ Save /\ Finish(worker.failed) /\ UNCHANGED faults
       \/ ~worker.fresh /\ Finish(TRUE) /\ UNCHANGED << server, synced, faults >>
       \/ Finish(TRUE) /\ Fault /\ (Save \/ UNCHANGED << server, synced >>)
    /\ UNCHANGED << cluster, object, policy, webhook, caches >>

-----------------------------------------------------------------------------
(* Its deletion.                                                           *)

\* reconcileDeletion, while policies are bound to it: they are deleted, one call
\* each; NotFound is success.  Then it is enqueued again, by an error or not.
DeletePolicies ==
    /\ worker.pc = "deletePolicies"
    /\ IF worker.policies = {}
       THEN /\ Finish(TRUE)
            /\ UNCHANGED << policy, faults >>
       ELSE /\ \E p \in worker.policies :
                  LET Deleted == [policy EXCEPT ![p] = IF @ = "live" THEN "deleting" ELSE @] IN
                  /\ worker' = [worker EXCEPT !.policies = @ \ {p}]
                  /\ \/ policy' = Deleted /\ UNCHANGED faults
                     \/ policy' \in {policy, Deleted} /\ Fault
            /\ UNCHANGED queue
    /\ UNCHANGED << cluster, server, object, webhook, caches, synced >>

\* ReconcileDeletion: all four deletes are tried; NotFound is success, any other
\* error keeps the finalizer.
DeleteObject ==
    /\ worker.pc = "deleteObjects" /\ worker.left # << >>
    /\ LET s       == worker.server
           Deleted == Write(Head(worker.left), None)
           Go(failed) == worker' = [worker EXCEPT !.left = Tail(@), !.failed = failed]
       IN  \/ object' = Deleted /\ Go(worker.failed) /\ UNCHANGED faults
           \/ object' \in {object, Deleted} /\ Go(TRUE) /\ Fault
    /\ UNCHANGED << cluster, server, policy, webhook, caches, synced, queue >>

\* Broken variant: one success is enough.
SomeObjectDeleted == \E k \in Kinds : ~Has(worker.server, k)

\* Did ReconcileDeletion return no error?
ObjectsDeleted == ~worker.failed

\* The finalizer goes, and the PolicyServer with it.  A Conflict counts as success;
\* NotFound, any other error, and a failed delete are retried.
RemoveFinalizer ==
    LET s == worker.server
        Update == /\ worker.fresh /\ Exists(s)
                  /\ server' = [server EXCEPT ![s] = NoServer]
                  /\ Outdate(s) IN
    /\ worker.pc = "deleteObjects" /\ worker.left = << >>
    /\ \/ ~ObjectsDeleted /\ Finish(TRUE) /\ UNCHANGED << server, synced, faults >>
       \/ ObjectsDeleted /\ Update /\ Finish(FALSE) /\ UNCHANGED faults
       \/ /\ ObjectsDeleted /\ ~worker.fresh /\ Finish(~Exists(s))
          /\ UNCHANGED << server, synced, faults >>
       \/ ObjectsDeleted /\ Finish(TRUE) /\ Fault /\ (Update \/ UNCHANGED << server, synced >>)
    /\ UNCHANGED << cluster, object, policy, webhook, caches >>

-----------------------------------------------------------------------------
\* The controller restarts: its informers list everything afresh, and every
\* PolicyServer is enqueued.
Crash ==
    /\ Fault
    /\ worker' = IdleWorker
    /\ serverCache' = server
    /\ synced' = [s \in Servers |-> TRUE]
    /\ rootCache' = rootCA
    /\ certificateCache' = [s \in Servers |-> object[s]["certificate"]]
    /\ policyCache' = policy
    /\ queue' = { s \in Servers : Exists(s) }
                   \cup { Owner[p] : p \in { q \in Policies : policy[q] \in {"live", "deleting"} } }
    /\ UNCHANGED << cluster, server, object, policy, webhook >>

Users ==
    \/ \E s \in Servers : WriteServer(s) \/ DeleteServer(s) \/ RestartRollout(s)
    \/ \E spec \in Specs : CreatePullSecret(spec.pullSecret)
    \/ \E p \in Policies : CreatePolicy(p) \/ DeletePolicy(p)

Reconcile ==
    \/ \E s \in Servers : StartReconcile(s)
    \/ ReconcileRootCA
    \/ ReconcileCertificate
    \/ ReconcileConfigMap
    \/ ReconcileDeployment
    \/ ReconcileService
    \/ UpdateStatus
    \/ DeletePolicies
    \/ DeleteObject
    \/ RemoveFinalizer

ReconcilePolicy(p) == RegisterWebhook(p) \/ DeleteWebhook(p) \/ FinishPolicy(p)

Next ==
    \/ Users
    \/ \E s \in Servers : SyncServer(s)
    \/ \E p \in Policies : SyncPolicy(p) \/ ReconcilePolicy(p)
    \/ SyncSecrets
    \/ Reconcile
    \/ Crash

Spec == Init /\ [][Next]_vars

\* The work queue hands out every PolicyServer in it, calls return, informers receive
\* their events and the policy controllers do their work.  Users owe nothing.
Fairness ==
    /\ \A s \in Servers : WF_vars(SyncServer(s)) /\ SF_vars(StartReconcile(s))
    /\ \A p \in Policies : /\ WF_vars(policyCache[p] # policy[p] /\ SyncPolicy(p))
                          /\ WF_vars(ReconcilePolicy(p))
    /\ WF_vars(SyncSecrets)
    /\ WF_vars(Reconcile)

FairSpec == Spec /\ Fairness

-----------------------------------------------------------------------------
(* What the controller promises.                                           *)

\* Nothing is left of a PolicyServer that is gone, whichever of the deletes failed and
\* however stale the copy was that the controller worked from (reconciler.go:40-123,
\* policyserver_controller.go:111-123): the owned objects have no owner reference, so
\* nobody else would collect them.
NothingIsLeft ==
    \A s \in Servers : ~Exists(s) => object[s] = NoObjects

\* The Deployment of a PolicyServer never waits for a secret or a ConfigMap that is
\* missing and that no reconcile will create: also when a PolicyServer of the same name
\* was deleted a moment ago and the cache still has its secret
\* (policy-server-ca-secret.go:22-54).
DeploymentCanStart ==
    \A s \in Servers : server[s].phase = "live" /\ Has(s, "deployment") =>
        Has(s, "certificate") /\ Has(s, "configMap")

\* A condition that is True says so of something that exists (reconciler.go:152-248),
\* although a reconcile may be interrupted anywhere and its copy of the PolicyServer
\* may be one of an earlier life.
ConditionsAreTrue ==
    \A s \in Servers : server[s].phase = "live" =>
        \A c \in server[s].conditions : IsTrue(s, c)

CanReconcile(s) ==
    server[s].phase = "live" /\ server[s].spec.pullSecret \in pullSecrets \cup {""}

\* Is the ConfigMap, is the Deployment of s what is built from spec, as far as compared?
ConfigMapFollows(s, spec) == Has(s, "configMap") /\ object[s]["configMap"].sources = spec.sources

DeploymentFollows(s, spec) ==
    /\ Has(s, "deployment")
    /\ LET d == object[s]["deployment"]
           new == deployment(spec) IN
       /\ d.latest
       /\ \A part \in {"replicas", "image", "account", "env", "annotations"} : d[part] = new[part]

\* All of a PolicyServer that is kept in step with its spec is.
InStep(s) ==
    /\ ConfigMapFollows(s, server[s].spec)
    /\ DeploymentFollows(s, server[s].spec)
    /\ Has(s, "service")
    /\ server[s].conditions = Conditions

\* In the end, whatever failed on the way, the ConfigMap and the compared parts of the
\* Deployment are those of the last spec, and the conditions say that all is reconciled
\* (policy-server-deployment.go:96-158), if the pull secret exists.
SpecIsFollowed ==
    \A s \in Servers : <>[](CanReconcile(s) => InStep(s))

\* A PolicyServer being deleted disappears in the end, and its bound policies with it
\* (policyserver_controller.go:96-121): errors, conflicts and requeues always leave
\* something that starts the next attempt.
ServerDeletionCompletes ==
    \A s \in Servers : server[s].phase = "deleting" ~> server[s].phase # "deleting"

Listed(p) == Has(Owner[p], "configMap") /\ p \in object[Owner[p]]["configMap"].policies

\* Something leads to another reconcile of s, or one is under way.
UnderWay(s) == s \in queue \/ ~synced[s] \/ (worker.pc # "idle" /\ worker.server = s)

\* The deletion of a PolicyServer is never forgotten: at every moment until it is gone
\* something leads to the next attempt, although the removal of the finalizer counts a
\* Conflict as success and the loop over the policies relies on requeues alone
\* (policyserver_controller.go:96-121).
DeletionIsUnderWay ==
    \A s \in Servers : server[s].phase = "deleting" => UnderWay(s)

\* When nothing leads to another reconcile of a live PolicyServer, all that is compared
\* is as its spec says (reconciler.go:126-248, policy-server-deployment.go:96-158): no
\* error, Conflict or crash drops an edit.
RestMeansInStep ==
    \A s \in Servers : server[s].phase = "live" /\ ~UnderWay(s) => InStep(s)

\* ... and its ConfigMap lists, of the policies that the cache is up to date on, none that
\* is gone or being deleted, and, unless a List failed, all that live
\* (reconciler.go:257-290, policyserver_controller.go:128-190).
RestMeansListed ==
    \A p \in Policies :
        /\ server[Owner[p]].phase = "live" /\ ~UnderWay(Owner[p])
        /\ policyCache[p] = policy[p]
        => /\ Listed(p) => policy[p] = "live"
           /\ faults = 0 /\ policy[p] = "live" => Listed(p)

\* A restart that a user asks for is not taken back, unless the Deployment has to change
\* anyway (policy-server-deployment.go:160-171): otherwise every reconcile would roll the
\* pods back to the template of before.
RestartIsKept ==
    [][\A s \in Servers :
          Has(s, "deployment") /\ object'[s]["deployment"] # None =>
             LET d == object[s]["deployment"] new == object'[s]["deployment"] IN
             d.restarted /\ ~new.restarted => [d EXCEPT !.restarted = FALSE] # new]_vars

-----------------------------------------------------------------------------
(* The promise of PolicyServerOwnership, kept.                              *)

\* What must be there before each of them is built (reconciler.go:152-248).
Needs == [ certificate |-> {"rootCA"}, configMap |-> {}, service |-> {},
           deployment  |-> {"certificate", "configMap"} ]

phase    == [s \in Servers |-> server[s].phase]
owned    == [s \in Servers |-> { k \in Kinds : Has(s, k) }]
reported == [s \in Servers |-> server[s].conditions]
shared   == rootCA # None

Ownership == INSTANCE PolicyServerOwnership WITH Shared <- "rootCA"

\* Nothing is ever taken from a live PolicyServer, nothing is made for one that does not
\* exist or before what it needs, and none goes before all it had
\* (reconciler.go:40-123, 126-248, policyserver_controller.go:64-121).
ImplementsOwnership == Ownership!Spec

-----------------------------------------------------------------------------
(* The inductive invariant: why a controller that works from stale copies   *)
(* does not build what belongs to an earlier life of a PolicyServer, nor    *)
(* leave anything of it behind.                                             *)

LivePcs     == {"rootCA", "certificate", "configMap", "deployment", "service", "status"}
DeletingPcs == {"deletePolicies", "deleteObjects"}

\* What the informers hold of a PolicyServer is what it was; a live one has not gone.
CacheIsOfThisLife ==
    \A s \in Servers :
        /\ synced[s] => serverCache[s] = server[s]
        /\ serverCache[s].phase = "live" => Exists(s)

\* The reconcile under way is of the PolicyServer in the cache; one that works from the
\* current copy sees its phase.
WorkerIsOfThisLife ==
    /\ worker.pc # "idle" => worker.server \in Servers
    /\ worker.pc \in LivePcs =>
          /\ worker.seen.phase = "live"
          /\ Exists(worker.server)
          /\ server[worker.server].phase = "live" => serverCache[worker.server].phase = "live"
    /\ worker.pc \in DeletingPcs => worker.seen.phase = "deleting"
    /\ worker.pc # "idle" /\ worker.fresh =>
          /\ synced[worker.server]
          /\ server[worker.server].phase = worker.seen.phase

\* The conditions it is about to save are true.
SeenConditionsAreTrue ==
    worker.pc \in LivePcs /\ worker.fresh =>
        \A c \in worker.seen.conditions : IsTrue(worker.server, c)

\* What the earlier steps of a reconcile have built is there for the later ones.
BuiltInOrder ==
    /\ worker.pc \in {"certificate", "configMap", "deployment", "service"} => rootCA # None
    /\ worker.pc \in {"configMap", "deployment", "service"} => Has(worker.server, "certificate")
    /\ worker.pc \in {"deployment", "service"} => Has(worker.server, "configMap")

\* What ReconcileDeletion has passed is gone, unless a delete failed.
DeletedInOrder ==
    worker.pc = "deleteObjects" /\ ~worker.failed =>
        \A k \in Kinds : (\E i \in 1 .. Len(worker.left) : worker.left[i] = k)
                           \/ ~Has(worker.server, k)

\* A PolicyServer recreated under the name of a deleted one has nothing yet while the
\* controller still sees, or still deletes, the deleted one.
RecreatedHasNothing ==
    \A s \in Servers :
        /\ server[s].phase = "live"
        /\ \/ serverCache[s].phase = "deleting"
           \/ worker.pc \in DeletingPcs /\ worker.server = s
        => object[s] = NoObjects

IInv ==
    /\ TypeOK
    /\ CacheIsOfThisLife
    /\ WorkerIsOfThisLife
    /\ SeenConditionsAreTrue
    /\ BuiltInOrder
    /\ DeletedInOrder
    /\ RecreatedHasNothing
    /\ NothingIsLeft
    /\ DeploymentCanStart
    /\ ConditionsAreTrue

-----------------------------------------------------------------------------
(* The second inductive invariant: why no attempt is lost, and a PolicyServer *)
(* at rest is as it should be.                                                *)

\* A copy that is not the current one will be followed by another reconcile: the write
\* that outdated it is an event still to come, or one that enqueued the PolicyServer.
StaleIsFollowed ==
    worker.pc # "idle" /\ ~worker.fresh =>
        worker.server \in queue \/ ~synced[worker.server]

\* A reconcile that works from the current copy sees the spec.
FreshSeesSpec ==
    worker.pc # "idle" /\ worker.fresh => worker.seen.spec = server[worker.server].spec

\* The steps of a reconcile, up to the one whose success the condition stands for.
UpTo(condition) ==
    CASE condition = "rootCA"      -> {"rootCA"}
      [] condition = "certificate" -> {"rootCA", "certificate"}
      [] condition = "configMap"   -> {"rootCA", "certificate", "configMap"}
      [] condition = "deployment"  -> {"rootCA", "certificate", "configMap", "deployment"}
      [] condition = "service"     -> LivePcs \ {"status"}

\* What a reconcile has passed without an error is in step with the spec it has seen.
PassedIsInStep ==
    worker.pc \in LivePcs =>
        LET s == worker.server spec == worker.seen.spec IN
        /\ worker.failed => worker.pc = "status"
        /\ ~worker.failed =>
              /\ \A c \in Conditions : worker.pc \notin UpTo(c) => c \in worker.seen.conditions
              /\ worker.pc \notin UpTo("configMap") =>
                    /\ ConfigMapFollows(s, spec)
                    /\ object[s]["configMap"].policies = worker.policies
              /\ worker.pc \notin UpTo("deployment") => DeploymentFollows(s, spec)
              /\ worker.pc \notin UpTo("service") => Has(s, "service")

\* Are these the policies the ConfigMap of s should list?
Complete(s, policies) ==
    /\ policies \subseteq GetPolicies(s, {})
    /\ faults = 0 => policies = GetPolicies(s, {})

\* The list a reconcile works with is complete, or another reconcile will follow.
ListIsFollowed ==
    worker.pc \in LivePcs =>
        worker.server \in queue \/ Complete(worker.server, worker.policies)

RestMeansComplete ==
    \A s \in Servers : server[s].phase = "live" /\ ~UnderWay(s) =>
        Complete(s, object[s]["configMap"].policies)

ProgressInv ==
    /\ StaleIsFollowed
    /\ FreshSeesSpec
    /\ PassedIsInStep
    /\ ListIsFollowed
    /\ DeletionIsUnderWay
    /\ RestMeansInStep
    /\ RestMeansComplete

-----------------------------------------------------------------------------
(* What documents, comments and tests of the repository say, and the code   *)
(* does not do.  Each is the property of a run that violates it.            *)

\* internal/pkg/admission/policy-server_integration_test.go:70-81: a TLS handshake with
\* the PolicyServer is verified with the CA of the root secret, which is what the
\* webhook configurations carry.
ServingCertificateTrusted ==
    \A s \in Servers : Has(s, "certificate") => object[s]["certificate"] = rootCA

\* rfc/0001-policy-server-custom-resource.md:240-250: when a PolicyServer is deleted the
\* webhooks of its policies go first, and "the order of execution matters".
WebhookNeverOutlivesServer ==
    \A p \in Policies : webhook[p] => Exists(Owner[p])

\* internal/pkg/admission/reconciler.go:257-258: GetPolicies "returns all admission
\* policies and cluster admission policies bound to the given policyServer", so a
\* reconcile does not take a policy that exists out of the ConfigMap.
BoundPoliciesAreListed ==
    [][\A p \in Policies :
          Listed(p) /\ policy[p] = "live" /\ object'[Owner[p]]["configMap"] # None => Listed(p)']_vars
=============================================================================
