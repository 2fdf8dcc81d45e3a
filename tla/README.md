# Formal models of kubewarden-controller

TLA+ modules about the controller in this repository, the TLC configurations
that check them, and proofs of their most important theorems.

The controller turns `AdmissionPolicy` and `ClusterAdmissionPolicy` objects into
webhook configurations of the Kubernetes API server, and runs `PolicyServer`
deployments that answer the admission reviews. Its central promise: the API
server is told to consult a policy only when every pod it may ask knows that
policy. The reconcilers keep that promise from informer caches that lag, one API
call at a time, against users, rollouts, evictions, errors and restarts.

## 1. Inventory

| Component | Source | State | Operations | Correct if |
|---|---|---|---|---|
| Policy reconcilers | `controllers/policy_utils.go`, `policystatus_utils.go`, `{,cluster}admissionpolicy_controller.go` | the policy held in memory, its outcome; status in etcd | `startReconciling`, `reconcilePolicy`, `reconcilePolicyDeletion` | webhook only behind the gate; status not ahead of the webhook; settles; deletion completes |
| PolicyServer reconciler | `controllers/policyserver_controller.go`, `internal/pkg/admission/reconciler.go` | the listed policies, the CA in hand, the conditions | `Reconcile`, `GetPolicies`, `reconcileDeletion`, `ReconcileDeletion` | no live policy dropped; conditions true; nothing left behind |
| ConfigMap | `policy-server-configmap.go` | policies map, sources, resourceVersion | create, patch if different | holds what is bound |
| Deployment | `policy-server-deployment.go` | config-version annotation and label, pod template | create, compare, patch | one ReplicaSet per ConfigMap version; follows the spec |
| Webhook configurations | `validating-webhook.go`, `mutating-webhook.go` | webhook per policy and kind | create, compare with the cache, patch, delete | follows the policy, goes with it |
| Certificates | `policy-server-ca-secret.go`, `admissionregistration/` | root CA, serving certificate | fetch or initialise, create | serving certificate signed by the stored CA |
| Service | `policy-server-service.go` | ports | create | exists |
| CRD admission webhooks | `apis/policies/v1/*_webhook.go` | `--default-policy-server` | `Default`, `ValidateUpdate` | finalizer set, `policyServer` immutable, mode never from protect to monitor |
| Names | `GetUniqueName` | | | distinct policies, distinct names |
| Metrics, wiring, API conversion | `metrics.go`, `main.go`, `environment.go`, `v1alpha2/` | | | no logic of interest |

Paths are relative to `src/`. The components call each other little: they
communicate through the API server. The PolicyServer controller is enqueued by
PolicyServers and policies; the policy controllers by their policies, pods and
PolicyServers (`SetupWithManager`). No event of a Deployment, a ReplicaSet, a
secret or a webhook configuration enqueues anything.

What is hard: two controllers that react to the same events independently; reads
of which some are live (`APIReader`; ConfigMaps and Deployments by
`ClientDisableCacheFor`, `main.go:116`) and some from caches that lag by different
amounts; decisions used several calls after they were made; copies that belong
to an object of the same name that is gone; Status conflicts, retries, restarts.
`PROJECT.json` lists each hazard at its line, with the properties that cover it.

## 2. Modules

| Module | What it is |
|---|---|
| `PolicyRollout` | how one PolicyServer and its policies are rolled out and registered: both controllers, their caches and queues, users, Kubernetes and faults |
| `PolicyRegistration` | the abstract promise of `PolicyRollout`: offer, start, stop, register, unregister |
| `PolicyServerLifecycle` | how PolicyServers are built, kept in step with their spec and taken down: secrets, ConfigMap, Deployment, Service, conditions, deletion |
| `PolicyServerObjects` | what is built from a spec and what of it is compared: the operators of `PolicyServerLifecycle` |
| `PolicyServerOwnership` | the abstract promise of `PolicyServerLifecycle`: create, build, report, delete, demolish, remove |
| `PolicyAdmission` | what may be written into a policy, and what is kept under its name: the CRD webhooks, both kinds of webhook configuration, unique names |
| `MCPolicyRollout`, `MCPolicyServerLifecycle`, `MCPolicyAdmission` | constants, initial states and symmetry for TLC |
| `PolicyRolloutProofs`, `...Safety`, `...Progress` | types, status and webhook; the invariant of the gate and the refinement; no controller rests early |
| `PolicyRegistrationProofs` | what the abstract promise gives |
| `PolicyServerLifecycleProofs`, `...Safety`, `...Progress` | types; the invariant of the lifecycle and the refinement; no attempt is lost |
| `PolicyAdmissionProofs` | types, the mode; no attempt is lost; the clean-up comes first; unique names |

The three models look at one system from three sides, and each keeps the other
sides in outline. `PolicyRollout` has the pods and one PolicyServer that is neither
edited nor deleted. `PolicyServerLifecycle` has all that a PolicyServer consists of
and reduces a policy to its phase and whether it is registered (`RegisterWebhook`,
`DeleteWebhook`, `FinishPolicy`). `PolicyAdmission` has the contents and names of
policies; there the ConfigMap is written in one step and a policy is reachable as
soon as its name is in it.

In each, a reconcile is one action per API call that others can observe or
interfere with, and `PROJECT.json` maps each action to its lines.

### PolicyRollout

- `policy[p]` is the object in etcd: `absent`, `live`, `deleting` (it has a
  deletionTimestamp and its finalizer) or `gone`, and which of its specs it has. A
  policy that is being deleted may still be edited (`WritePolicy`), so that the update
  that removes its finalizer conflicts, and users may take the finalizer away
  themselves (`RemoveFinalizerByHand`), as `scripts/removeFinalizersFromCRDs.sh` does.
  `Entry[g]` and `Rules[g]` are the two parts of a spec the code compares
  separately: what goes to the ConfigMap (`createPoliciesMap`) and what goes to the
  webhook.
- `configMap` is the sequence of all ConfigMaps; its length is the resourceVersion.
  `deployment.version` is the config-version annotation, `deployment.revision` the
  revision the Deployment controller last rolled out. A ReplicaSet is named by the
  ConfigMap version in its template, which changes with each version, so revision
  and version of a ReplicaSet are one number.
- `pods[k]` holds the ReplicaSet of the pod, the ConfigMap version it has loaded
  (not visible to the controller) and its readiness.
- `policyCache`, `policyServerCache`, `replicaSetCache`, `podCache` and
  `webhookCache` are the informers; the `Sync` actions bring them up to date and
  enqueue what the watches map the event to.
- `worker[p]` is the reconcile of p under way: its next API call (`pc`), the object
  it read (`seen`), what it learnt of Deployment and ConfigMap, and its `outcome`.
  `serverWorker` is that of the PolicyServer.

The calls are `StartReconciling`, `GetDeployment`, `GetConfigMap`,
`ListReplicaSetsAndPods`, `ReconcileWebhookConfiguration`, `SetPolicyStatus`,
`UpdateStatus`, and for a deletion `DeleteWebhook`, `RemoveFinalizer`; on the other
side `StartPolicyServerReconcile`, `ReconcilePolicyServerConfigMap`,
`ReconcilePolicyServerDeployment`, `UpdatePolicyServerStatus`. Calls that follow one
another without anything observable in between are one action: the get and the
patch of the ConfigMap (nobody else writes it), the Deployment create and its
fall-back patch, the ReplicaSet and the Pod list (both from caches, microseconds
apart), the webhook create with the compare and patch that follow it, the two live
reads of `setPolicyStatus`.

Kubernetes is external and modelled as the code relies on it: `RollOut` (a
ReplicaSet for the current template), `ScaleDown`, `CreatePod` for any ReplicaSet
that has replicas, `StartPod`, `PodBecomesReady`, `ReplacePod`. A pod loads the
ConfigMap as it is when it starts, whatever version its ReplicaSet was made for:
the volume names the ConfigMap, not a version. That is why an old ReplicaSet may
have pods that serve new policies, and it is what the gate must cope with.

Faults, `MaxFaults` in all: `PolicyApiError` and `ServerApiError` (a call fails,
the webhook's perhaps after it took effect), `EvictPod`, `Crash`. `StatusReadsFail` says
whether the live reads of `setPolicyStatus` are among the calls that may fail: the code
drops their error (`policy_utils.go:76`), and what becomes of mode and version in the
status is then another question than what becomes of the policy.

A status that is saved is an event if it differs from the one before. `PolicyActive` is
set to false and to true again by each successful reconcile, so its lastTransitionTime,
which has seconds, may be all that differs: `StatusChanges` leaves open whether an event
follows, and no property relies on it.

### PolicyServerLifecycle and PolicyServerObjects

- `server[s]` is the PolicyServer in etcd: its phase, spec and the conditions that
  are True. A name may be used again after a deletion.
- `object[s]` is what it consists of: `deployment`, `certificate`, `service` and
  `configMap`, each `None` or what is stored. A serving certificate is the CA that
  signed it. A Deployment is the parts of it that the code compares or forgets to:
  `latest` (is its config-version annotation that of the ConfigMap as it is now?),
  `restarted` (has `kubectl rollout restart` annotated it?), replicas, image, account,
  annotations, environment and volumes.
- `rootCA` is the shared secret `policy-server-root-ca`; `certificateCache` and
  `rootCache` are the informer of the secrets. The pull secret is read live
  (`policyServerImagePullSecretPresent` fetches it unstructured).
- `serverCache[s]` is the informer; `synced[s]` says whether that is the current
  resourceVersion, and `worker.fresh` whether the copy of the reconcile is. That
  decides between success and Conflict of an update.
- `worker` is the only reconcile under way: the controller has one worker.
- `GenerateCA` picks a CA that nobody has; `CAs` bounds how many the model has.

`StartReconcile` is the get and `GetPolicies`, then `ReconcileRootCA`,
`ReconcileCertificate`, `ReconcileConfigMap`, `ReconcileDeployment`, `ReconcileService`
and `UpdateStatus` follow, or `DeletePolicies` (one step per policy), or
`DeleteObject` (one step per object) and `RemoveFinalizer`. Any call may fail
(`Fault`), a write with or without effect; a List that fails is the list that the
inverted condition of `GetPolicies` makes of it. `Crash` restarts the controller. Users
create and edit PolicyServers, restart a rollout, create the pull secret and
policies, and delete PolicyServers and policies; a reconcile deletes the policies too.

### PolicyAdmission

- `policy[p]` holds its phase, PolicyServer, mode, `spec.mutating` and finalizer.
  `Default` and `validatePolicyUpdate` are applied to every write, that of the
  controller in `RemoveFinalizer` included. Users may write the finalizer as well:
  `Default` puts it back on a live policy, but not on one that is being deleted, which
  is gone then (`Stored`) without any clean-up. `defaultServer` is the flag of the
  running controller; `Restart` may change it.
- Names and namespaces are sequences of the parts between hyphens, so that
  `GetUniqueName` joins them as the code does.
- `config[s][n]` is the entry under name n, with the policy it was made of;
  `webhook[k][n]` the webhook configuration of kind k, reduced to its PolicyServer
  and the namespace it is confined to.
- `worker[c]` is the reconcile of each of the two policy controllers. They read
  the policy live (`APIReader.Get`); the PolicyServer controller reads the cache.
- `LaggingWebhooks` are the kinds of webhook configuration whose informer may lag; there
  is one informer for each kind. In `Admission` one of the two lags, so that what is
  promised of a kind that does not is checked beside it. The runs `NoOrphanWebhook` and
  `OwnNamespaceOnly` let none lag, to show that they do not need it.

## 3. Properties and runs

Runs that pass:

| Run | Instance | Properties |
|---|---|---|
| `Rollout` | one policy, two pods; from an empty cluster, or on a running PolicyServer with a fault | `IInv`, `WebhookOnlyForServedPolicy`, `RestMeansEnforced`, `SavedReachableIsServed` |
| `Edit` | one policy, one pod, fairness; settings and rules of an enforced policy edited, or a policy created and edited before its PolicyServer; a fault | `RestMeansEnforced`, `ConfiguredPolicyStays`, `PoliciesSettle` |
| `Deletion` | one policy, one pod, fairness; enforced, deleted, its rules edited before or after, its finalizer perhaps taken by users; a fault | `TypeOK`, `ActivePolicyIsRegistered`, `DeletionStaysUnderWay`, `ImplementsRegistration`, `DeletionCompletes` |
| `SpecEdits` | one PolicyServer, seven specs that differ in one part each (a pull secret is one), two writes, a fault, fairness | `TypeOK`, `DeploymentCanStart`, `ConditionsAreTrue`, `RestMeansInStep`, `SpecIsFollowed`, `RestartIsKept` |
| `ServerDeletion` | one PolicyServer, created up to twice, a policy that users may delete too, a fault, fairness | `IInv`, `NothingIsLeft`, `DeletionIsUnderWay`, `RestMeansListed`, `ImplementsOwnership`, `ServerDeletionCompletes` |
| `Admission` | one AdmissionPolicy, two PolicyServers, two edits before or after it is deleted, two faults, one webhook informer that lags, fairness | `TypeOK`, `PolicyDeletionIsUnderWay`, `RestMeansRegistered`, `ProgressInv`, `EnforcementNeverWeakens`, `FinalizerGoesLast`, `NamedPolicyDeletionCompletes`, `WebhooksSettle` |

- `WebhookOnlyForServedPolicy`: a webhook only while every ready pod serves the
  policy. `ImplementsRegistration` is the same promise as a refinement.
- `SpecIsFollowed`: whatever fails on the way, the ConfigMap and the compared parts
  of the Deployment end up as the last spec says, and the conditions say so.
- `DeploymentCanStart`, `NothingIsLeft`, `ConditionsAreTrue`: the controller works from
  copies that may be of an earlier PolicyServer of the same name, and still neither
  starts a Deployment whose secret is missing, nor leaves an object behind, nor
  says of something that it exists when it does not.
- `ImplementsOwnership`: the life of a PolicyServer and of what it consists of is one
  that `PolicyServerOwnership` allows. The owned objects have no owner reference, so
  only the order of the controller's steps ties them to the PolicyServer.
- `DeletionIsUnderWay`, `RestMeansInStep`, `RestMeansListed`: what liveness rests on, as
  invariants. While a PolicyServer is being deleted something leads to the next
  attempt; when nothing leads to another reconcile of a live one, it is in step with its
  last spec and its ConfigMap lists the policies that the cache knows, so no Conflict, error,
  lost answer or crash drops an edit. Nothing is said of policies that the cache is
  behind on (their event is still to come); nor, after a fault, of a policy that is
  missing: a failing List leaves it out without an error, and nothing enqueues the
  PolicyServer for it.
- `DeletionStaysUnderWay`, `RestMeansEnforced`: the same for the rollout. A policy reconcile
  may end without a requeue, with a PolicyServer that is not yet known or a status that
  is about to be outdated; still, when nothing leads to another reconcile and the
  rollout is complete, every pod serves the last spec of every live policy, its webhook has
  the last rules, and its status is active and reachable. Two exceptions are in the
  property: rules that are edited and edited back while the webhook cache lags
  (`RulesApart`), and mode and version in the status after an error that
  `setPolicyStatus` may have returned, since `startReconciling` drops it: the old mode then
  stays until the next reconcile, and nothing but the event of a lastTransitionTime that
  moved asks for one. `Rollout` has such errors; `Edit` and `Deletion` do without
  (`StatusReadsFail`), so there mode and version are promised whatever else fails.
- `PoliciesSettle`: the pods do get ready and every policy ends up enforced, with the same
  exceptions. In `Edit` an edit reaches ConfigMap, Deployment and webhook, and the fault may
  come between any two of those writes.
- `PolicyDeletionIsUnderWay`, `RestMeansRegistered`: the same for policies. The webhook
  reconciler compares with a cached webhook and may be told AlreadyExists and NotFound of the
  same one; still a live policy rests only with the webhook of its kind. The second
  property supposes that no two policies share a unique name (`NamesApart`).
- `FinalizerGoesLast`: when a controller lets a policy go, the webhook of the kind that the
  policy has at that moment is gone, although the kind may be toggled between the two calls
  and a reconcile of the live policy may register the webhook after the deletion began.
  It supposes `NamesApart` and excepts a kind whose informer lags: the webhook is looked up
  in the cache, and NotFound there counts as deleted, so a policy that is deleted before
  the informer shows its webhook leaves it behind. What becomes of the webhook of the
  other kind is the run `NoOrphanWebhook`. Users who take the finalizer of a policy that is being deleted
  away bypass the clean-up, which is what the scripts that do so are for: nothing is promised of
  the webhook then.
- `EnforcementNeverWeakens`: webhook validation compares two successive versions of
  an object, the ConfigMap is written from a cache that skips versions, and still
  no pod is told to monitor what it was told to protect.
- `NamedPolicyDeletionCompletes`: the update that removes the finalizer passes
  `Default` and `ValidateUpdate`, perhaps of a controller with another default. It is
  limited to policies that name a PolicyServer: a policy stored without one is
  given one by the first update after the flag is set, which `ValidateUpdate` then
  refuses, so it can be neither edited nor deleted.

Each property has a mutant in `PROJECT.json`: a plausible bug, defined beside the
operator it stands in for ("Broken variant"), that makes TLC find it violated.

Runs that find a disagreement between the code and what the repository says of
it; each is a finding in `PROJECT.json` with both sides quoted:

| Run | What happens |
|---|---|
| `ReachableMeansLatest` | `PolicyUniquelyReachable` is true while all pods serve the spec before the last edit |
| `BoundPoliciesAreListed` | `GetPolicies` ignores errors (inverted `IsNotFound` conditions): a live policy leaves the ConfigMap |
| `WebhookNeverOutlivesServer` | a PolicyServer is gone while a policy being deleted still has its webhook |
| `ServingCertificateTrusted` | the secret cache lags: the second PolicyServer is certified by a CA that is not stored |
| `NoOrphanWebhook` | after `spec.mutating` was toggled the webhook of the first kind outlives the policy |
| `OwnNamespaceOnly` | policy `c` of namespace `a-b` and `b-c` of `a` share a webhook |

### Bounds

In `PolicyRollout` one policy suffices for the gate: policies interact only through
the ConfigMap, and what one policy sees of another is a new ConfigMap version, which
deletions, creations and edits of the same policy also bring. Two pods are needed for
a rollout with pods of two ReplicaSets at once, one ready and one not; a third repeats
the second. Two specs make one edit: of the webhook and of the ConfigMap entry in `Edit`,
of the webhook alone in `Deletion`. In `PolicyServerLifecycle` PolicyServers share
only the root CA, which `ServingCertificateTrusted` checks with two of them. Two
writes are a creation with one edit, or with one recreation; the seven specs of
`SpecEdits` differ in one part each; that of the environment is needed by the pull
secret and the sources, which bring a variable, and a spec that names a variable
itself would go through the same comparison. Three CAs are enough for the stored one,
a stale one in the cache and a new one. In `PolicyAdmission` two edits allow an edit
and its reversal, and two faults an error and a restart with another flag. One fault
reaches every error branch; combinations are left to the theorems, which hold for all
bounds.

`EarlyInit`, `StartingInit`, `RunningInit` and `EnforcedInit` in `MCPolicyRollout` are
states that `Spec` reaches from `Init` (a policy older than its PolicyServer, an
empty cluster after the faults, a settled PolicyServer without policies and with
them); they spend the states of a run on what comes after. `Rollout` uses the
symmetry of the two slots; it checks safety only, and nothing tells the slots apart.
Liveness runs use no symmetry. Deadlock is not checked: once all is settled and the
users are done, the system rests.

### Fairness

The specifications `FairSpec` assume that work queues hand out what they hold and
calls return, that informers receive their events, and in `PolicyRollout` that
Kubernetes completes a rollout. Users, errors, evictions and crashes are not fair.
Handing out an object is strongly fair where objects share a worker
(`StartReconcile`), since the queue is first come, first served; the steps of a
reconcile are weakly fair. `SyncPolicy` of `PolicyServerLifecycle` also stands for
events of status writes, which may or may not come: fairness covers it only while
the cache differs. `SyncPods` of `PolicyAdmission` is not fair at all. The periodic
resync of the informers (10 hours by default) is left out: what is shown to happen
eventually happens by the events and requeues in the code. Rate limits and
`RequeueAfter` delays are not modelled; a requeue means "later". Users are bounded
by `MaxGen`, `MaxWrites` and `MaxEdits`, so "in the end" means after their last edit.

## 4. Proofs

Proved by TLAPS for all values of the constants:

| Module | Theorem | Statement |
|---|---|---|
| `PolicyRollout` | `TypeCorrect` | `Spec => []TypeOK` |
| | `ActiveIsRegistered` | `Spec => []ActivePolicyIsRegistered` |
| | `IInvHolds` | `Spec => []IInv` |
| | `RegistrationGate` | `Spec => []WebhookOnlyForServedPolicy` |
| | `SavedReachable` | `Spec => SavedReachableIsServed` |
| | `ConfigKeepsPolicies` | `Spec => ConfiguredPolicyStays` |
| | `RolloutImplementsRegistration` | `Spec => ImplementsRegistration` |
| | `RolloutProgress` | `Spec => []ProgressInv` |
| | `DeletionStays` | `Spec => []DeletionStaysUnderWay` |
| | `RestIsEnforced` | `Spec => []RestMeansEnforced` |
| `PolicyRegistration` | `RegisteredServed` | `Spec => []RegisteredIsServed` |
| `PolicyServerLifecycle` | `LifecycleTypeCorrect` | `Spec => []TypeOK` |
| | `ReconcileIsOfThisLife` | `Spec => [](CacheIsOfThisLife /\ WorkerIsOfThisLife)` |
| | `LifecycleInvariant` | `Spec => []IInv` |
| | `DeletionLeavesNothing` | `Spec => []NothingIsLeft` |
| | `DeploymentFindsItsParts` | `Spec => []DeploymentCanStart` |
| | `ConditionsHold` | `Spec => []ConditionsAreTrue` |
| | `RestartKept` | `Spec => RestartIsKept` |
| | `LifecycleImplementsOwnership` | `Spec => ImplementsOwnership` |
| | `ProgressInvariant` | `Spec => []ProgressInv` |
| | `DeletionGoesOn` | `Spec => []DeletionIsUnderWay` |
| | `NoEditIsLost` | `Spec => []RestMeansInStep` |
| | `ListIsComplete` | `Spec => []RestMeansListed` |
| `PolicyAdmission` | `AdmissionTypeCorrect` | `Spec => []TypeOK` |
| | `EnforcementStays` | `Spec => EnforcementNeverWeakens` |
| | `CleanUpComesFirst` | `Spec => FinalizerGoesLast` |
| | `AdmissionProgress` | `Spec => []ProgressInv` |
| | `PolicyDeletionGoesOn` | `Spec => []PolicyDeletionIsUnderWay` |
| | `RestIsRegistered` | `Spec => []RestMeansRegistered` |
| | `NamesKeepNamespaces` | `Spec => [](NamesApart => OwnNamespaceOnly)` |
| | `NamesAreApart` | names and namespaces differ, namespaces have as many hyphens `=> NamesApart` |

The assumptions are those of the modules: bounds are numbers, `None` is none of the
things it stands against, names are sequences of strings, `""` is no PolicyServer.

### The gate (PolicyRollout)

Why the gate may trust lagging caches, which is the argument of `IInv`:

1. `ConfigComesFromCache`, `ConfigGrows`: the policy cache never goes back, not even
   by a restart, so each ConfigMap holds every policy of its predecessors that is
   not being deleted.
2. `PodsLoadTheirVersion`: a pod loads a ConfigMap no older than the version of its
   ReplicaSet.
3. `UnseenPodsAreNewer`: a started pod that the cache does not show has loaded its
   ConfigMap after every pod that the cache shows was created.
4. So when the cache shows only ready pods of the ReplicaSet of version v, and the
   ConfigMap of version v holds p, every started pod, seen or not, has loaded a
   version of at least v, and serves p (`GateOpens`).
5. `GateHolds`: pods that start later load a later ConfigMap, so what the gate has
   established stays, through the API calls to the webhook and after it.

`WebhookOnlyForServedPolicy` is not inductive on its own: it speaks neither of
reconciles between gate and webhook, nor of pods not yet ready, nor of ConfigMaps no
pod has loaded yet. `RevisionFollowsVersion`, `WorkersHoldPolicies`,
`WorkersFollowPhase` and `OutcomesHold` are what the types and the status
properties need. The proofs have a lemma per group of actions; frame lemmas
(`ConfigFrame`, `PodFrame`, `GateFrame`, `FollowedFrame`) carry the parts that an
action does not touch. The theorems hold where Lists do not fail; what a failing
List does is the run `BoundPoliciesAreListed`.

### No controller rests early (PolicyRollout)

No event of a ReplicaSet, a Deployment or a webhook enqueues anything, pods and the
PolicyServer enqueue only what the ConfigMap lists, and a reconcile ends without a requeue as
"scheduled" or registered. Why that is enough, which is the argument of `ProgressInv`, proved
on top of `IInv`:

1. `CopiesAreOfThePast`: a cached or held copy never runs ahead, so an edit or a deletion
   makes the cache differ, and its event is still to come.
2. `ServerPassed`: what the PolicyServer reconciler writes is what the cache shows when
   it ends, or the event that changed the cache has enqueued it.
3. `ServerToCome`: a policy that is "scheduled" waits for a PolicyServer that is not
   known yet; when that is reconciled it lists the policy, and only then comes the first
   status that says so, which enqueues what the ConfigMap lists.
4. `GateStays`: the gate was passed for pods of one version; a pod of another in the
   cache is an event that enqueues the policy, which the ConfigMap holds by `GateHolds`.
5. `WebhookFollows`: the webhook is of a spec no later than the one a reconcile has seen,
   and the cached one of a spec no later than that; so where no edit is reversed, a cached
   webhook that equals the wanted one means that the live one does.
6. `OutcomeStays`, `StatusStays`: a reconcile ends in a requeue, or in 3, or in 4 and 5.

At rest 2 makes the ConfigMap list the last specs and the Deployment name that
version, 3 is over, and by 4 and a complete rollout all pods have loaded it. `ProgressParts`
cuts the invariant into one part for the PolicyServer and one for each policy;
`ProgressFrame` carries the part of a policy over every step that spares it (`Spared`) and
leaves what it waits for and what it has passed (`Undisturbed`), so that each action is
looked at only for the policy or the reconciler it belongs to. `UsersWrite` and `Removes`
say once what a write of users, and the removal of a finalizer, does to a policy.

### One name, several lives (PolicyServerLifecycle)

Why a controller with stale copies does not build for, or delete from, the wrong
PolicyServer:

1. `CacheIsOfThisLife`: the cache shows a live PolicyServer only while one exists,
   for the finalizer goes only after a reconcile has seen the deletion.
2. `WorkerIsOfThisLife`: so what a reconcile builds it builds for a PolicyServer that
   exists; and one whose copy is the current one sees its phase.
3. `BuiltInOrder`, `DeletedInOrder`: each step finds what the earlier ones made, or
   has deleted what they deleted, unless something failed.
4. `RecreatedHasNothing`: while the controller still sees or deletes the PolicyServer
   of before, the new one of the same name has nothing that could be deleted.
5. `SeenConditionsAreTrue`: the conditions about to be saved by a copy that will not
   conflict are those of objects that exist.

`NothingIsLeft`, `DeploymentCanStart` and `ConditionsAreTrue` follow, and `IInv` is
their conjunction with the types.

The refinement needs nothing more. The mapping forgets what an object contains and
keeps whether it exists: a step of `Reconcile` is a `Build` after what it `Needs` (3, with 2
for a PolicyServer that exists), `UpdateStatus` a `Report` of what is there (5),
`DeleteObject` a `Demolish` of a PolicyServer that is being deleted, or takes nothing (4),
and `RemoveFinalizer` a `Remove` of one that has nothing left (3).

### No attempt is lost (PolicyServerLifecycle)

Nothing watches Deployments or secrets, Conflicts count as success when the finalizer
is removed, and `GetPolicies` drops errors. Why the reconciler still does not stop
early, which is the argument of `ProgressInv`, proved on top of `IInv`:

1. `StaleIsFollowed`: the write that makes the copy of a reconcile stale is an event still
   to come, or one that has enqueued the PolicyServer; so a reconcile that ends
   in a Conflict has a successor whatever it returns.
2. `FreshSeesSpec`: a reconcile whose copy is the current one works from the current spec.
3. `PassedIsInStep`: what it has passed without an error is as the spec it saw says, and its
   condition is set; after an error it saves its status and is enqueued again.
4. `ListIsFollowed`: its list of policies is the one of the cache, or the event that
   changed the cache has enqueued the PolicyServer.

When a reconcile ends with success on a copy that is current, 2 to 4 make it
`RestMeansInStep` and `RestMeansComplete`; in every other end 1, or the requeue, keeps
`UnderWay`.

### The mode (PolicyAdmission)

`ModeInv`: an entry that says protect belongs to a policy whose cached version says
protect, and a cached protect to a policy that says protect. The cache only
moves forward, and `ValidateUpdate` never lets a version with protect be followed by
one without, so the next entry of that policy says protect again.

### Attempts and names (PolicyAdmission)

`ProgressInv` is the argument that a policy does not rest early:

1. `OnlyCreated`, `WorkerSees`: what is enqueued, cached or reconciled is a policy that
   was created; the PolicyServer of the copy is the stored one, which no update changes, and
   a copy that is the current one is what is stored. A write that makes a copy stale
   leaves an event still to come (`~synced`).
2. `WebhooksAreOwn`: where names are apart, a webhook under the name of p, stored or
   cached, is the one p should have, since its PolicyServer and namespace never change. So
   whatever the cache shows, what `ReconcileWebhook` leaves under that name is right.
3. A reconcile ends without a requeue only if it has written the webhook from a
   copy that is the current one, if there is nothing to do, or if its last update was
   accepted and the policy is gone.
4. `CleanedUp`: between the deletion of the webhook and the last update there is no webhook
   under that name, of the kind that the reconcile has seen, if its informer does not lag; the update is accepted only
   if its copy is the current one, so that is the kind the policy has, and
   `FinalizerGoesLast` follows.

`NamesKeepNamespaces` and `NamesAreApart` are the other side of the run `OwnNamespaceOnly`,
which finds two policies of different namespaces behind one name: nothing but a shared
name makes a webhook ask for a policy of another namespace, and names are shared only
if hyphens can move between namespace and name.

### What is only model-checked

Liveness (`PoliciesSettle`, `DeletionCompletes`, `SpecIsFollowed`,
`ServerDeletionCompletes`, `NamedPolicyDeletionCompletes`, `WebhooksSettle`), which is
outside what the prover handles, and the violations. What they say of the states in
which a controller may stop is proved, in that order: `RestIsEnforced`, `DeletionStays`,
`NoEditIsLost`, `DeletionGoesOn`, `PolicyDeletionGoesOn` and `RestIsRegistered`.

## 5. Not modelled

- X.509: encoding, host names and expiry. A serving certificate is valid for a year
  and is not made anew while its secret exists; time is not in the models.
- The flag `--always-accept-admission-reviews-on-deployments-namespace`, which adds
  the same variable to every Deployment of a process.
- The ports of the Service beyond the metrics port, and that port is never opened
  on a Service that exists: `SpecIsFollowed` asks of the Service only that it exists.
- What `shouldUpdatePolicyServerDeployment` does not compare: `SpecIsFollowed` is limited
  to the six parts it does, so an edit of `verificationConfig` from one ConfigMap to
  another, which changes a volume, is not promised to reach the Deployment; it does not.
- In `PolicyRollout`: events of a status write that changes only a reason or a message;
  the root CA secret that `reconcilePolicy` reads is taken to be there (a miss is a
  webhook call that fails); the mode in the status is identified with the whole
  ConfigMap entry, so a status may change, and cause an event, where in the code it
  would not; a policy that is created again under the name of one that is gone;
  pods that turn unready without a restart; terminating pods go in one step. The
  webhook comparison assumes that equality with a defaulted object can be found.
- In `PolicyServerLifecycle`: a policy that is gone is not created again, and users take no
  finalizers away, neither those of PolicyServers (`scripts/uninstall.sh`), whose objects
  would stay, nor those of policies.
- In `PolicyAdmission`: the pods, and the PolicyServers, each of which exists.
- Other writers of ConfigMap, Deployment, secrets and webhooks.
- Leader election: one controller process at a time.
- The v1alpha2 types and generated deep copies: declarations. Metrics: pure output,
  and `RecordPolicyCount` is called only from a function that nothing calls.
  Flags, probes and the set-up of the manager: wiring.

## 6. Plan

Done: all modules above with their runs and proofs. What could follow:

1. Composing `PolicyRollout` with the deletion of `PolicyServerLifecycle`, so that a
   policy is rolled out while its PolicyServer is taken down.
2. Two workers per controller, if the code ever raises `MaxConcurrentReconciles`.
