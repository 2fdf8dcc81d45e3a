--------------------------- MODULE PolicyAdmission ---------------------------
(***************************************************************************)
(* What may be written into a policy, and what is kept under its name.     *)
(*                                                                         *)
(*  - Every create and update of a policy, the controller's own included,  *)
(*    passes the admission webhooks of its CRD: Default, then Validate     *)
(*    (main.go, clusteradmissionpolicy_webhook.go, admissionpolicy_webhook.go). *)
(*  - The ConfigMap entry and the webhook configuration of a policy are    *)
(*    found by its unique name, the webhook configuration also by its kind,*)
(*    which spec.mutating decides (policy_utils.go, validating-webhook.go, *)
(*    mutating-webhook.go, policy-server-configmap.go).                    *)
(*                                                                         *)
(* Which pods serve a policy is the business of PolicyRollout; here the    *)
(* PolicyServer controller writes its ConfigMap in one step, and a policy  *)
(* is reachable as soon as its name is in it.                              *)
(***************************************************************************)
EXTENDS Integers, Sequences, FiniteSets

CONSTANTS
    Policies,        \* the policies users may create
    Name,            \* Name[p]: its name, split at the hyphens
    Namespace,       \* Namespace[p]: likewise; << >> for a ClusterAdmissionPolicy
    Servers,         \* the PolicyServers; each of them exists
    DefaultServers,  \* what --default-policy-server may be, "" for none
    LaggingWebhooks, \* the kinds of webhook configuration whose informer may lag
    MaxEdits,        \* bound: how often users edit one policy
    MaxFaults,       \* bound: API errors and restarts of the controller
    None             \* no entry, no webhook

ASSUME NamesAssumption ==
    Name \in [Policies -> Seq(STRING)] /\ Namespace \in [Policies -> Seq(STRING)]

ASSUME ServersAssumption ==
    /\ DefaultServers # {} /\ DefaultServers \subseteq Servers \cup {""}
    /\ "" \notin Servers

ASSUME AdmissionAssumption ==
    LaggingWebhooks \subseteq {"validating", "mutating"} /\ MaxEdits \in Nat /\ MaxFaults \in Nat

VARIABLES
    policy,          \* etcd: [phase, server, mode, mutating, finalizer] of each policy
    edits,           \* how often users edited it
    config,          \* etcd: config[s][n], the entry under name n in the ConfigMap of s
    webhook,         \* etcd: webhook[k][n], the webhook configuration of kind k named n
    defaultServer,   \* the --default-policy-server of the running controller
    policyCache,     \* the informers: each policy,
    synced,          \*   is that its current resourceVersion?
    webhookCache,
    queue,           \* the policies enqueued for reconciliation
    worker,          \* what the worker of each policy controller is doing
    faults           \* faults so far

vars == << policy, edits, config, webhook, defaultServer, policyCache, synced,
           webhookCache, queue, worker, faults >>

-----------------------------------------------------------------------------
(* Names and kinds.                                                        *)

IsNamespaced(p) == Namespace[p] # << >>

\* The controller that reconciles p.
Controller(p) == IF IsNamespaced(p) THEN "AdmissionPolicy" ELSE "ClusterAdmissionPolicy"
Controllers   == {"AdmissionPolicy", "ClusterAdmissionPolicy"}

\* Joined with hyphens: where the namespace ends can no longer be told.
GetUniqueName(p) ==
    IF IsNamespaced(p) THEN << "namespaced" >> \o Namespace[p] \o Name[p]
    ELSE << "clusterwide" >> \o Name[p]

Names        == { GetUniqueName(p) : p \in Policies }
WebhookKinds == {"validating", "mutating"}

\* Broken variant: every policy is registered as a validating one.
AlwaysValidating(object) == "validating"

\* Which of the two Reconcile...WebhookConfiguration, and which clean-up, is called.
WebhookKind(object) == IF object.mutating THEN "mutating" ELSE "validating"

\* validatingWebhookConfiguration, mutatingWebhookConfiguration: it calls the Service
\* of the PolicyServer under the path of its own name, for the objects of the
\* namespace that GetNamespaceSelector and GetRules confine an AdmissionPolicy to.
webhookConfiguration(p, object) == [server |-> object.server, namespace |-> Namespace[p]]

-----------------------------------------------------------------------------
(* State. *)

NoPolicy   == [phase |-> "absent", server |-> "", mode |-> "protect", mutating |-> FALSE,
               finalizer |-> FALSE]
NoWebhooks == [k \in WebhookKinds |-> [n \in Names |-> None]]
IdleWorker == [pc |-> "idle", policy |-> None, seen |-> NoPolicy, fresh |-> TRUE]

Objects == [phase : {"absent", "live", "deleting", "gone"}, server : Servers \cup {""},
            mode : {"protect", "monitor"}, mutating : BOOLEAN, finalizer : BOOLEAN]
Entries == [policy : Policies, mode : {"protect", "monitor"}, mutating : BOOLEAN]
Webhooks == { [server |-> s, namespace |-> Namespace[p]] : s \in Servers, p \in Policies }

\* Every variable has its type; whatever users write, a policy has the finalizer.
TypeOK ==
    /\ policy \in [Policies -> Objects]
    /\ \A p \in Policies : policy[p].phase \in {"live", "deleting"} => policy[p].finalizer
    /\ edits \in [Policies -> 0 .. MaxEdits]
    /\ config \in [Servers -> [Names -> Entries \cup {None}]]
    /\ webhook \in [WebhookKinds -> [Names -> Webhooks \cup {None}]]
    /\ defaultServer \in DefaultServers
    /\ policyCache \in [Policies -> Objects]
    /\ synced \in [Policies -> BOOLEAN]
    /\ webhookCache \in [WebhookKinds -> [Names -> Webhooks \cup {None}]]
    /\ queue \subseteq Policies
    /\ worker \in [Controllers ->
                     [pc : {"idle", "configMap", "webhook", "deleteWebhook", "removeFinalizer"},
                      policy : Policies \cup {None}, seen : Objects, fresh : BOOLEAN]]
    /\ faults \in 0 .. MaxFaults

Init ==
    /\ policy = [p \in Policies |-> NoPolicy]
    /\ edits = [p \in Policies |-> 0]
    /\ config = [s \in Servers |-> [n \in Names |-> None]]
    /\ webhook = NoWebhooks
    /\ defaultServer \in DefaultServers
    /\ policyCache = policy
    /\ synced = [p \in Policies |-> TRUE]
    /\ webhookCache = NoWebhooks
    /\ queue = {}
    /\ worker = [c \in Controllers |-> IdleWorker]
    /\ faults = 0

Exists(p) == policy[p].phase \in {"live", "deleting"}

-----------------------------------------------------------------------------
(* The admission webhooks of the policy CRDs.                              *)

\* Broken variants: the finalizer is left to users; it is added whatever the phase.
DefaultServerOnly(object) == [object EXCEPT !.server = IF @ = "" THEN defaultServer ELSE @]
DefaultWhateverPhase(object) ==
    [object EXCEPT !.server = IF @ = "" THEN defaultServer ELSE @, !.finalizer = TRUE]

\* Default: the PolicyServer of the flag, and the finalizer unless it is being deleted.
Default(object) ==
    [object EXCEPT !.server = IF @ = "" THEN defaultServer ELSE @,
                   !.finalizer = @ \/ object.phase = "live"]

\* Broken variant: the mode may change either way.
validateServerOnly(old, new) == new.server = old.server

\* ValidateUpdate; ValidateCreate accepts everything.
validatePolicyUpdate(old, new) ==
    /\ new.server = old.server
    /\ ~(new.mode = "monitor" /\ old.mode = "protect")

-----------------------------------------------------------------------------
(* The users.                                                              *)

\* A write gives the policy a new resourceVersion: neither the cache nor the copy of a
\* reconcile under way is the current one any more.
Store(p, object) ==
    /\ policy' = [policy EXCEPT ![p] = object]
    /\ synced' = [synced EXCEPT ![p] = FALSE]
    /\ worker' = [c \in Controllers |->
                    [worker[c] EXCEPT !.fresh = @ /\ worker[c].policy # p]]

\* An object that is being deleted goes with its last finalizer.
Stored(object) ==
    [object EXCEPT !.phase = IF @ = "deleting" /\ ~object.finalizer THEN "gone" ELSE @]

\* What users may ask for, with the finalizer of the object or without; the schema of
\* the CRD allows only the two modes.
Requests(phase) == [phase : {phase}, server : Servers \cup {""}, mode : {"protect", "monitor"},
                    mutating : BOOLEAN, finalizer : BOOLEAN]

CreatePolicy(p) ==
    /\ policy[p].phase = "absent"
    /\ \E request \in Requests("live") : Store(p, Default(request))
    /\ UNCHANGED << edits, config, webhook, defaultServer, policyCache, webhookCache,
                    queue, faults >>

\* An update is refused unless it is valid.  A policy that is being deleted may still be
\* edited, and loses its finalizer if users take it away, as
\* scripts/removeFinalizersFromCRDs.sh does: Default does not put it back.
UpdatePolicy(p) ==
    /\ Exists(p) /\ edits[p] < MaxEdits
    /\ \E request \in Requests(policy[p].phase) :
          LET new == Default(request) IN
          /\ validatePolicyUpdate(policy[p], new)
          /\ new # policy[p]
          /\ Store(p, Stored(new))
    /\ edits' = [edits EXCEPT ![p] = @ + 1]
    /\ UNCHANGED << config, webhook, defaultServer, policyCache, webhookCache, queue, faults >>

\* Without a finalizer the object is removed at once.
DeletePolicy(p) ==
    /\ policy[p].phase = "live"
    /\ Store(p, Stored([policy[p] EXCEPT !.phase = "deleting"]))
    /\ UNCHANGED << edits, config, webhook, defaultServer, policyCache, webhookCache,
                    queue, faults >>

-----------------------------------------------------------------------------
(* The informers.                                                          *)

SyncPolicy(p) ==
    /\ ~synced[p]
    /\ policyCache' = [policyCache EXCEPT ![p] = policy[p]]
    /\ synced' = [synced EXCEPT ![p] = TRUE]
    /\ queue' = queue \cup {p}
    /\ UNCHANGED << policy, edits, config, webhook, defaultServer, webhookCache, worker, faults >>

\* An event of one of its pods, or of the PolicyServer, enqueues the policies that the
\* ConfigMap of a PolicyServer lists.
SyncPods(s) ==
    /\ queue' = queue \cup { config[s][n].policy : n \in { n \in Names : config[s][n] # None } }
    /\ UNCHANGED << policy, edits, config, webhook, defaultServer, policyCache, synced,
                    webhookCache, worker, faults >>

\* The informer of webhooks of kind k.  Nothing watches the webhook configurations.
SyncWebhooks(k) ==
    /\ k \in LaggingWebhooks /\ webhookCache[k] # webhook[k]
    /\ webhookCache' = [webhookCache EXCEPT ![k] = webhook[k]]
    /\ UNCHANGED << policy, edits, config, webhook, defaultServer, policyCache, synced,
                    queue, worker, faults >>

-----------------------------------------------------------------------------
(* The PolicyServer controller, in one step.                               *)

\* createPoliciesMap over GetPolicies(SkipDeleted): of the policies that share a name,
\* the one listed last, which may be any.
PolicyMaps(s) ==
    LET Listed(n) == { p \in Policies : /\ GetUniqueName(p) = n
                                        /\ policyCache[p].phase = "live"
                                        /\ policyCache[p].server = s }
        EntriesOf(n) == { [policy |-> p, mode |-> policyCache[p].mode,
                           mutating |-> policyCache[p].mutating] : p \in Listed(n) }
    IN  { m \in [Names -> UNION { EntriesOf(n) : n \in Names } \cup {None}] :
            \A n \in Names : IF Listed(n) = {} THEN m[n] = None ELSE m[n] \in EntriesOf(n) }

\* Policies that share a name may take turns.
ReconcileConfigMap(s) ==
    /\ \E m \in PolicyMaps(s) \ {config[s]} : config' = [config EXCEPT ![s] = m]
    /\ UNCHANGED << policy, edits, webhook, defaultServer, policyCache, synced, webhookCache,
                    queue, worker, faults >>

-----------------------------------------------------------------------------
(* The policy controllers.                                                 *)

\* Broken variant: what the update that removes the finalizer returns is logged, and
\* dropped.
FinishDropsErrors(c, requeue) ==
    /\ worker' = [worker EXCEPT ![c] = IdleWorker]
    /\ queue' = IF requeue /\ worker[c].pc # "removeFinalizer" THEN queue \cup {worker[c].policy}
                                                               ELSE queue

Finish(c, requeue) ==
    /\ worker' = [worker EXCEPT ![c] = IdleWorker]
    /\ queue' = IF requeue THEN queue \cup {worker[c].policy} ELSE queue

Goto(c, pc) == worker' = [worker EXCEPT ![c].pc = pc] /\ UNCHANGED queue

\* startReconciling and reconcilePolicy up to the gate.  The policy is read live; one
\* that names no PolicyServer is left alone.
StartReconcile(p) ==
    LET c == Controller(p)
        seen == policy[p] IN
    /\ p \in queue /\ worker[c].pc = "idle"
    /\ queue' = queue \ {p}
    /\ worker' = IF ~Exists(p) \/ (seen.phase = "live" /\ seen.server = "")
                 THEN worker
                 ELSE [worker EXCEPT ![c] =
                         [pc |-> IF seen.phase = "live" THEN "configMap" ELSE "deleteWebhook",
                          policy |-> p, seen |-> seen, fresh |-> TRUE]]
    /\ UNCHANGED << policy, edits, config, webhook, defaultServer, policyCache, synced,
                    webhookCache, faults >>

\* isPolicyUniquelyReachable looks for the name, whosever entry it finds.
CheckReachable(c) ==
    LET p == worker[c].policy IN
    /\ worker[c].pc = "configMap"
    /\ IF config[worker[c].seen.server][GetUniqueName(p)] = None
       THEN Finish(c, TRUE) ELSE Goto(c, "webhook")
    /\ UNCHANGED << policy, edits, config, webhook, defaultServer, policyCache, synced,
                    webhookCache, faults >>

\* What the informers show of the webhooks.
Cached == [k \in WebhookKinds |-> IF k \in LaggingWebhooks THEN webhookCache[k] ELSE webhook[k]]

\* The webhook of kind k is created; one that exists is fetched from the cache and
\* patched if it differs there.
ReconciledWebhook(k, n, new) ==
    IF webhook[k][n] = None \/ Cached[k][n] \notin {None, new} THEN new ELSE webhook[k][n]

ReconcileWebhook(c) ==
    LET p   == worker[c].policy
        k   == WebhookKind(worker[c].seen)
        n   == GetUniqueName(p)
        new == webhookConfiguration(p, worker[c].seen)
        notCached == webhook[k][n] # None /\ Cached[k][n] = None IN
    /\ worker[c].pc = "webhook"
    /\ webhook' = [webhook EXCEPT ![k][n] = ReconciledWebhook(k, n, new)]
    /\ Finish(c, notCached \/ ~worker[c].fresh)
    /\ UNCHANGED << policy, edits, config, defaultServer, policyCache, synced, webhookCache,
                    faults >>

\* reconcileValidatingWebhook or reconcileMutatingWebhook, by the kind that the policy
\* has now: deleted if the cache has it.
DeleteWebhook(c) ==
    LET k == WebhookKind(worker[c].seen)
        n == GetUniqueName(worker[c].policy) IN
    /\ worker[c].pc = "deleteWebhook"
    /\ webhook' = IF Cached[k][n] = None THEN webhook ELSE [webhook EXCEPT ![k][n] = None]
    /\ Goto(c, "removeFinalizer")
    /\ UNCHANGED << policy, edits, config, defaultServer, policyCache, synced, webhookCache,
                    faults >>

\* Broken variant: a write that does not look at the resourceVersion.
AcceptedAnyway(c, new) ==
    Exists(worker[c].policy) /\ validatePolicyUpdate(policy[worker[c].policy], new)

\* An update conflicts unless the copy is the current one.
Accepted(c, new) == worker[c].fresh /\ validatePolicyUpdate(policy[worker[c].policy], new)

\* Update without the finalizer.  It passes Default and ValidateUpdate like any other.
RemoveFinalizer(c) ==
    LET p   == worker[c].policy
        new == Default([worker[c].seen EXCEPT !.finalizer = FALSE]) IN
    /\ worker[c].pc = "removeFinalizer"
    /\ IF Accepted(c, new)
       THEN /\ policy' = [policy EXCEPT ![p] = Stored(new)]
            /\ synced' = [synced EXCEPT ![p] = FALSE]
       ELSE UNCHANGED << policy, synced >>
    /\ Finish(c, ~Accepted(c, new))
    /\ UNCHANGED << edits, config, webhook, defaultServer, policyCache, webhookCache, faults >>

-----------------------------------------------------------------------------
(* Faults, MaxFaults of them at most.                                      *)

Fault == faults < MaxFaults /\ faults' = faults + 1

\* A call fails, a write possibly after it took effect; the reconcile is retried.
ApiError(c) ==
    LET k == WebhookKind(worker[c].seen)
        n == GetUniqueName(worker[c].policy)
        new == webhookConfiguration(worker[c].policy, worker[c].seen) IN
    /\ Fault
    /\ \/ worker[c].pc \in {"configMap", "removeFinalizer"} /\ UNCHANGED webhook
       \/ /\ worker[c].pc = "webhook"
          /\ webhook' \in {webhook, [webhook EXCEPT ![k][n] = ReconciledWebhook(k, n, new)]}
       \/ /\ worker[c].pc = "deleteWebhook"
          /\ webhook' \in {webhook, IF Cached[k][n] = None THEN webhook
                                    ELSE [webhook EXCEPT ![k][n] = None]}
    /\ Finish(c, TRUE)
    /\ UNCHANGED << policy, edits, config, defaultServer, policyCache, synced, webhookCache >>

\* The controller restarts, perhaps with another --default-policy-server.
Restart ==
    /\ Fault
    /\ defaultServer' \in DefaultServers
    /\ worker' = [c \in Controllers |-> IdleWorker]
    /\ policyCache' = policy
    /\ synced' = [p \in Policies |-> TRUE]
    /\ webhookCache' = webhook
    /\ queue' = { p \in Policies : Exists(p) }
    /\ UNCHANGED << policy, edits, config, webhook >>

-----------------------------------------------------------------------------
ReconcilePolicy(c) ==
    \/ \E p \in Policies : c = Controller(p) /\ StartReconcile(p)
    \/ CheckReachable(c)
    \/ ReconcileWebhook(c)
    \/ DeleteWebhook(c)
    \/ RemoveFinalizer(c)

Next ==
    \/ \E p \in Policies : CreatePolicy(p) \/ UpdatePolicy(p) \/ DeletePolicy(p) \/ SyncPolicy(p)
    \/ \E k \in WebhookKinds : SyncWebhooks(k)
    \/ \E s \in Servers : ReconcileConfigMap(s) \/ SyncPods(s)
    \/ \E c \in Controllers : ReconcilePolicy(c) \/ ApiError(c)
    \/ Restart

Spec == Init /\ [][Next]_vars

\* Informers receive their events, the work queues hand out every policy in them and
\* calls return.
Fairness ==
    /\ \A p \in Policies : WF_vars(SyncPolicy(p)) /\ SF_vars(StartReconcile(p))
    /\ \A k \in WebhookKinds : WF_vars(SyncWebhooks(k))
    /\ \A s \in Servers : WF_vars(ReconcileConfigMap(s))
    /\ \A c \in Controllers : WF_vars(ReconcilePolicy(c))

FairSpec == Spec /\ Fairness

-----------------------------------------------------------------------------
(* What the controller promises.                                           *)

\* No two policies share a unique name.
NamesApart == \A p, q \in Policies : GetUniqueName(p) = GetUniqueName(q) => p = q

\* Once the pods of a PolicyServer are told to enforce a policy they are never told only
\* to monitor it (policy_types.go:43-46), in whatever order edits, informers, restarts
\* and the ConfigMap come.
EnforcementNeverWeakens ==
    [][\A s \in Servers, n \in Names :
          config[s][n] # None /\ config'[s][n] # None =>
             ~ /\ config[s][n].policy = config'[s][n].policy
               /\ config[s][n].mode = "protect" /\ config'[s][n].mode = "monitor"]_vars

\* The controller of a policy lets it go.
LetsGo(c) ==
    LET p == worker[c].policy
    IN  RemoveFinalizer(c) /\ policy[p].phase # "gone" /\ policy'[p].phase = "gone"

\* When a controller lets a policy go, the webhook of the kind that the policy has at that
\* moment is gone: however users toggle the kind while it is being deleted, whatever a
\* reconcile of the live policy registered after its deletion began, and whatever failed
\* (policy_utils.go:180-195).  Names must be apart; a kind whose informer lags is excepted,
\* and users who take the finalizer away themselves are not meant.
FinalizerGoesLast ==
    [][NamesApart =>
         \A c \in Controllers : LetsGo(c) =>
            LET p == worker[c].policy
                k == IF policy[p].mutating THEN "mutating" ELSE "validating"
            IN  k \notin LaggingWebhooks => webhook[k][GetUniqueName(p)] = None]_vars

\* A policy that names a PolicyServer and is deleted disappears in the end, although the
\* update that removes its finalizer passes the admission webhooks, which may meanwhile
\* have another default.  (One that names none is stuck when the flag is set later:
\* Default fills in what ValidateUpdate then refuses.)
NamedPolicyDeletionCompletes ==
    \A p \in Policies : policy[p].phase = "deleting" /\ policy[p].server # "" ~>
                          policy[p].phase = "gone"

\* When users leave it alone, every policy that names a PolicyServer has a webhook of the
\* kind that spec.mutating says, to that PolicyServer and for its namespace
\* (policy_utils.go:145-153).
WebhooksSettle ==
    <>[](\A p \in Policies : policy[p].phase = "live" /\ policy[p].server # "" =>
            LET k == IF policy[p].mutating THEN "mutating" ELSE "validating"
            IN  webhook[k][GetUniqueName(p)] = webhookConfiguration(p, policy[p]))

\* Something leads to another reconcile of p, or one is under way.
UnderWay(p) ==
    LET w == worker[Controller(p)]
    IN  p \in queue \/ ~synced[p] \/ (w.pc # "idle" /\ w.policy = p)

\* The deletion of a policy is never forgotten, whatever the call returned that was to
\* remove its finalizer (policy_utils.go:180-195).
PolicyDeletionIsUnderWay ==
    \A p \in Policies : policy[p].phase = "deleting" => UnderWay(p)

\* When nothing leads to another reconcile of a live policy that names a PolicyServer,
\* the webhook of its kind is the one it should have, although the reconciler compares
\* with a cached one and AlreadyExists may come with NotFound (policy_utils.go:145-153,
\* validating-webhook.go:28-62, mutating-webhook.go:22-60).
RestMeansRegistered ==
    NamesApart =>
        \A p \in Policies : policy[p].phase = "live" /\ policy[p].server # "" /\ ~UnderWay(p) =>
            LET k == IF policy[p].mutating THEN "mutating" ELSE "validating"
            IN  webhook[k][GetUniqueName(p)] = webhookConfiguration(p, policy[p])

-----------------------------------------------------------------------------
(* The inductive invariant: why no attempt is lost.                         *)

\* Only policies that were created are cached, enqueued, or listed in a ConfigMap, where
\* each has its own name.
OnlyCreated ==
    /\ \A p \in Policies : p \in queue \/ ~synced[p] \/ policyCache[p].phase # "absent" =>
          policy[p].phase # "absent"
    /\ \A s \in Servers, n \in Names : config[s][n] # None =>
          LET p == config[s][n].policy IN
          policyCache[p].phase # "absent" /\ GetUniqueName(p) = n

\* A reconcile knows the PolicyServer, which no update changes; it deletes a policy only
\* once its deletion has begun; and a copy that is the current one is what there is.
WorkerSees ==
    \A c \in Controllers : worker[c].pc # "idle" =>
        LET p == worker[c].policy seen == worker[c].seen IN
        /\ policy[p].phase # "absent" /\ seen.server = policy[p].server
        /\ worker[c].pc \in {"configMap", "webhook"} => seen.phase = "live"
        /\ worker[c].pc \in {"deleteWebhook", "removeFinalizer"} =>
              seen.phase = "deleting" /\ policy[p].phase \in {"deleting", "gone"}
        /\ worker[c].fresh => seen = policy[p]

\* Under the name of a policy there is, and there is cached, only a webhook of its own.
WebhooksAreOwn ==
    NamesApart =>
        \A p \in Policies, k \in WebhookKinds :
            /\ webhook[k][GetUniqueName(p)] # None =>
                  /\ policy[p].phase # "absent"
                  /\ webhook[k][GetUniqueName(p)] = webhookConfiguration(p, policy[p])
            /\ webhookCache[k][GetUniqueName(p)] # None =>
                  /\ policy[p].phase # "absent"
                  /\ webhookCache[k][GetUniqueName(p)] = webhookConfiguration(p, policy[p])

\* Between the clean-up and the update that removes the finalizer, the webhook is gone.
CleanedUp ==
    NamesApart =>
        \A c \in Controllers :
            LET k == WebhookKind(worker[c].seen)
            IN  worker[c].pc = "removeFinalizer" /\ k \notin LaggingWebhooks =>
                   webhook[k][GetUniqueName(worker[c].policy)] = None

ProgressInv ==
    /\ OnlyCreated
    /\ WorkerSees
    /\ WebhooksAreOwn
    /\ CleanedUp
    /\ PolicyDeletionIsUnderWay
    /\ RestMeansRegistered

-----------------------------------------------------------------------------
(* What documents and comments of the repository say, and the code does not *)
(* do.  Each is the property of a run that violates it.                     *)

\* rfc/0001-policy-server-custom-resource.md:235-237: the webhook configuration
\* associated with the policy is deleted, then the policy is deleted from etcd.
NoOrphanWebhook ==
    [][\A c \in Controllers : LetsGo(c) =>
         \A k \in WebhookKinds : webhook[k][GetUniqueName(worker[c].policy)] = None]_vars

\* apis/policies/v1/admissionpolicy_types.go:117: the namespace of the AdmissionPolicy
\* "is the only namespace we want the policy to be applied to": the webhook that is
\* answered by the entry of p is confined to the namespace of p.
OwnNamespaceOnly ==
    \A k \in WebhookKinds, n \in Names :
        LET w == webhook[k][n] IN
        w # None /\ config[w.server][n] # None =>
            w.namespace = Namespace[config[w.server][n].policy]
=============================================================================
