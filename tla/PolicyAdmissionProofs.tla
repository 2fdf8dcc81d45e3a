------------------------ MODULE PolicyAdmissionProofs ------------------------
(***************************************************************************)
(* Theorems of PolicyAdmission, for any policies, names, namespaces and    *)
(* PolicyServers, and any number of edits and faults: type correctness,    *)
(* that no edit weakens what is enforced, that no attempt at a deletion or *)
(* at a webhook is lost, that the clean-up comes before the finalizer goes,*)
(* and what unique names keep apart.                                       *)
(***************************************************************************)
EXTENDS PolicyAdmission, SequenceTheorems, TLAPS

\* A controller reconciles the policies of its kind; up to the webhook, they name a
\* PolicyServer, and it cleans up after deleted ones only.
WorkerHasPolicy ==
    \A c \in Controllers : worker[c].pc # "idle" =>
        /\ worker[c].policy \in Policies
        /\ Controller(worker[c].policy) = c
        /\ worker[c].pc \in {"configMap", "webhook"} => worker[c].seen.server \in Servers
        /\ worker[c].pc \in {"deleteWebhook", "removeFinalizer"} => worker[c].seen.phase = "deleting"

TypeInv == TypeOK /\ WorkerHasPolicy

Workers == [pc : {"idle", "configMap", "webhook", "deleteWebhook", "removeFinalizer"},
            policy : Policies \cup {None}, seen : Objects, fresh : BOOLEAN]

\* What is made of what the controller has.
LEMMA DefaultType ==
  ASSUME TypeInv, NEW object \in Objects
  PROVE  /\ Default(object) \in Objects
         /\ Default(object).phase = object.phase
         /\ Default(object).mode = object.mode
         /\ object.phase = "live" => Default(object).finalizer
  BY ServersAssumption DEF Default, TypeInv, TypeOK, Objects

\* What is left of an object that is written.
LEMMA StoredType ==
  ASSUME NEW object \in Objects
  PROVE  /\ Stored(object) \in Objects
         /\ Stored(object).server = object.server /\ Stored(object).mode = object.mode
         /\ Stored(object).finalizer = object.finalizer
         /\ object.phase = "live" => Stored(object).phase = "live"
         /\ object.phase = "deleting" =>
               Stored(object).phase = IF object.finalizer THEN "deleting" ELSE "gone"
  BY DEF Stored, Objects

\* What users ask for.
LEMMA RequestType ==
  ASSUME TypeInv, NEW phase \in {"live", "deleting"}, NEW request \in Requests(phase)
  PROVE  LET new == Default(request) IN
         /\ new \in Objects /\ new.phase = phase
         /\ Stored(new) \in Objects
         /\ Stored(new).server = new.server /\ Stored(new).mode = new.mode
         /\ Stored(new).phase \in {phase, "gone"}
         /\ phase = "live" => Stored(new).phase = "live" /\ new.finalizer
         /\ Stored(new).phase \in {"live", "deleting"} => Stored(new).finalizer
<1>1. request \in Objects /\ request.phase = phase
  BY DEF Requests, Objects
<1>2. PICK new \in Objects : new = Default(request) /\ new.phase = phase /\ (phase = "live" => new.finalizer)
  BY <1>1, DefaultType
<1> QED
  BY <1>2, StoredType

\* What is left of a live policy that is deleted.
LEMMA DeletedType ==
  ASSUME TypeInv, NEW p \in Policies, policy[p].phase = "live"
  PROVE  LET new == Stored([policy[p] EXCEPT !.phase = "deleting"]) IN
         /\ new \in Objects /\ new.phase = "deleting" /\ new.finalizer
         /\ new.server = policy[p].server /\ new.mode = policy[p].mode
<1> DEFINE deleted == [policy[p] EXCEPT !.phase = "deleting"]
<1>1. policy[p] \in Objects /\ policy[p].finalizer
  BY DEF TypeInv, TypeOK
<1>2. /\ deleted \in Objects /\ deleted.phase = "deleting" /\ deleted.finalizer
      /\ deleted.server = policy[p].server /\ deleted.mode = policy[p].mode
  BY <1>1 DEF Objects
<1> HIDE DEF deleted
<1>3. /\ Stored(deleted) \in Objects /\ Stored(deleted).phase = "deleting" /\ Stored(deleted).finalizer
      /\ Stored(deleted).server = policy[p].server /\ Stored(deleted).mode = policy[p].mode
  BY <1>2, StoredType
<1> QED
  BY <1>3 DEF deleted

LEMMA NameType == ASSUME NEW p \in Policies PROVE GetUniqueName(p) \in Names
  BY DEF Names

LEMMA KindType == ASSUME NEW object \in Objects PROVE WebhookKind(object) \in WebhookKinds
  BY DEF WebhookKind, WebhookKinds

LEMMA ControllerType == ASSUME NEW p \in Policies PROVE Controller(p) \in Controllers
  BY DEF Controller, Controllers

LEMMA IdleType == IdleWorker \in Workers /\ IdleWorker.pc = "idle"
  BY DEF IdleWorker, Workers, Objects, NoPolicy

LEMMA InitType == Init => TypeInv
<1> SUFFICES ASSUME Init PROVE TypeInv
  OBVIOUS
<1>1. NoPolicy \in Objects /\ NoPolicy.phase = "absent"
  BY DEF NoPolicy, Objects
<1>2. NoWebhooks \in [WebhookKinds -> [Names -> Webhooks \cup {None}]]
  BY DEF NoWebhooks
<1>3. worker \in [Controllers -> Workers] /\ \A c \in Controllers : worker[c].pc = "idle"
  BY IdleType DEF Init
<1>4. policy \in [Policies -> Objects] /\ \A p \in Policies : policy[p].phase = "absent"
  BY <1>1 DEF Init
<1>5. policyCache \in [Policies -> Objects]
  BY <1>4 DEF Init
<1>6. 0 \in 0 .. MaxEdits /\ 0 \in 0 .. MaxFaults
  BY AdmissionAssumption
<1>7. TypeOK
  <2>1. /\ edits \in [Policies -> 0 .. MaxEdits] /\ faults \in 0 .. MaxFaults
        /\ synced \in [Policies -> BOOLEAN] /\ queue \subseteq Policies
        /\ defaultServer \in DefaultServers
    BY <1>6 DEF Init
  <2>2. /\ config \in [Servers -> [Names -> Entries \cup {None}]]
        /\ webhook \in [WebhookKinds -> [Names -> Webhooks \cup {None}]]
        /\ webhookCache \in [WebhookKinds -> [Names -> Webhooks \cup {None}]]
    BY <1>2 DEF Init
  <2> QED
    BY <1>3, <1>4, <1>5, <2>1, <2>2 DEF TypeOK, Workers
<1> QED
  BY <1>3, <1>7 DEF TypeInv, WorkerHasPolicy

\* A write leaves a policy, and a worker with the policy it has.
LEMMA StoreType ==
  ASSUME TypeInv, NEW p \in Policies, NEW object \in Objects, Store(p, object),
         object.phase \in {"live", "deleting"} => object.finalizer,
         edits' \in [Policies -> 0 .. MaxEdits],
         UNCHANGED << config, webhook, defaultServer, policyCache, webhookCache, queue, faults >>
  PROVE  TypeInv'
<1>1. /\ policy' \in [Policies -> Objects] /\ synced' \in [Policies -> BOOLEAN]
      /\ \A q \in Policies : policy'[q].phase \in {"live", "deleting"} => policy'[q].finalizer
  BY DEF Store, TypeInv, TypeOK
<1>2. \A c \in Controllers :
        /\ worker'[c] \in Workers /\ worker'[c].pc = worker[c].pc
        /\ worker'[c].policy = worker[c].policy /\ worker'[c].seen = worker[c].seen
  BY DEF Store, TypeInv, TypeOK, Workers
<1>3. worker' \in [Controllers -> Workers]
  BY <1>2 DEF Store
<1>4. TypeOK'
  BY <1>1, <1>3 DEF TypeInv, TypeOK, Workers
<1> QED
  BY <1>2, <1>4 DEF TypeInv, WorkerHasPolicy

LEMMA UsersType ==
  ASSUME TypeInv, NEW p \in Policies, CreatePolicy(p) \/ UpdatePolicy(p) \/ DeletePolicy(p)
  PROVE  TypeInv'
<1>1. /\ edits' \in [Policies -> 0 .. MaxEdits]
      /\ UNCHANGED << config, webhook, defaultServer, policyCache, webhookCache, queue, faults >>
  <2>1. CASE CreatePolicy(p) \/ DeletePolicy(p)
    BY <2>1 DEF CreatePolicy, DeletePolicy, TypeInv, TypeOK
  <2>2. CASE UpdatePolicy(p)
    <3>1. /\ edits' = [edits EXCEPT ![p] = @ + 1] /\ edits[p] < MaxEdits
          /\ UNCHANGED << config, webhook, defaultServer, policyCache, webhookCache, queue, faults >>
      BY <2>2 DEF UpdatePolicy
    <3> QED
      BY <3>1, AdmissionAssumption DEF TypeInv, TypeOK
  <2> QED
    BY <2>1, <2>2
<1>2. CASE CreatePolicy(p)
  <2>1. PICK request \in Requests("live") : Store(p, Default(request))
    BY <1>2 DEF CreatePolicy
  <2>2. PICK new \in Objects : new = Default(request) /\ new.finalizer
    BY RequestType
  <2>3. Store(p, new)
    BY <2>1, <2>2
  <2> QED
    BY <1>1, <2>2, <2>3, StoreType
<1>3. CASE UpdatePolicy(p)
  <2>1. PICK request \in Requests(policy[p].phase) : Store(p, Stored(Default(request)))
    BY <1>3 DEF UpdatePolicy
  <2>2. policy[p].phase \in {"live", "deleting"}
    BY <1>3 DEF UpdatePolicy, Exists
  <2>3. PICK new \in Objects : /\ new = Stored(Default(request))
                               /\ new.phase \in {"live", "deleting"} => new.finalizer
    BY <2>2, RequestType
  <2>4. Store(p, new)
    BY <2>1, <2>3
  <2> QED
    BY <1>1, <2>3, <2>4, StoreType
<1>4. CASE DeletePolicy(p)
  <2>1. PICK new \in Objects : new = Stored([policy[p] EXCEPT !.phase = "deleting"]) /\ new.finalizer
    BY <1>4, DeletedType DEF DeletePolicy
  <2>2. Store(p, new)
    BY <1>4, <2>1 DEF DeletePolicy
  <2> QED
    BY <1>1, <2>1, <2>2, StoreType
<1> QED
  BY <1>2, <1>3, <1>4

\* The informers, and the ConfigMap.
LEMMA SyncType ==
  ASSUME TypeInv,
         \/ \E p \in Policies : SyncPolicy(p)
         \/ \E s \in Servers : SyncPods(s)
         \/ \E k \in WebhookKinds : SyncWebhooks(k)
  PROVE  TypeInv'
<1>1. CASE \E p \in Policies : SyncPolicy(p)
  BY <1>1 DEF SyncPolicy, TypeInv, TypeOK, WorkerHasPolicy
<1>2. ASSUME NEW k \in WebhookKinds, SyncWebhooks(k) PROVE TypeInv'
  BY <1>2 DEF SyncWebhooks, TypeInv, TypeOK, WorkerHasPolicy
<1>3. ASSUME NEW s \in Servers, SyncPods(s) PROVE TypeInv'
  <2>1. \A n \in Names : config[s][n] # None => config[s][n].policy \in Policies
    BY DEF TypeInv, TypeOK, Entries
  <2>2. queue' \subseteq Policies
    BY <1>3, <2>1 DEF SyncPods, TypeInv, TypeOK
  <2> QED
    BY <1>3, <2>2 DEF SyncPods, TypeInv, TypeOK, WorkerHasPolicy
<1> QED
  BY <1>1, <1>2, <1>3

\* An entry is made from what the cache has.
LEMMA MapsType ==
  ASSUME TypeInv, NEW s \in Servers, NEW m \in PolicyMaps(s)
  PROVE  /\ m \in [Names -> Entries \cup {None}]
         /\ \A n \in Names : m[n] # None =>
               \E p \in Policies : /\ m[n] = [policy |-> p, mode |-> policyCache[p].mode,
                                              mutating |-> policyCache[p].mutating]
                                   /\ policyCache[p].phase = "live" /\ GetUniqueName(p) = n
<1>1. \A p \in Policies : [policy |-> p, mode |-> policyCache[p].mode,
                           mutating |-> policyCache[p].mutating] \in Entries
  BY DEF TypeInv, TypeOK, Objects, Entries
<1>2. \A n \in Names : m[n] # None =>
         \E p \in Policies : /\ m[n] = [policy |-> p, mode |-> policyCache[p].mode,
                                        mutating |-> policyCache[p].mutating]
                             /\ policyCache[p].phase = "live" /\ GetUniqueName(p) = n
  BY DEF PolicyMaps
<1>3. m = [n \in Names |-> m[n]]
  BY DEF PolicyMaps
<1> QED
  BY <1>1, <1>2, <1>3

LEMMA ConfigMapType ==
  ASSUME TypeInv, NEW s \in Servers, ReconcileConfigMap(s) PROVE TypeInv'
<1>1. config' \in [Servers -> [Names -> Entries \cup {None}]]
  BY MapsType DEF ReconcileConfigMap, TypeInv, TypeOK
<1> QED
  BY <1>1 DEF ReconcileConfigMap, TypeInv, TypeOK, WorkerHasPolicy

\* The policy controllers.
LEMMA FaultType ==
  ASSUME TypeInv, Fault \/ UNCHANGED faults PROVE faults' \in 0 .. MaxFaults
  BY AdmissionAssumption DEF Fault, TypeInv, TypeOK

\* One worker takes a step; the policies and the informers are as they were.
LEMMA WorkerType ==
  ASSUME TypeInv, NEW c \in Controllers, NEW w \in Workers, worker' = [worker EXCEPT ![c] = w],
         w.pc # "idle" => /\ w.policy \in Policies /\ Controller(w.policy) = c
                          /\ w.pc \in {"configMap", "webhook"} => w.seen.server \in Servers
                          /\ w.pc \in {"deleteWebhook", "removeFinalizer"} => w.seen.phase = "deleting",
         policy' \in [Policies -> Objects],
         \A p \in Policies : policy'[p].phase \in {"live", "deleting"} => policy'[p].finalizer,
         webhook' \in [WebhookKinds -> [Names -> Webhooks \cup {None}]],
         synced' \in [Policies -> BOOLEAN], queue' \subseteq Policies, faults' \in 0 .. MaxFaults,
         UNCHANGED << edits, config, defaultServer, policyCache, webhookCache >>
  PROVE  TypeInv'
<1>1. worker \in [Controllers -> Workers]
  BY DEF TypeInv, TypeOK, Workers
<1>2. worker' \in [Controllers -> Workers]
  BY <1>1
<1>3. TypeOK'
  BY <1>2 DEF TypeInv, TypeOK, Workers
<1>4. WorkerHasPolicy'
  BY <1>1 DEF TypeInv, WorkerHasPolicy
<1> QED
  BY <1>3, <1>4 DEF TypeInv

LEMMA StartType ==
  ASSUME TypeInv, NEW p \in Policies, StartReconcile(p) PROVE TypeInv'
<1> DEFINE c == Controller(p)
           seen == policy[p]
           w == [pc |-> IF seen.phase = "live" THEN "configMap" ELSE "deleteWebhook",
                 policy |-> p, seen |-> seen, fresh |-> TRUE]
<1>1. c \in Controllers /\ seen \in Objects /\ queue' \subseteq Policies
  BY ControllerType DEF StartReconcile, TypeInv, TypeOK
<1>2. w \in Workers
  BY <1>1 DEF TypeInv, TypeOK, Workers
<1>3. \/ UNCHANGED worker
      \/ /\ worker' = [worker EXCEPT ![c] = w]
         /\ ~(seen.phase = "live" /\ seen.server = "") /\ seen.phase \in {"live", "deleting"}
  BY DEF StartReconcile, Exists
<1>4. UNCHANGED << policy, edits, config, webhook, defaultServer, policyCache, synced,
                   webhookCache, faults >>
  BY DEF StartReconcile
<1>5. CASE UNCHANGED worker
  BY <1>1, <1>4, <1>5 DEF TypeInv, TypeOK, WorkerHasPolicy
<1>6. CASE /\ worker' = [worker EXCEPT ![c] = w]
           /\ ~(seen.phase = "live" /\ seen.server = "") /\ seen.phase \in {"live", "deleting"}
  <2>1. /\ w.policy = p /\ (w.pc \in {"configMap", "webhook"} => w.seen.server \in Servers)
        /\ w.pc \in {"deleteWebhook", "removeFinalizer"} => w.seen.phase = "deleting"
    BY <1>1, <1>6 DEF Objects
  <2> HIDE DEF w
  <2> QED
    BY <1>1, <1>2, <1>4, <1>6, <2>1, WorkerType DEF TypeInv, TypeOK
<1> QED
  BY <1>3, <1>5, <1>6

\* A reconcile ends.
LEMMA FinishType ==
  ASSUME TypeInv, NEW c \in Controllers, worker[c].pc # "idle",
         NEW requeue \in BOOLEAN, Finish(c, requeue),
         policy' \in [Policies -> Objects],
         \A p \in Policies : policy'[p].phase \in {"live", "deleting"} => policy'[p].finalizer,
         webhook' \in [WebhookKinds -> [Names -> Webhooks \cup {None}]],
         synced' \in [Policies -> BOOLEAN], faults' \in 0 .. MaxFaults,
         UNCHANGED << edits, config, defaultServer, policyCache, webhookCache >>
  PROVE  TypeInv'
<1>1. queue' \subseteq Policies
  BY DEF Finish, TypeInv, TypeOK, WorkerHasPolicy
<1>2. worker' = [worker EXCEPT ![c] = IdleWorker]
  BY DEF Finish
<1> QED
  BY <1>1, <1>2, IdleType, WorkerType

\* It goes on to its next step.
LEMMA GotoType ==
  ASSUME TypeInv, NEW c \in Controllers, worker[c].pc # "idle",
         NEW pc \in {"webhook", "removeFinalizer"}, Goto(c, pc),
         IF pc = "webhook" THEN worker[c].pc = "configMap" ELSE worker[c].pc = "deleteWebhook",
         webhook' \in [WebhookKinds -> [Names -> Webhooks \cup {None}]],
         UNCHANGED << policy, edits, config, defaultServer, policyCache, synced, webhookCache, faults >>
  PROVE  TypeInv'
<1> DEFINE w == [worker[c] EXCEPT !.pc = pc]
<1>1. worker[c] \in Workers
  BY DEF TypeInv, TypeOK, Workers
<1>2. /\ w \in Workers /\ w.pc = pc /\ w.policy = worker[c].policy /\ w.seen = worker[c].seen
  BY <1>1 DEF Workers
<1>3. worker' = [worker EXCEPT ![c] = w] /\ UNCHANGED queue
  BY DEF Goto
<1> HIDE DEF w
<1>4. /\ w.policy \in Policies /\ Controller(w.policy) = c
      /\ w.pc \in {"configMap", "webhook"} => w.seen.server \in Servers
      /\ w.pc \in {"deleteWebhook", "removeFinalizer"} => w.seen.phase = "deleting"
  BY <1>2 DEF TypeInv, WorkerHasPolicy
<1> QED
  BY <1>2, <1>3, <1>4, WorkerType DEF TypeInv, TypeOK

\* What a reconcile leaves of the webhooks.
LEMMA WebhookType ==
  ASSUME TypeInv, NEW c \in Controllers, worker[c].pc # "idle"
  PROVE  LET k   == WebhookKind(worker[c].seen)
             n   == GetUniqueName(worker[c].policy)
             new == webhookConfiguration(worker[c].policy, worker[c].seen)
             All == [WebhookKinds -> [Names -> Webhooks \cup {None}]]
         IN  /\ worker[c].pc = "webhook" =>
                   [webhook EXCEPT ![k][n] = ReconciledWebhook(k, n, new)] \in All
             /\ [webhook EXCEPT ![k][n] = None] \in All
<1> DEFINE k   == WebhookKind(worker[c].seen)
           n   == GetUniqueName(worker[c].policy)
           new == webhookConfiguration(worker[c].policy, worker[c].seen)
<1>1. worker[c].policy \in Policies /\ worker[c].seen \in Objects
  BY DEF TypeInv, TypeOK, WorkerHasPolicy
<1>2. k \in WebhookKinds /\ n \in Names
  BY <1>1, KindType, NameType
<1>3. worker[c].pc = "webhook" => new \in Webhooks
  BY <1>1 DEF webhookConfiguration, Webhooks, TypeInv, WorkerHasPolicy
<1>4. webhook \in [WebhookKinds -> [Names -> Webhooks \cup {None}]]
  BY DEF TypeInv, TypeOK
<1> HIDE DEF k, n, new
<1>5. ReconciledWebhook(k, n, new) \in {new, webhook[k][n]}
  BY DEF ReconciledWebhook
<1>6. worker[c].pc = "webhook" => ReconciledWebhook(k, n, new) \in Webhooks \cup {None}
  BY <1>2, <1>3, <1>4, <1>5
<1> QED
  BY <1>2, <1>4, <1>6 DEF k, n, new

LEMMA ReconcileType ==
  ASSUME TypeInv, NEW c \in Controllers, CheckReachable(c) \/ ReconcileWebhook(c) \/ DeleteWebhook(c)
  PROVE  TypeInv'
<1>1. CASE CheckReachable(c)
  <2>1. /\ worker[c].pc = "configMap" /\ worker[c].pc # "idle"
        /\ Finish(c, TRUE) \/ Goto(c, "webhook")
        /\ UNCHANGED << policy, edits, config, webhook, defaultServer, policyCache, synced,
                        webhookCache, faults >>
    BY <1>1 DEF CheckReachable
  <2>2. CASE Finish(c, TRUE)
    BY <2>1, <2>2, FinishType DEF TypeInv, TypeOK
  <2>3. CASE Goto(c, "webhook")
    BY <2>1, <2>3, GotoType DEF TypeInv, TypeOK
  <2> QED
    BY <2>1, <2>2, <2>3
<1>2. CASE ReconcileWebhook(c)
  <2>1. worker[c].pc = "webhook" /\ worker[c].pc # "idle"
    BY <1>2 DEF ReconcileWebhook
  <2>2. webhook' \in [WebhookKinds -> [Names -> Webhooks \cup {None}]]
    BY <1>2, <2>1, WebhookType DEF ReconcileWebhook
  <2>3. PICK requeue \in BOOLEAN : Finish(c, requeue)
    <3>1. worker[c].fresh \in BOOLEAN
      BY DEF TypeInv, TypeOK
    <3> QED
      BY <1>2, <3>1 DEF ReconcileWebhook
  <2>4. UNCHANGED << policy, edits, config, defaultServer, policyCache, synced, webhookCache,
                     faults >>
    BY <1>2 DEF ReconcileWebhook
  <2> QED
    BY <2>1, <2>2, <2>3, <2>4, FinishType DEF TypeInv, TypeOK
<1>3. CASE DeleteWebhook(c)
  <2>1. worker[c].pc = "deleteWebhook" /\ worker[c].pc # "idle" /\ Goto(c, "removeFinalizer")
    BY <1>3 DEF DeleteWebhook
  <2>2. webhook' \in [WebhookKinds -> [Names -> Webhooks \cup {None}]]
    BY <1>3, <2>1, WebhookType DEF DeleteWebhook, TypeInv, TypeOK
  <2>3. UNCHANGED << policy, edits, config, defaultServer, policyCache, synced, webhookCache,
                     faults >>
    BY <1>3 DEF DeleteWebhook
  <2> QED
    BY <2>1, <2>2, <2>3, GotoType
<1> QED
  BY <1>1, <1>2, <1>3

\* The update without the finalizer leaves a policy that has one, or is gone.
RemovedFrom(c) == Default([worker[c].seen EXCEPT !.finalizer = FALSE])

LEMMA RemovedType ==
  ASSUME TypeInv, NEW c \in Controllers, worker[c].pc = "removeFinalizer"
  PROVE  /\ Stored(RemovedFrom(c)) \in Objects
         /\ Stored(RemovedFrom(c)).phase \in {"deleting", "gone"}
         /\ Stored(RemovedFrom(c)).phase = "deleting" => Stored(RemovedFrom(c)).finalizer
         /\ Stored(RemovedFrom(c)).mode = RemovedFrom(c).mode
<1>1. worker[c].seen \in Objects /\ worker[c].seen.phase = "deleting"
  BY DEF TypeInv, TypeOK, WorkerHasPolicy
<1>2. /\ [worker[c].seen EXCEPT !.finalizer = FALSE] \in Objects
      /\ [worker[c].seen EXCEPT !.finalizer = FALSE].phase = "deleting"
  BY <1>1 DEF Objects
<1>3. PICK new \in Objects : new = RemovedFrom(c) /\ new.phase = "deleting"
  BY <1>2, DefaultType DEF RemovedFrom
<1> QED
  BY <1>3, StoredType

\* It is refused, or it is one step of the policy.
LEMMA RemovesOrNot ==
  ASSUME TypeInv, NEW c \in Controllers, RemoveFinalizer(c)
  PROVE  \/ UNCHANGED << policy, synced >>
         \/ /\ Accepted(c, RemovedFrom(c))
            /\ policy' = [policy EXCEPT ![worker[c].policy] = Stored(RemovedFrom(c))]
            /\ synced' = [synced EXCEPT ![worker[c].policy] = FALSE]
  BY DEF RemoveFinalizer, RemovedFrom

LEMMA RemoveFinalizerType ==
  ASSUME TypeInv, NEW c \in Controllers, RemoveFinalizer(c) PROVE TypeInv'
<1>1. /\ worker[c].pc = "removeFinalizer" /\ worker[c].pc # "idle"
      /\ UNCHANGED << edits, config, webhook, defaultServer, policyCache, webhookCache, faults >>
  BY DEF RemoveFinalizer
<1>2. PICK requeue \in BOOLEAN : Finish(c, requeue)
  <2>1. Finish(c, ~Accepted(c, RemovedFrom(c)))
    BY DEF RemoveFinalizer, RemovedFrom
  <2>2. Finish(c, TRUE) \/ Finish(c, FALSE)
    BY <2>1 DEF Finish
  <2> QED
    BY <2>2
<1>3. /\ policy' \in [Policies -> Objects] /\ synced' \in [Policies -> BOOLEAN]
      /\ \A p \in Policies : policy'[p].phase \in {"live", "deleting"} => policy'[p].finalizer
  <2> DEFINE p == worker[c].policy
             removed == Stored(RemovedFrom(c))
  <2>1. /\ p \in Policies
        /\ removed \in Objects /\ removed.phase \in {"deleting", "gone"}
        /\ removed.phase = "deleting" => removed.finalizer
    BY <1>1, RemovedType DEF TypeInv, WorkerHasPolicy
  <2>2. \/ UNCHANGED << policy, synced >>
        \/ /\ policy' = [policy EXCEPT ![p] = removed]
           /\ synced' = [synced EXCEPT ![p] = FALSE]
    BY RemovesOrNot
  <2>3. /\ policy \in [Policies -> Objects] /\ synced \in [Policies -> BOOLEAN]
        /\ \A q \in Policies : policy[q].phase \in {"live", "deleting"} => policy[q].finalizer
    BY DEF TypeInv, TypeOK
  <2> HIDE DEF p, removed
  <2> QED
    BY <2>1, <2>2, <2>3
<1>4. /\ webhook' \in [WebhookKinds -> [Names -> Webhooks \cup {None}]]
      /\ faults' \in 0 .. MaxFaults
      /\ UNCHANGED << edits, config, defaultServer, policyCache, webhookCache >>
  BY <1>1 DEF TypeInv, TypeOK
<1> QED
  BY <1>1, <1>2, <1>3, <1>4, FinishType

LEMMA ApiErrorType ==
  ASSUME TypeInv, NEW c \in Controllers, ApiError(c) PROVE TypeInv'
<1>1. /\ worker[c].pc # "idle" /\ Finish(c, TRUE)
      /\ UNCHANGED << policy, edits, config, defaultServer, policyCache, synced, webhookCache >>
  BY DEF ApiError
<1>2. faults' \in 0 .. MaxFaults
  BY FaultType DEF ApiError
<1>3. webhook' \in [WebhookKinds -> [Names -> Webhooks \cup {None}]]
  <2> DEFINE k == WebhookKind(worker[c].seen)
             n == GetUniqueName(worker[c].policy)
             written == ReconciledWebhook(k, n, webhookConfiguration(worker[c].policy, worker[c].seen))
  <2>1. \/ webhook' \in {webhook, [webhook EXCEPT ![k][n] = None]}
        \/ worker[c].pc = "webhook" /\ webhook' = [webhook EXCEPT ![k][n] = written]
    BY DEF ApiError
  <2> HIDE DEF k, n, written
  <2>2. worker[c].pc = "webhook" =>
          [webhook EXCEPT ![k][n] = written] \in [WebhookKinds -> [Names -> Webhooks \cup {None}]]
    BY <1>1, WebhookType DEF k, n, written
  <2>3. [webhook EXCEPT ![k][n] = None] \in [WebhookKinds -> [Names -> Webhooks \cup {None}]]
    BY <1>1, WebhookType DEF k, n
  <2> QED
    BY <2>1, <2>2, <2>3 DEF TypeInv, TypeOK
<1>4. /\ policy' \in [Policies -> Objects] /\ synced' \in [Policies -> BOOLEAN]
      /\ \A p \in Policies : policy'[p].phase \in {"live", "deleting"} => policy'[p].finalizer
  BY <1>1 DEF TypeInv, TypeOK
<1> QED
  BY <1>1, <1>2, <1>3, <1>4, FinishType

LEMMA RestartType ==
  ASSUME TypeInv, Restart PROVE TypeInv'
<1>1. worker' \in [Controllers -> Workers] /\ \A c \in Controllers : worker'[c].pc = "idle"
  BY IdleType DEF Restart
<1>2. faults' \in 0 .. MaxFaults
  BY FaultType DEF Restart
<1>3. TypeOK'
  BY <1>1, <1>2 DEF Restart, TypeInv, TypeOK, Workers
<1>4. WorkerHasPolicy'
  BY <1>1 DEF WorkerHasPolicy
<1> QED
  BY <1>3, <1>4 DEF TypeInv

LEMMA StepType ==
  ASSUME TypeInv, [Next]_vars PROVE TypeInv'
<1>1. CASE UNCHANGED vars
  BY <1>1 DEF vars, TypeInv, TypeOK, WorkerHasPolicy
<1>2. ASSUME NEW c \in Controllers, ReconcilePolicy(c) PROVE TypeInv'
  BY <1>2, StartType, ReconcileType, RemoveFinalizerType DEF ReconcilePolicy
<1> QED
  BY <1>1, <1>2, UsersType, SyncType, ConfigMapType, ApiErrorType, RestartType DEF Next

\* Every variable has its type, and a policy that exists has the finalizer.
THEOREM AdmissionTypeCorrect == Spec => []TypeOK
<1>1. TypeInv => TypeOK
  BY DEF TypeInv
<1> QED
  BY <1>1, InitType, StepType, PTL DEF Spec

\* Where an entry enforces, the cache enforces; where the cache enforces, the policy does.
EntriesFollowCache ==
    \A s \in Servers, n \in Names :
        config[s][n] # None /\ config[s][n].mode = "protect" =>
            LET p == config[s][n].policy IN
            p \in Policies /\ policyCache[p].phase # "absent" /\ policyCache[p].mode = "protect"

CacheFollowsPolicy ==
    \A p \in Policies : policyCache[p].phase # "absent" =>
        /\ policy[p].phase # "absent"
        /\ policyCache[p].mode = "protect" => policy[p].mode = "protect"

ModeInv == EntriesFollowCache /\ CacheFollowsPolicy

LEMMA InitMode == Init => ModeInv
<1> SUFFICES ASSUME Init PROVE ModeInv
  OBVIOUS
<1>1. \A s \in Servers, n \in Names : config[s][n] = None
  BY DEF Init
<1>2. \A p \in Policies : policyCache[p].phase = "absent"
  BY DEF Init, NoPolicy
<1> QED
  BY <1>1, <1>2 DEF ModeInv, EntriesFollowCache, CacheFollowsPolicy

LEMMA EntryMeans ==
  ASSUME TypeInv, NEW s \in Servers, NEW m \in PolicyMaps(s), NEW n \in Names, m[n] # None
  PROVE  /\ m[n].policy \in Policies /\ policyCache[m[n].policy].phase = "live"
         /\ m[n].mode = policyCache[m[n].policy].mode
         /\ GetUniqueName(m[n].policy) = n
<1>1. PICK p \in Policies : /\ m[n] = [policy |-> p, mode |-> policyCache[p].mode,
                                       mutating |-> policyCache[p].mutating]
                            /\ policyCache[p].phase = "live" /\ GetUniqueName(p) = n
  BY MapsType
<1>2. m[n].policy = p /\ m[n].mode = policyCache[p].mode
  BY <1>1
<1> QED
  BY <1>1, <1>2

\* A policy is written in one step; a mode that enforces stays.
LEMMA WriteMode ==
  ASSUME TypeInv, ModeInv, NEW p \in Policies, NEW object \in Objects,
         policy' = [policy EXCEPT ![p] = object],
         \/ policy[p].phase = "absent"
         \/ /\ object.phase # "absent"
            /\ policy[p].mode = "protect" => object.mode = "protect",
         UNCHANGED << config, policyCache >>
  PROVE  ModeInv'
<1>1. CacheFollowsPolicy'
  BY DEF ModeInv, CacheFollowsPolicy, TypeInv, TypeOK
<1> QED
  BY <1>1 DEF ModeInv, EntriesFollowCache

LEMMA UsersMode ==
  ASSUME TypeInv, ModeInv, NEW p \in Policies,
         CreatePolicy(p) \/ UpdatePolicy(p) \/ DeletePolicy(p)
  PROVE  ModeInv'
<1>1. UNCHANGED << config, policyCache >>
  BY DEF CreatePolicy, UpdatePolicy, DeletePolicy
<1>3. CASE CreatePolicy(p)
  <2>1. PICK request \in Requests("live") : policy' = [policy EXCEPT ![p] = Default(request)]
    BY <1>3 DEF CreatePolicy, Store
  <2>2. Default(request) \in Objects /\ policy[p].phase = "absent"
    BY <1>3, RequestType DEF CreatePolicy
  <2> QED
    BY <1>1, <2>1, <2>2, WriteMode
<1>4. CASE UpdatePolicy(p)
  <2>1. PICK request \in Requests(policy[p].phase) :
          /\ policy' = [policy EXCEPT ![p] = Stored(Default(request))]
          /\ validatePolicyUpdate(policy[p], Default(request))
    BY <1>4 DEF UpdatePolicy, Store
  <2>2. PICK new \in Objects : /\ new = Stored(Default(request)) /\ new.phase # "absent"
                               /\ new.mode = Default(request).mode
    BY <1>4, RequestType DEF UpdatePolicy, Exists
  <2>3. policy[p].mode = "protect" => new.mode = "protect"
    BY <2>1, <2>2 DEF validatePolicyUpdate, Objects
  <2> QED
    BY <1>1, <2>1, <2>2, <2>3, WriteMode
<1>5. CASE DeletePolicy(p)
  <2>1. PICK new \in Objects : /\ new = Stored([policy[p] EXCEPT !.phase = "deleting"])
                               /\ new.phase # "absent" /\ new.mode = policy[p].mode
    BY <1>5, DeletedType DEF DeletePolicy
  <2>2. policy' = [policy EXCEPT ![p] = new]
    BY <1>5, <2>1 DEF DeletePolicy, Store
  <2> QED
    BY <1>1, <2>1, <2>2, WriteMode
<1> QED
  BY <1>3, <1>4, <1>5

LEMMA ConfigMapMode ==
  ASSUME TypeInv, ModeInv, NEW s \in Servers, ReconcileConfigMap(s) PROVE ModeInv'
<1>1. PICK m \in PolicyMaps(s) : config' = [config EXCEPT ![s] = m]
  BY DEF ReconcileConfigMap
<1>2. UNCHANGED << policy, policyCache >>
  BY DEF ReconcileConfigMap
<1>3. ASSUME NEW n \in Names, m[n] # None, m[n].mode = "protect"
      PROVE  /\ m[n].policy \in Policies /\ policyCache[m[n].policy].phase # "absent"
             /\ policyCache[m[n].policy].mode = "protect"
  BY <1>3, EntryMeans
<1>4. EntriesFollowCache'
  BY <1>1, <1>2, <1>3 DEF ModeInv, EntriesFollowCache, TypeInv, TypeOK
<1> QED
  BY <1>2, <1>4 DEF ModeInv, CacheFollowsPolicy

LEMMA RemoveFinalizerMode ==
  ASSUME TypeInv, ModeInv, NEW c \in Controllers, RemoveFinalizer(c) PROVE ModeInv'
<1>1. /\ worker[c].pc = "removeFinalizer" /\ worker[c].policy \in Policies
      /\ UNCHANGED << config, policyCache >>
  BY DEF RemoveFinalizer, TypeInv, WorkerHasPolicy
<1>2. CASE UNCHANGED policy
  BY <1>1, <1>2 DEF ModeInv, EntriesFollowCache, CacheFollowsPolicy
<1>3. CASE /\ Accepted(c, RemovedFrom(c))
           /\ policy' = [policy EXCEPT ![worker[c].policy] = Stored(RemovedFrom(c))]
  <2>1. PICK new \in Objects : /\ new = Stored(RemovedFrom(c)) /\ new.phase # "absent"
                               /\ new.mode = RemovedFrom(c).mode
    BY <1>1, RemovedType
  <2>2. policy[worker[c].policy].mode = "protect" => new.mode = "protect"
    BY <1>3, <2>1 DEF Accepted, validatePolicyUpdate, Objects
  <2> QED
    BY <1>1, <1>3, <2>1, <2>2, WriteMode
<1> QED
  BY <1>2, <1>3, RemovesOrNot

LEMMA StepMode ==
  ASSUME TypeInv, ModeInv, [Next]_vars PROVE ModeInv'
<1>1. ASSUME UNCHANGED << policy, config, policyCache >> PROVE ModeInv'
  BY <1>1 DEF ModeInv, EntriesFollowCache, CacheFollowsPolicy
<1>2. ASSUME NEW p \in Policies, SyncPolicy(p) PROVE ModeInv'
  <2>1. /\ UNCHANGED << policy, config >>
        /\ policyCache' = [policyCache EXCEPT ![p] = policy[p]]
    BY <1>2 DEF SyncPolicy
  <2>2. CacheFollowsPolicy' /\ EntriesFollowCache'
    BY <2>1 DEF ModeInv, CacheFollowsPolicy, EntriesFollowCache, TypeInv, TypeOK
  <2> QED
    BY <2>2 DEF ModeInv
<1>3. CASE Restart
  <2>1. policyCache' = policy /\ UNCHANGED << policy, config >>
    BY <1>3 DEF Restart
  <2> QED
    BY <2>1 DEF ModeInv, CacheFollowsPolicy, EntriesFollowCache
<1>4. ASSUME NEW c \in Controllers, ReconcilePolicy(c) \/ ApiError(c) PROVE ModeInv'
  BY <1>1, <1>4, RemoveFinalizerMode DEF ReconcilePolicy, StartReconcile, CheckReachable,
     ReconcileWebhook, DeleteWebhook, ApiError
<1> QED
  BY <1>1, <1>2, <1>3, <1>4, UsersMode, ConfigMapMode DEF Next, SyncPods, SyncWebhooks, vars

Strengthens(s, n) ==
    config[s][n] # None /\ config'[s][n] # None =>
       ~ /\ config[s][n].policy = config'[s][n].policy
         /\ config[s][n].mode = "protect" /\ config'[s][n].mode = "monitor"

LEMMA StepStrengthens ==
  ASSUME TypeInv, ModeInv, [Next]_vars, NEW s \in Servers, NEW n \in Names
  PROVE  Strengthens(s, n)
<1>1. CASE UNCHANGED config
  BY <1>1 DEF Strengthens
<1>2. ASSUME NEW x \in Servers, ReconcileConfigMap(x) PROVE Strengthens(s, n)
  <2>1. PICK m \in PolicyMaps(x) : config' = [config EXCEPT ![x] = m]
    BY <1>2 DEF ReconcileConfigMap
  <2>2. CASE s # x
    BY <2>1, <2>2 DEF Strengthens, TypeInv, TypeOK
  <2>3. CASE s = x
    <3>1. config'[s][n] = m[n]
      BY <2>1, <2>3 DEF TypeInv, TypeOK
    <3>2. m[n] # None => m[n].mode = policyCache[m[n].policy].mode
      BY <2>3, EntryMeans
    <3>3. config[s][n] # None /\ config[s][n].mode = "protect" =>
             policyCache[config[s][n].policy].mode = "protect"
      BY DEF ModeInv, EntriesFollowCache
    <3> QED
      BY <3>1, <3>2, <3>3 DEF Strengthens
  <2> QED
    BY <2>2, <2>3
<1>3. UNCHANGED config \/ \E x \in Servers : ReconcileConfigMap(x)
  BY DEF Next, CreatePolicy, UpdatePolicy, DeletePolicy, SyncPolicy, SyncPods, SyncWebhooks,
     ReconcilePolicy, StartReconcile, CheckReachable, ReconcileWebhook, DeleteWebhook, RemoveFinalizer, ApiError,
     Restart, vars
<1> QED
  BY <1>1, <1>2, <1>3

\* Once the pods are told to enforce a policy they are never told only to monitor it.
THEOREM EnforcementStays == Spec => EnforcementNeverWeakens
<1>1. TypeInv /\ ModeInv /\ [Next]_vars =>
        [\A s \in Servers, n \in Names :
          config[s][n] # None /\ config'[s][n] # None =>
             ~ /\ config[s][n].policy = config'[s][n].policy
               /\ config[s][n].mode = "protect" /\ config'[s][n].mode = "monitor"]_vars
  BY StepStrengthens DEF Strengthens
<1> QED
  BY <1>1, InitType, StepType, InitMode, StepMode, PTL DEF Spec, EnforcementNeverWeakens

-----------------------------------------------------------------------------
(* No attempt is lost: ProgressInv is an invariant, on top of the types.    *)

Right(p) ==
    policy[p].phase = "live" /\ policy[p].server # "" =>
        webhook[WebhookKind(policy[p])][GetUniqueName(p)] = webhookConfiguration(p, policy[p])

\* p is at rest only when it may be.
Going(p) ==
    /\ policy[p].phase = "deleting" => UnderWay(p)
    /\ NamesApart => UnderWay(p) \/ Right(p)

Follows ==
    /\ OnlyCreated
    /\ WorkerSees
    /\ \A p \in Policies : Going(p)

LEMMA ProgressParts == ProgressInv <=> Follows /\ WebhooksAreOwn /\ CleanedUp
  BY DEF ProgressInv, Follows, Going, PolicyDeletionIsUnderWay, RestMeansRegistered, Right, WebhookKind

\* Nothing was created, and nothing is under way.
LEMMA InitProgress == Init => ProgressInv
<1> SUFFICES ASSUME Init PROVE ProgressInv
  OBVIOUS
<1>1. /\ \A p \in Policies : policy[p].phase = "absent" /\ policyCache[p].phase = "absent" /\ synced[p]
      /\ queue = {} /\ \A s \in Servers, n \in Names : config[s][n] = None
  BY DEF Init, NoPolicy
<1>2. \A c \in Controllers : worker[c].pc = "idle"
  BY IdleType DEF Init
<1>3. \A k \in WebhookKinds, n \in Names : webhook[k][n] = None /\ webhookCache[k][n] = None
  BY DEF Init, NoWebhooks
<1>4. OnlyCreated /\ WorkerSees
  BY <1>1, <1>2 DEF OnlyCreated, WorkerSees
<1>5. \A p \in Policies : Going(p)
  BY <1>1 DEF Going, Right
<1>6. WebhooksAreOwn
  BY <1>3, NameType DEF WebhooksAreOwn
<1>7. CleanedUp
  BY <1>2 DEF CleanedUp
<1> QED
  BY <1>4, <1>5, <1>6, <1>7, ProgressParts DEF Follows

\* The webhook of a policy depends on its PolicyServer alone.
LEMMA SameWebhook ==
  ASSUME NEW p \in Policies, NEW a, NEW b, a.server = b.server
  PROVE  webhookConfiguration(p, a) = webhookConfiguration(p, b)
  BY DEF webhookConfiguration

LEMMA OwnFrame ==
  ASSUME WebhooksAreOwn, UNCHANGED webhook,
         \A k \in WebhookKinds : webhookCache'[k] \in {webhookCache[k], webhook[k]},
         \A p \in Policies : policy[p].phase # "absent" =>
            policy'[p].phase # "absent" /\ policy'[p].server = policy[p].server
  PROVE  WebhooksAreOwn'
<1> SUFFICES ASSUME NamesApart, NEW p \in Policies, NEW k \in WebhookKinds, NEW w, w # None,
                    \/ w = webhook[k][GetUniqueName(p)]
                    \/ w = webhookCache[k][GetUniqueName(p)]
             PROVE  policy'[p].phase # "absent" /\ w = webhookConfiguration(p, policy'[p])
  BY DEF WebhooksAreOwn, NamesApart
<1>1. policy[p].phase # "absent" /\ w = webhookConfiguration(p, policy[p])
  BY DEF WebhooksAreOwn
<1> QED
  BY <1>1, SameWebhook

\* Users: the event of the write is still to come.
LEMMA StoreProgress ==
  ASSUME TypeInv, Follows, WebhooksAreOwn, NEW p \in Policies, NEW object \in Objects,
         Store(p, object), object.phase # "absent",
         \/ policy[p].phase = "absent"
         \/ /\ object.server = policy[p].server
            /\ policy[p].phase \in {"deleting", "gone"} => object.phase \in {"deleting", "gone"},
         UNCHANGED << config, webhook, policyCache, webhookCache, queue >>
  PROVE  Follows' /\ WebhooksAreOwn'
<1>1. /\ policy'[p] = object /\ \A q \in Policies \ {p} : policy'[q] = policy[q]
      /\ ~synced'[p] /\ \A q \in Policies \ {p} : synced'[q] = synced[q]
  BY DEF Store, TypeInv, TypeOK
<1>2. \A c \in Controllers :
        /\ worker'[c].pc = worker[c].pc /\ worker'[c].policy = worker[c].policy
        /\ worker'[c].seen = worker[c].seen
        /\ worker'[c].fresh => worker[c].fresh /\ worker[c].policy # p
  BY DEF Store, TypeInv, TypeOK
<1>3. OnlyCreated'
  BY <1>1 DEF Follows, OnlyCreated
<1>4. WorkerSees'
  <2> SUFFICES ASSUME NEW c \in Controllers, worker[c].pc # "idle",
                      NEW q \in Policies, q = worker[c].policy
               PROVE  /\ policy'[q].phase # "absent" /\ worker[c].seen.server = policy'[q].server
                      /\ worker[c].pc \in {"configMap", "webhook"} => worker[c].seen.phase = "live"
                      /\ worker[c].pc \in {"deleteWebhook", "removeFinalizer"} =>
                            /\ worker[c].seen.phase = "deleting"
                            /\ policy'[q].phase \in {"deleting", "gone"}
                      /\ worker'[c].fresh => worker[c].seen = policy'[q]
    BY <1>2 DEF WorkerSees, TypeInv, WorkerHasPolicy
  <2>1. /\ policy[q].phase # "absent" /\ worker[c].seen.server = policy[q].server
        /\ worker[c].pc \in {"configMap", "webhook"} => worker[c].seen.phase = "live"
        /\ worker[c].pc \in {"deleteWebhook", "removeFinalizer"} =>
              worker[c].seen.phase = "deleting" /\ policy[q].phase \in {"deleting", "gone"}
        /\ worker[c].fresh => worker[c].seen = policy[q]
    BY DEF Follows, WorkerSees
  <2>2. CASE q = p
    BY <1>1, <1>2, <2>1, <2>2
  <2>3. CASE q # p
    BY <1>1, <1>2, <2>1, <2>3
  <2> QED
    BY <2>2, <2>3
<1>5. \A q \in Policies : UnderWay(q) => UnderWay(q)'
  BY <1>1, <1>2, ControllerType DEF UnderWay
<1>6. UnderWay(p)'
  BY <1>1 DEF UnderWay
<1>7. \A q \in Policies : Going(q)'
  <2>1. Going(p)'
    BY <1>6 DEF Going
  <2>2. ASSUME NEW q \in Policies \ {p} PROVE Going(q)'
    <3>1. Right(q) => Right(q)'
      BY <1>1, <2>2 DEF Right
    <3> QED
      BY <1>1, <1>5, <2>2, <3>1 DEF Follows, Going, NamesApart
  <2> QED
    BY <2>1, <2>2
<1>8. \A q \in Policies : policy[q].phase # "absent" =>
         policy'[q].phase # "absent" /\ policy'[q].server = policy[q].server
  BY <1>1
<1> QED
  BY <1>3, <1>4, <1>7, <1>8, OwnFrame DEF Follows

LEMMA UsersProgress ==
  ASSUME TypeInv, Follows, WebhooksAreOwn, NEW p \in Policies,
         CreatePolicy(p) \/ UpdatePolicy(p) \/ DeletePolicy(p)
  PROVE  Follows' /\ WebhooksAreOwn'
<1>1. UNCHANGED << config, webhook, policyCache, webhookCache, queue >>
  BY DEF CreatePolicy, UpdatePolicy, DeletePolicy
<1>2. CASE CreatePolicy(p)
  <2>1. PICK request \in Requests("live") : Store(p, Default(request))
    BY <1>2 DEF CreatePolicy
  <2>2. PICK new \in Objects : new = Default(request) /\ new.phase = "live"
    BY RequestType
  <2>3. Store(p, new) /\ policy[p].phase = "absent"
    BY <1>2, <2>1, <2>2 DEF CreatePolicy
  <2> QED
    BY <1>1, <2>2, <2>3, StoreProgress
<1>3. CASE UpdatePolicy(p)
  <2>1. PICK request \in Requests(policy[p].phase) :
          /\ Store(p, Stored(Default(request)))
          /\ validatePolicyUpdate(policy[p], Default(request))
    BY <1>3 DEF UpdatePolicy
  <2>2. policy[p].phase \in {"live", "deleting"}
    BY <1>3 DEF UpdatePolicy, Exists
  <2>3. PICK new \in Objects : /\ new = Stored(Default(request))
                               /\ new.phase \in {policy[p].phase, "gone"}
                               /\ new.server = Default(request).server
    BY <2>2, RequestType
  <2>4. Store(p, new) /\ new.server = policy[p].server
    BY <2>1, <2>3 DEF validatePolicyUpdate
  <2> QED
    BY <1>1, <2>2, <2>3, <2>4, StoreProgress
<1>4. CASE DeletePolicy(p)
  <2>1. PICK new \in Objects : /\ new = Stored([policy[p] EXCEPT !.phase = "deleting"])
                               /\ new.phase = "deleting" /\ new.server = policy[p].server
    BY <1>4, DeletedType DEF DeletePolicy
  <2>2. Store(p, new)
    BY <1>4, <2>1 DEF DeletePolicy
  <2> QED
    BY <1>1, <2>1, <2>2, StoreProgress
<1> QED
  BY <1>2, <1>3, <1>4

\* The informers and the ConfigMap: nothing that is under way ends.
LEMMA QuietFollows ==
  ASSUME Follows, UNCHANGED << policy, webhook, worker >>, OnlyCreated',
         \A q \in Policies : (q \in queue => q \in queue') /\ (~synced[q] => ~synced'[q] \/ q \in queue')
  PROVE  Follows'
<1>1. WorkerSees'
  BY DEF Follows, WorkerSees
<1>2. \A q \in Policies : UnderWay(q) => UnderWay(q)'
  BY DEF UnderWay
<1>3. \A q \in Policies : Going(q)'
  BY <1>2 DEF Follows, Going, Right, NamesApart
<1> QED
  BY <1>1, <1>3 DEF Follows

LEMMA SyncProgress ==
  ASSUME TypeInv, Follows, WebhooksAreOwn,
         \/ \E p \in Policies : SyncPolicy(p)
         \/ \E s \in Servers : SyncPods(s) \/ ReconcileConfigMap(s)
         \/ \E k \in WebhookKinds : SyncWebhooks(k)
  PROVE  Follows' /\ WebhooksAreOwn'
<1>1. /\ UNCHANGED << policy, webhook, worker >>
      /\ \A k \in WebhookKinds : webhookCache'[k] \in {webhookCache[k], webhook[k]}
      /\ \A q \in Policies : (q \in queue => q \in queue')
                             /\ (~synced[q] => ~synced'[q] \/ q \in queue')
  BY DEF SyncPolicy, SyncPods, ReconcileConfigMap, SyncWebhooks, TypeInv, TypeOK
<1>2. OnlyCreated'
  <2>1. ASSUME NEW p \in Policies, SyncPolicy(p) PROVE OnlyCreated'
    <3>1. /\ ~synced[p] /\ queue' = queue \cup {p} /\ UNCHANGED << policy, config >>
          /\ policyCache'[p] = policy[p] /\ \A q \in Policies \ {p} : policyCache'[q] = policyCache[q]
          /\ \A q \in Policies : ~synced'[q] => ~synced[q]
      BY <2>1 DEF SyncPolicy, TypeInv, TypeOK
    <3>2. policy[p].phase # "absent"
      BY <3>1 DEF Follows, OnlyCreated
    <3>3. \A q \in Policies : policyCache[q].phase # "absent" => policyCache'[q].phase # "absent"
      BY <3>1, <3>2
    <3>4. \A s \in Servers, n \in Names : config[s][n] # None => config[s][n].policy \in Policies
      BY DEF TypeInv, TypeOK, Entries
    <3> QED
      BY <3>1, <3>2, <3>3, <3>4 DEF Follows, OnlyCreated
  <2>2. ASSUME NEW s \in Servers, SyncPods(s) PROVE OnlyCreated'
    <3>1. \A q \in queue' : q \in queue \/ \E n \in Names : config[s][n] # None /\ q = config[s][n].policy
      BY <2>2 DEF SyncPods
    <3>2. \A q \in Policies : q \in queue' => policy[q].phase # "absent"
      BY <3>1 DEF Follows, OnlyCreated
    <3> QED
      BY <2>2, <3>2 DEF SyncPods, Follows, OnlyCreated
  <2>3. ASSUME NEW s \in Servers, ReconcileConfigMap(s) PROVE OnlyCreated'
    <3>1. PICK m \in PolicyMaps(s) : config' = [config EXCEPT ![s] = m]
      BY <2>3 DEF ReconcileConfigMap
    <3>2. \A n \in Names : m[n] # None =>
             policyCache[m[n].policy].phase # "absent" /\ GetUniqueName(m[n].policy) = n
      BY EntryMeans
    <3>3. \A x \in Servers : config'[x] = IF x = s THEN m ELSE config[x]
      BY <3>1 DEF TypeInv, TypeOK
    <3> QED
      BY <2>3, <3>2, <3>3 DEF ReconcileConfigMap, Follows, OnlyCreated
  <2>4. CASE \E k \in WebhookKinds : SyncWebhooks(k)
    BY <2>4 DEF SyncWebhooks, Follows, OnlyCreated
  <2> QED
    BY <2>1, <2>2, <2>3, <2>4
<1> QED
  BY <1>1, <1>2, QuietFollows, OwnFrame

\* A reconcile takes its policy from the queue.
LEMMA StartProgress ==
  ASSUME TypeInv, Follows, WebhooksAreOwn, NEW p \in Policies, StartReconcile(p)
  PROVE  Follows' /\ WebhooksAreOwn'
<1> DEFINE c == Controller(p)
<1>1. /\ c \in Controllers /\ p \in queue /\ worker[c].pc = "idle" /\ queue' = queue \ {p}
      /\ UNCHANGED << policy, config, webhook, policyCache, synced, webhookCache >>
  BY ControllerType DEF StartReconcile
<1>2. OnlyCreated' /\ policy[p].phase # "absent"
  BY <1>1 DEF Follows, OnlyCreated
<1>3. WebhooksAreOwn'
  BY <1>1, OwnFrame
<1>4. CASE UNCHANGED worker /\ (policy[p].phase = "gone" \/ (policy[p].phase = "live" /\ policy[p].server = ""))
  <2>1. WorkerSees'
    BY <1>1, <1>4 DEF Follows, WorkerSees
  <2>2. \A q \in Policies \ {p} : UnderWay(q) => UnderWay(q)'
    BY <1>1, <1>4 DEF UnderWay
  <2>3. \A q \in Policies \ {p} : Going(q)'
    BY <1>1, <2>2 DEF Follows, Going, Right, NamesApart
  <2>4. Going(p)'
    BY <1>1, <1>4 DEF Going, Right
  <2> QED
    BY <1>2, <1>3, <2>1, <2>3, <2>4 DEF Follows
<1>5. CASE /\ worker' = [worker EXCEPT ![c] =
                [pc |-> IF policy[p].phase = "live" THEN "configMap" ELSE "deleteWebhook",
                 policy |-> p, seen |-> policy[p], fresh |-> TRUE]]
           /\ policy[p].phase # "gone"
  <2>1. /\ \A d \in Controllers \ {c} : worker'[d] = worker[d]
        /\ worker'[c].policy = p /\ worker'[c].seen = policy[p]
        /\ worker'[c].pc = IF policy[p].phase = "live" THEN "configMap" ELSE "deleteWebhook"
    BY <1>1, <1>5 DEF TypeInv, TypeOK
  <2>2. policy[p].phase \in {"live", "deleting"}
    BY <1>2, <1>5 DEF TypeInv, TypeOK, Objects
  <2>3. WorkerSees'
    BY <1>1, <2>1, <2>2 DEF Follows, WorkerSees
  <2>4. \A q \in Policies \ {p} : UnderWay(q) => UnderWay(q)'
    BY <1>1, <2>1, ControllerType DEF UnderWay
  <2>5. UnderWay(p)'
    BY <1>1, <2>1 DEF UnderWay
  <2>6. \A q \in Policies : Going(q)'
    BY <1>1, <2>4, <2>5 DEF Follows, Going, Right, NamesApart
  <2> QED
    BY <1>2, <1>3, <2>3, <2>6 DEF Follows
<1> QED
  BY <1>2, <1>4, <1>5 DEF StartReconcile, Exists, TypeInv, TypeOK, Objects

\* A reconcile goes on.
LEMMA GotoFollows ==
  ASSUME TypeInv, Follows, NEW c \in Controllers, worker[c].pc # "idle",
         NEW pc \in {"webhook", "removeFinalizer"}, Goto(c, pc),
         IF pc = "webhook" THEN worker[c].pc = "configMap" ELSE worker[c].pc = "deleteWebhook",
         UNCHANGED << policy, synced, policyCache, config >>,
         NamesApart => \A q \in Policies : worker[c].policy # q /\ Right(q) => Right(q)'
  PROVE  Follows'
<1>1. /\ \A d \in Controllers \ {c} : worker'[d] = worker[d]
      /\ worker'[c].policy = worker[c].policy /\ worker'[c].seen = worker[c].seen
      /\ worker'[c].fresh = worker[c].fresh /\ worker'[c].pc = pc
      /\ UNCHANGED queue
  BY DEF Goto, TypeInv, TypeOK
<1>2. OnlyCreated'
  BY <1>1 DEF Follows, OnlyCreated
<1>3. WorkerSees'
  BY <1>1 DEF Follows, WorkerSees
<1>4. \A q \in Policies : UnderWay(q) => UnderWay(q)'
  BY <1>1, ControllerType DEF UnderWay
<1>5. \A q \in Policies : worker[c].policy = q => UnderWay(q)'
  BY <1>1 DEF UnderWay, TypeInv, WorkerHasPolicy
<1>6. \A q \in Policies : Going(q)'
  BY <1>4, <1>5 DEF Follows, Going, NamesApart
<1> QED
  BY <1>2, <1>3, <1>6 DEF Follows

\* A reconcile ends: another follows, or its policy may rest.
LEMMA FinishFollows ==
  ASSUME TypeInv, Follows, NEW c \in Controllers, worker[c].pc # "idle",
         NEW requeue \in BOOLEAN, Finish(c, requeue),
         UNCHANGED << policy, synced, policyCache, config >>,
         NamesApart => \A q \in Policies : worker[c].policy # q /\ Right(q) => Right(q)',
         requeue \/ \A q \in Policies : worker[c].policy = q =>
                       policy[q].phase # "deleting" /\ (NamesApart => Right(q)')
  PROVE  Follows'
<1>1. /\ \A d \in Controllers \ {c} : worker'[d] = worker[d]
      /\ worker'[c].pc = "idle" /\ worker[c].policy \in Policies
      /\ queue' = IF requeue THEN queue \cup {worker[c].policy} ELSE queue
  BY IdleType DEF Finish, TypeInv, TypeOK, WorkerHasPolicy
<1>2. OnlyCreated'
  BY <1>1 DEF Follows, OnlyCreated, WorkerSees
<1>3. WorkerSees'
  BY <1>1 DEF Follows, WorkerSees
<1>4. ASSUME NEW q \in Policies PROVE Going(q)'
  <2>1. CASE worker[c].policy = q /\ requeue
    <3>1. UnderWay(q)'
      BY <1>1, <2>1 DEF UnderWay
    <3> QED
      BY <3>1 DEF Going
  <2>2. CASE worker[c].policy = q /\ ~requeue
    BY <2>2 DEF Going, NamesApart
  <2>3. CASE worker[c].policy # q
    <3>1. UnderWay(q) => UnderWay(q)'
      BY <1>1, <2>3, ControllerType DEF UnderWay
    <3> QED
      BY <2>3, <3>1 DEF Follows, Going, NamesApart
  <2> QED
    BY <2>1, <2>2, <2>3
<1> QED
  BY <1>2, <1>3, <1>4 DEF Follows

\* A write to a webhook of p leaves the others, if names are apart.
LEMMA WriteOwn ==
  ASSUME TypeInv, WebhooksAreOwn, NEW p \in Policies, NEW k \in WebhookKinds,
         NEW w \in {None, webhookConfiguration(p, policy[p])}, policy[p].phase # "absent",
         webhook' = [webhook EXCEPT ![k][GetUniqueName(p)] = w],
         UNCHANGED << policy, webhookCache >>
  PROVE  /\ WebhooksAreOwn'
         /\ webhook'[k][GetUniqueName(p)] = w
         /\ NamesApart => \A q \in Policies : p # q /\ Right(q) => Right(q)'
<1>1. /\ webhook'[k][GetUniqueName(p)] = w
      /\ \A j \in WebhookKinds, n \in Names : j # k \/ n # GetUniqueName(p) => webhook'[j][n] = webhook[j][n]
  BY NameType DEF TypeInv, TypeOK
<1>2. NamesApart => \A q \in Policies, j \in WebhookKinds : p # q =>
                       webhook'[j][GetUniqueName(q)] = webhook[j][GetUniqueName(q)]
  BY <1>1, NameType DEF NamesApart
<1>3. NamesApart => \A q \in Policies : p # q /\ Right(q) => Right(q)'
  BY <1>2, KindType DEF Right, TypeInv, TypeOK
<1>4. WebhooksAreOwn'
  BY <1>1, <1>2, NameType DEF WebhooksAreOwn, NamesApart
<1> QED
  BY <1>1, <1>3, <1>4

\* A fresh copy of a policy is what there is; any copy names its PolicyServer.
LEMMA WorkerHas ==
  ASSUME TypeInv, Follows, NEW c \in Controllers, worker[c].pc # "idle"
  PROVE  /\ worker[c].policy \in Policies /\ worker[c].seen \in Objects
         /\ policy[worker[c].policy].phase # "absent"
         /\ webhookConfiguration(worker[c].policy, worker[c].seen) =
               webhookConfiguration(worker[c].policy, policy[worker[c].policy])
<1>1. worker[c].policy \in Policies /\ worker[c].seen \in Objects
  BY DEF TypeInv, TypeOK, WorkerHasPolicy
<1>2. /\ policy[worker[c].policy].phase # "absent"
      /\ worker[c].seen.server = policy[worker[c].policy].server
  BY DEF Follows, WorkerSees
<1> QED
  BY <1>1, <1>2, SameWebhook

LEMMA CheckProgress ==
  ASSUME TypeInv, Follows, WebhooksAreOwn, NEW c \in Controllers, CheckReachable(c)
  PROVE  Follows' /\ WebhooksAreOwn'
<1>1. /\ worker[c].pc = "configMap" /\ worker[c].pc # "idle"
      /\ Finish(c, TRUE) \/ Goto(c, "webhook")
      /\ UNCHANGED << policy, webhook, webhookCache, synced, policyCache, config >>
  BY DEF CheckReachable
<1>2. WebhooksAreOwn'
  BY <1>1, OwnFrame
<1>3. \A q \in Policies : Right(q) => Right(q)'
  BY <1>1 DEF Right
<1> QED
  BY <1>1, <1>2, <1>3, FinishFollows, GotoFollows

\* Whatever the cache shows of the webhook of a policy, it is the one that is written.
LEMMA WrittenIsOwn ==
  ASSUME TypeInv, WebhooksAreOwn, NamesApart, NEW p \in Policies, NEW k \in WebhookKinds,
         NEW new, new = webhookConfiguration(p, policy[p])
  PROVE  /\ Cached[k][GetUniqueName(p)] \in {None, new}
         /\ ReconciledWebhook(k, GetUniqueName(p), new) \in {None, new}
         /\ webhook[k][GetUniqueName(p)] \in {None, new}
         /\ ReconciledWebhook(k, GetUniqueName(p), new) = new
<1>1. /\ webhook[k][GetUniqueName(p)] \in {None, new}
      /\ webhookCache[k][GetUniqueName(p)] \in {None, new}
  BY DEF WebhooksAreOwn
<1>2. Cached[k][GetUniqueName(p)] \in {None, new}
  BY <1>1 DEF Cached
<1> QED
  BY <1>1, <1>2 DEF ReconciledWebhook

LEMMA WebhookProgress ==
  ASSUME TypeInv, Follows, WebhooksAreOwn, NEW c \in Controllers, ReconcileWebhook(c)
  PROVE  Follows' /\ WebhooksAreOwn'
<1> DEFINE p == worker[c].policy
           k == WebhookKind(worker[c].seen)
           new == webhookConfiguration(p, worker[c].seen)
           n == GetUniqueName(p)
<1>1. /\ worker[c].pc = "webhook" /\ worker[c].pc # "idle"
      /\ webhook' = [webhook EXCEPT ![k][n] = ReconciledWebhook(k, n, new)]
      /\ UNCHANGED << policy, webhookCache, synced, policyCache, config >>
  BY DEF ReconcileWebhook
<1>2. /\ p \in Policies /\ k \in WebhookKinds /\ policy[p].phase # "absent"
      /\ new = webhookConfiguration(p, policy[p])
  BY <1>1, WorkerHas, KindType
<1>3. PICK requeue \in BOOLEAN : Finish(c, requeue) /\ (worker[c].fresh \/ requeue)
  <2>1. worker[c].fresh \in BOOLEAN
    BY DEF TypeInv, TypeOK
  <2> QED
    BY <2>1 DEF ReconcileWebhook
<1>4. CASE ~NamesApart
  <2>1. WebhooksAreOwn'
    BY <1>4 DEF WebhooksAreOwn, NamesApart
  <2>2. worker[c].fresh => policy[p].phase = "live"
    BY <1>1 DEF Follows, WorkerSees
  <2> QED
    BY <1>1, <1>3, <1>4, <2>1, <2>2, FinishFollows
<1>5. CASE NamesApart
  <2>1. ReconciledWebhook(k, n, new) = new
    BY <1>2, <1>5, WrittenIsOwn
  <2>2. /\ WebhooksAreOwn' /\ webhook'[k][n] = new
        /\ \A q \in Policies : p # q /\ Right(q) => Right(q)'
    <3> HIDE DEF p, k, new
    <3> QED
      BY <1>1, <1>2, <1>5, <2>1, WriteOwn DEF n
  <2>3. worker[c].fresh => worker[c].seen = policy[p] /\ policy[p].phase = "live"
    BY <1>1 DEF Follows, WorkerSees
  <2>4. ASSUME worker[c].fresh, NEW q \in Policies, p = q
        PROVE  policy[q].phase # "deleting" /\ Right(q)'
    <3>1. webhook'[WebhookKind(policy[q])][GetUniqueName(q)] = webhookConfiguration(q, policy[q])
      BY <1>2, <2>2, <2>3, <2>4
    <3> QED
      BY <1>1, <2>3, <2>4, <3>1 DEF Right
  <2> QED
    BY <1>1, <1>3, <2>2, <2>4, FinishFollows
<1> QED
  BY <1>4, <1>5

\* The clean-up of a policy takes away nothing that another one needs.
LEMMA CleanUpOwn ==
  ASSUME TypeInv, Follows, WebhooksAreOwn, NEW c \in Controllers, worker[c].pc # "idle",
         webhook' \in {webhook, [webhook EXCEPT ![WebhookKind(worker[c].seen)]
                                                [GetUniqueName(worker[c].policy)] = None]},
         UNCHANGED << policy, webhookCache >>
  PROVE  /\ WebhooksAreOwn'
         /\ NamesApart => \A q \in Policies : worker[c].policy # q /\ Right(q) => Right(q)'
<1>1. CASE UNCHANGED webhook
  <2>1. WebhooksAreOwn'
    BY <1>1, OwnFrame
  <2> QED
    BY <1>1, <2>1 DEF Right
<1>2. CASE webhook' = [webhook EXCEPT ![WebhookKind(worker[c].seen)]
                                       [GetUniqueName(worker[c].policy)] = None]
  BY <1>2, WorkerHas, KindType, WriteOwn
<1> QED
  BY <1>1, <1>2

LEMMA DeleteProgress ==
  ASSUME TypeInv, Follows, WebhooksAreOwn, NEW c \in Controllers, DeleteWebhook(c)
  PROVE  Follows' /\ WebhooksAreOwn'
<1>1. /\ worker[c].pc = "deleteWebhook" /\ worker[c].pc # "idle" /\ Goto(c, "removeFinalizer")
      /\ webhook' \in {webhook, [webhook EXCEPT ![WebhookKind(worker[c].seen)]
                                                [GetUniqueName(worker[c].policy)] = None]}
      /\ UNCHANGED << policy, webhookCache, synced, policyCache, config >>
  BY DEF DeleteWebhook
<1>2. /\ WebhooksAreOwn'
      /\ NamesApart => \A q \in Policies : worker[c].policy # q /\ Right(q) => Right(q)'
  BY <1>1, CleanUpOwn
<1> QED
  BY <1>1, <1>2, GotoFollows

\* Default does not give a deleted policy its finalizer back.
LEMMA DefaultLeavesDeleted ==
  ASSUME TypeInv, NEW object \in Objects, object.phase = "deleting"
  PROVE  LET new == Default([object EXCEPT !.finalizer = FALSE])
         IN  ~new.finalizer /\ new \in Objects /\ new.phase = "deleting"
<1> DEFINE removed == [object EXCEPT !.finalizer = FALSE]
<1>1. removed \in Objects /\ ~removed.finalizer /\ removed.phase = "deleting"
  BY DEF Objects
<1> HIDE DEF removed
<1>2. Default(removed) \in Objects /\ Default(removed).phase = "deleting"
  BY <1>1, DefaultType
<1>3. ~Default(removed).finalizer
  BY <1>1 DEF Default, Objects
<1> QED
  BY <1>2, <1>3 DEF removed

\* The last update goes through, and the policy is gone; or it is tried again.
LEMMA RemoveFinalizerProgress ==
  ASSUME TypeInv, Follows, WebhooksAreOwn, NEW c \in Controllers, RemoveFinalizer(c)
  PROVE  Follows' /\ WebhooksAreOwn'
<1> DEFINE p == worker[c].policy
<1>1. /\ worker[c].pc = "removeFinalizer" /\ worker[c].pc # "idle"
      /\ UNCHANGED << config, webhook, policyCache, webhookCache >>
      /\ Finish(c, ~Accepted(c, RemovedFrom(c)))
  BY DEF RemoveFinalizer, RemovedFrom
<1>2. p \in Policies
  BY <1>1, WorkerHas
<1>3. CASE ~Accepted(c, RemovedFrom(c))
  <2>1. UNCHANGED << policy, synced >> /\ Finish(c, TRUE)
    BY <1>1, <1>3 DEF RemoveFinalizer, RemovedFrom, Finish
  <2>2. WebhooksAreOwn'
    BY <1>1, <2>1, OwnFrame
  <2>3. \A q \in Policies : Right(q) => Right(q)'
    BY <1>1, <2>1 DEF Right
  <2> QED
    BY <1>1, <2>1, <2>2, <2>3, FinishFollows
<1>4. CASE Accepted(c, RemovedFrom(c))
  <2>1. /\ policy' = [policy EXCEPT ![p] = Stored(RemovedFrom(c))]
        /\ synced' = [synced EXCEPT ![p] = FALSE]
        /\ RemovedFrom(c).server = policy[p].server
        /\ worker' = [worker EXCEPT ![c] = IdleWorker] /\ UNCHANGED queue
    BY <1>1, <1>4 DEF RemoveFinalizer, RemovedFrom, Finish, Accepted, validatePolicyUpdate
  <2>2. Stored(RemovedFrom(c)).phase = "gone" /\ Stored(RemovedFrom(c)).server = policy[p].server
    <3>1. worker[c].seen \in Objects /\ worker[c].seen.phase = "deleting"
      BY <1>1 DEF TypeInv, TypeOK, WorkerHasPolicy
    <3>2. PICK new \in Objects : new = RemovedFrom(c) /\ ~new.finalizer /\ new.phase = "deleting"
      BY <3>1, DefaultLeavesDeleted DEF RemovedFrom
    <3> QED
      BY <2>1, <3>2, StoredType
  <2>3. /\ policy'[p].phase = "gone" /\ policy'[p].server = policy[p].server
        /\ \A q \in Policies \ {p} : policy'[q] = policy[q] /\ synced'[q] = synced[q]
        /\ ~synced'[p]
        /\ worker'[c].pc = "idle" /\ \A d \in Controllers \ {c} : worker'[d] = worker[d]
    BY <1>2, <2>1, <2>2, IdleType DEF TypeInv, TypeOK
  <2>4. WebhooksAreOwn'
    <3>1. \A q \in Policies : policy[q].phase # "absent" =>
             policy'[q].phase # "absent" /\ policy'[q].server = policy[q].server
      BY <2>3
    <3> QED
      BY <1>1, <3>1, OwnFrame
  <2>5. OnlyCreated'
    BY <1>1, <2>1, <2>3 DEF Follows, OnlyCreated
  <2>6. WorkerSees'
    <3>1. \A d \in Controllers \ {c} : worker[d].pc # "idle" => worker[d].policy \in Policies \ {p}
      BY <1>1 DEF TypeInv, WorkerHasPolicy
    <3> SUFFICES ASSUME NEW d \in Controllers \ {c}, worker[d].pc # "idle",
                        NEW q \in Policies \ {p}, q = worker[d].policy
                 PROVE  /\ policy[q].phase # "absent" /\ worker[d].seen.server = policy[q].server
                        /\ worker[d].pc \in {"configMap", "webhook"} => worker[d].seen.phase = "live"
                        /\ worker[d].pc \in {"deleteWebhook", "removeFinalizer"} =>
                              /\ worker[d].seen.phase = "deleting"
                              /\ policy[q].phase \in {"deleting", "gone"}
                        /\ worker[d].fresh => worker[d].seen = policy[q]
      BY <2>3, <3>1 DEF WorkerSees
    <3> QED
      BY DEF Follows, WorkerSees
  <2>7. \A q \in Policies : Going(q)'
    <3>1. \A q \in Policies : q = p => UnderWay(q)'
      BY <2>3 DEF UnderWay
    <3>2. ASSUME NEW q \in Policies \ {p} PROVE Going(q)'
      <4>1. UnderWay(q) => UnderWay(q)'
        BY <2>1, <2>3, ControllerType DEF UnderWay
      <4>2. Right(q) => Right(q)'
        BY <1>1, <2>3 DEF Right
      <4>3. Going(q) /\ policy'[q].phase = policy[q].phase
        BY <2>3 DEF Follows
      <4> QED
        BY <4>1, <4>2, <4>3 DEF Going, NamesApart
    <3>3. \A q \in Policies : q = p => Going(q)'
      BY <3>1 DEF Going
    <3> QED
      BY <3>2, <3>3
  <2> QED
    BY <2>4, <2>5, <2>6, <2>7 DEF Follows
<1> QED
  BY <1>3, <1>4

LEMMA ErrorProgress ==
  ASSUME TypeInv, Follows, WebhooksAreOwn, NEW c \in Controllers, ApiError(c)
  PROVE  Follows' /\ WebhooksAreOwn'
<1> DEFINE p == worker[c].policy
           k == WebhookKind(worker[c].seen)
           n == GetUniqueName(p)
           new == webhookConfiguration(p, worker[c].seen)
<1>1. /\ worker[c].pc # "idle" /\ Finish(c, TRUE)
      /\ UNCHANGED << policy, config, policyCache, synced, webhookCache >>
      /\ \/ webhook' \in {webhook, [webhook EXCEPT ![k][n] = None]}
         \/ webhook' = [webhook EXCEPT ![k][n] = ReconciledWebhook(k, n, new)]
  BY DEF ApiError
<1>2. /\ WebhooksAreOwn'
      /\ NamesApart => \A q \in Policies : p # q /\ Right(q) => Right(q)'
  <2>1. CASE webhook' \in {webhook, [webhook EXCEPT ![k][n] = None]}
    BY <1>1, <2>1, CleanUpOwn
  <2>2. CASE ~NamesApart
    BY <2>2 DEF WebhooksAreOwn, NamesApart
  <2>3. CASE NamesApart /\ webhook' = [webhook EXCEPT ![k][n] = ReconciledWebhook(k, n, new)]
    <3>1. /\ p \in Policies /\ k \in WebhookKinds /\ policy[p].phase # "absent"
          /\ new = webhookConfiguration(p, policy[p])
      BY <1>1, WorkerHas, KindType
    <3>2. ReconciledWebhook(k, n, new) = new
      BY <2>3, <3>1, WrittenIsOwn
    <3> HIDE DEF p, k, new
    <3> QED
      BY <1>1, <2>3, <3>1, <3>2, WriteOwn DEF n
  <2> QED
    BY <1>1, <2>1, <2>2, <2>3
<1> QED
  BY <1>1, <1>2, FinishFollows

\* A controller that restarts lists what there is.
LEMMA RestartProgress ==
  ASSUME TypeInv, Follows, WebhooksAreOwn, Restart PROVE Follows' /\ WebhooksAreOwn'
<1>1. /\ UNCHANGED << policy, config, webhook >> /\ webhookCache' = webhook
      /\ policyCache' = policy /\ queue' = { p \in Policies : Exists(p) }
      /\ \A p \in Policies : synced'[p]
      /\ \A c \in Controllers : worker'[c].pc = "idle"
  BY IdleType DEF Restart
<1>2. WebhooksAreOwn'
  BY <1>1, OwnFrame
<1>3. OnlyCreated'
  <2>1. \A s \in Servers, n \in Names : config[s][n] # None => config[s][n].policy \in Policies
    BY DEF TypeInv, TypeOK, Entries
  <2> QED
    BY <1>1, <2>1 DEF Follows, OnlyCreated, Exists
<1>4. WorkerSees'
  BY <1>1 DEF WorkerSees
<1>5. ASSUME NEW p \in Policies PROVE Going(p)'
  <2>1. Exists(p) => UnderWay(p)'
    BY <1>1 DEF UnderWay
  <2>2. ~Exists(p) => policy'[p].phase \notin {"live", "deleting"}
    BY <1>1 DEF Exists
  <2> QED
    BY <2>1, <2>2 DEF Going, Right
<1> QED
  BY <1>2, <1>3, <1>4, <1>5 DEF Follows

\* A reconcile waits before the last update only if it was there already or has just
\* cleaned up, and only it writes the webhooks under the name of its policy.
LEMMA StepCleanedUp ==
  ASSUME TypeInv, CleanedUp, [Next]_vars PROVE CleanedUp'
<1> SUFFICES ASSUME NamesApart, NEW c \in Controllers, worker'[c].pc = "removeFinalizer",
                    WebhookKind(worker'[c].seen) \notin LaggingWebhooks
             PROVE  webhook'[WebhookKind(worker'[c].seen)][GetUniqueName(worker'[c].policy)] = None
  BY DEF CleanedUp, NamesApart
<1> DEFINE k == WebhookKind(worker[c].seen)
           n == GetUniqueName(worker[c].policy)
           Waits == /\ worker[c].pc = "removeFinalizer"
                    /\ worker'[c].policy = worker[c].policy /\ worker'[c].seen = worker[c].seen
<1>1. worker[c].pc = "removeFinalizer" /\ k \notin LaggingWebhooks => webhook[k][n] = None
  BY DEF CleanedUp
<1>2. ASSUME Waits, UNCHANGED webhook
      PROVE  webhook'[WebhookKind(worker'[c].seen)][GetUniqueName(worker'[c].policy)] = None
  BY <1>1, <1>2
<1>3. ASSUME NEW p \in Policies, NEW object, Store(p, object) PROVE Waits
  BY <1>3 DEF Store, TypeInv, TypeOK
<1>4. CASE \/ UNCHANGED vars
           \/ \E p \in Policies : CreatePolicy(p) \/ UpdatePolicy(p) \/ DeletePolicy(p) \/ SyncPolicy(p)
           \/ \E j \in WebhookKinds : SyncWebhooks(j)
           \/ \E s \in Servers : ReconcileConfigMap(s) \/ SyncPods(s)
  <2>1. UNCHANGED webhook
    BY <1>4 DEF vars, CreatePolicy, UpdatePolicy, DeletePolicy, SyncPolicy, SyncWebhooks,
       ReconcileConfigMap, SyncPods
  <2>2. UNCHANGED worker \/ \E p \in Policies : CreatePolicy(p) \/ UpdatePolicy(p) \/ DeletePolicy(p)
    BY <1>4 DEF vars, SyncPolicy, SyncWebhooks, ReconcileConfigMap, SyncPods
  <2>3. Waits
    BY <1>3, <2>2 DEF CreatePolicy, UpdatePolicy, DeletePolicy
  <2> QED
    BY <1>2, <2>1, <2>3
<1>5. CASE Restart
  BY <1>5, IdleType DEF Restart
<1>6. ASSUME NEW d \in Controllers, ReconcilePolicy(d) \/ ApiError(d)
      PROVE  webhook'[WebhookKind(worker'[c].seen)][GetUniqueName(worker'[c].policy)] = None
  <2>1. CASE d = c
    <3>1. CASE \E p \in Policies : d = Controller(p) /\ StartReconcile(p)
      <4>1. PICK w : /\ w.pc # "removeFinalizer"
                     /\ \/ UNCHANGED worker /\ worker[c].pc = "idle"
                        \/ worker' = [worker EXCEPT ![c] = w]
        BY <2>1, <3>1, IdleType DEF StartReconcile
      <4> QED
        BY <4>1 DEF TypeInv, TypeOK
    <3>2. CASE CheckReachable(d) \/ ReconcileWebhook(d) \/ RemoveFinalizer(d) \/ ApiError(d)
      BY <2>1, <3>2, IdleType DEF CheckReachable, ReconcileWebhook, RemoveFinalizer, ApiError,
         Finish, Goto, TypeInv, TypeOK
    <3>3. CASE DeleteWebhook(d)
      <4>1. /\ worker[c].pc = "deleteWebhook"
            /\ webhook' = IF Cached[k][n] = None THEN webhook ELSE [webhook EXCEPT ![k][n] = None]
            /\ worker' = [worker EXCEPT ![c].pc = "removeFinalizer"]
        BY <2>1, <3>3 DEF DeleteWebhook, Goto
      <4>2. k \in WebhookKinds /\ n \in Names
        BY <4>1, KindType, NameType DEF TypeInv, TypeOK, WorkerHasPolicy
      <4>3. worker'[c].seen = worker[c].seen /\ worker'[c].policy = worker[c].policy
        BY <4>1 DEF TypeInv, TypeOK
      <4>4. k \notin LaggingWebhooks
        BY <4>3
      <4>5. webhook'[k][n] = None
        <5> HIDE DEF k, n
        <5> QED
          BY <4>1, <4>2, <4>4 DEF Cached, TypeInv, TypeOK
      <4> QED
        BY <4>3, <4>5
    <3> QED
      BY <1>6, <3>1, <3>2, <3>3 DEF ReconcilePolicy
  <2>2. CASE d # c
    <3>1. worker'[c] = worker[c]
      BY <1>6, <2>2 DEF ReconcilePolicy, StartReconcile, CheckReachable, ReconcileWebhook,
         DeleteWebhook, RemoveFinalizer, ApiError, Finish, Goto, TypeInv, TypeOK
    <3>2. /\ worker[c].pc = "removeFinalizer" /\ webhook[k][n] = None
          /\ k \in WebhookKinds /\ n \in Names
      BY <1>1, <3>1, KindType, NameType DEF TypeInv, TypeOK, WorkerHasPolicy
    <3>3. CASE UNCHANGED webhook
      BY <1>2, <3>1, <3>2, <3>3
    <3>4. CASE /\ worker[d].pc # "idle"
               /\ \E j \in WebhookKinds : \E w :
                     webhook' = [webhook EXCEPT ![j][GetUniqueName(worker[d].policy)] = w]
      <4>1. GetUniqueName(worker[d].policy) # n
        BY <2>2, <3>2, <3>4 DEF TypeInv, WorkerHasPolicy, NamesApart
      <4>2. webhook'[k][n] = webhook[k][n]
        <5> HIDE DEF k, n
        <5> QED
          BY <3>2, <3>4, <4>1 DEF TypeInv, TypeOK
      <4> QED
        BY <3>1, <3>2, <4>2
    <3>5. \/ UNCHANGED webhook
          \/ /\ worker[d].pc # "idle"
             /\ \E w : webhook' = [webhook EXCEPT ![WebhookKind(worker[d].seen)]
                                                   [GetUniqueName(worker[d].policy)] = w]
      BY <1>6 DEF ReconcilePolicy, StartReconcile, CheckReachable, ReconcileWebhook,
         DeleteWebhook, RemoveFinalizer, ApiError
    <3> QED
      BY <3>3, <3>4, <3>5, KindType DEF TypeInv, TypeOK
  <2> QED
    BY <2>1, <2>2
<1> QED
  BY <1>4, <1>5, <1>6 DEF Next

LEMMA StepProgress ==
  ASSUME TypeInv, ProgressInv, [Next]_vars PROVE ProgressInv'
<1>1. Follows /\ WebhooksAreOwn /\ CleanedUp
  BY ProgressParts
<1>2. Follows' /\ WebhooksAreOwn'
  <2>1. CASE UNCHANGED vars
    <3>1. \A q \in Policies : Going(q) => Going(q)'
      BY <2>1 DEF vars, Going, UnderWay, Right, NamesApart
    <3>2. OnlyCreated' /\ WorkerSees' /\ WebhooksAreOwn'
      BY <1>1, <2>1 DEF vars, Follows, OnlyCreated, WorkerSees, WebhooksAreOwn, NamesApart
    <3> QED
      BY <1>1, <3>1, <3>2 DEF Follows
  <2>2. ASSUME NEW p \in Policies, CreatePolicy(p) \/ UpdatePolicy(p) \/ DeletePolicy(p)
        PROVE  Follows' /\ WebhooksAreOwn'
    BY <1>1, <2>2, UsersProgress
  <2>3. CASE \/ \E p \in Policies : SyncPolicy(p)
             \/ \E s \in Servers : SyncPods(s) \/ ReconcileConfigMap(s)
             \/ \E k \in WebhookKinds : SyncWebhooks(k)
    BY <1>1, <2>3, SyncProgress
  <2>4. ASSUME NEW c \in Controllers, ReconcilePolicy(c) PROVE Follows' /\ WebhooksAreOwn'
    BY <1>1, <2>4, StartProgress, CheckProgress, WebhookProgress, DeleteProgress,
       RemoveFinalizerProgress DEF ReconcilePolicy
  <2>5. ASSUME NEW c \in Controllers, ApiError(c) PROVE Follows' /\ WebhooksAreOwn'
    BY <1>1, <2>5, ErrorProgress
  <2>6. CASE Restart
    BY <1>1, <2>6, RestartProgress
  <2> QED
    BY <2>1, <2>2, <2>3, <2>4, <2>5, <2>6 DEF Next
<1>3. CleanedUp'
  BY <1>1, StepCleanedUp
<1>4. (Follows /\ WebhooksAreOwn /\ CleanedUp)' => ProgressInv'
  BY ProgressParts, PTL
<1> QED
  BY <1>2, <1>3, <1>4

\* Every reconcile knows what it deals with, and whatever is not as it should be has
\* something that leads to another one: an entry of the queue, an event to come or a
\* reconcile under way.
THEOREM AdmissionProgress == Spec => []ProgressInv
  BY InitType, StepType, InitProgress, StepProgress, PTL DEF Spec

\* However the last update is refused or fails, the deletion of a policy is taken up again.
THEOREM PolicyDeletionGoesOn == Spec => []PolicyDeletionIsUnderWay
<1>1. ProgressInv => PolicyDeletionIsUnderWay
  BY DEF ProgressInv
<1> QED
  BY <1>1, AdmissionProgress, PTL

\* A live policy that names a PolicyServer rests only with the webhook it should have, in
\* spite of the cache that the reconciler compares with.
THEOREM RestIsRegistered == Spec => []RestMeansRegistered
<1>1. ProgressInv => RestMeansRegistered
  BY DEF ProgressInv
<1> QED
  BY <1>1, AdmissionProgress, PTL

\* The step in which a controller lets a policy go.
LEMMA StepLetsGo ==
  ASSUME TypeInv, ProgressInv, NamesApart, NEW c \in Controllers, LetsGo(c)
  PROVE  LET p == worker[c].policy
             k == IF policy[p].mutating THEN "mutating" ELSE "validating"
         IN  k \notin LaggingWebhooks => webhook[k][GetUniqueName(p)] = None
<1> DEFINE p == worker[c].policy
<1>1. /\ RemoveFinalizer(c) /\ worker[c].pc = "removeFinalizer" /\ p \in Policies
      /\ policy[p].phase # "gone" /\ policy'[p].phase = "gone"
  BY DEF LetsGo, RemoveFinalizer, TypeInv, WorkerHasPolicy
<1>2. Accepted(c, RemovedFrom(c))
  BY <1>1, RemovesOrNot
<1>3. worker[c].seen = policy[p]
  BY <1>1, <1>2 DEF Accepted, ProgressInv, WorkerSees
<1>4. WebhookKind(worker[c].seen) \notin LaggingWebhooks =>
        webhook[WebhookKind(worker[c].seen)][GetUniqueName(p)] = None
  BY <1>1 DEF ProgressInv, CleanedUp
<1> QED
  BY <1>3, <1>4 DEF WebhookKind

\* A controller that lets a policy go leaves no webhook of the kind that the policy has,
\* unless the informer of that kind lags.
THEOREM CleanUpComesFirst == Spec => FinalizerGoesLast
<1>1. TypeInv /\ ProgressInv /\ [Next]_vars =>
        [NamesApart =>
           \A c \in Controllers : LetsGo(c) =>
              LET p == worker[c].policy
                  k == IF policy[p].mutating THEN "mutating" ELSE "validating"
              IN  k \notin LaggingWebhooks => webhook[k][GetUniqueName(p)] = None]_vars
  BY StepLetsGo
<1> QED
  BY <1>1, InitType, StepType, AdmissionProgress, PTL DEF Spec, FinalizerGoesLast

-----------------------------------------------------------------------------
(* Unique names: where they are apart, policies do not meddle.              *)

\* A webhook is answered by the entry of its own policy as soon as no two policies share
\* a unique name: the joined names are all that OwnNamespaceOnly fails by.
THEOREM NamesKeepNamespaces == Spec => [](NamesApart => OwnNamespaceOnly)
<1>1. ASSUME TypeInv, ProgressInv, NamesApart, NEW k \in WebhookKinds, NEW n \in Names,
             webhook[k][n] # None, config[webhook[k][n].server][n] # None
      PROVE  webhook[k][n].namespace = Namespace[config[webhook[k][n].server][n].policy]
  <2>1. PICK p \in Policies : n = GetUniqueName(p)
    BY DEF Names
  <2>2. webhook[k][n] = webhookConfiguration(p, policy[p])
    BY <1>1, <2>1 DEF ProgressInv, WebhooksAreOwn
  <2>3. webhook[k][n].namespace = Namespace[p]
    BY <2>2 DEF webhookConfiguration
  <2>4. webhook[k][n].server \in Servers
    <3>1. webhook[k][n] \in Webhooks
      BY <1>1 DEF TypeInv, TypeOK
    <3> QED
      BY <3>1 DEF Webhooks
  <2>5. PICK s \in Servers : s = webhook[k][n].server
    BY <2>4
  <2>6. config[s][n].policy \in Policies /\ GetUniqueName(config[s][n].policy) = n
    BY <1>1, <2>5 DEF TypeInv, TypeOK, Entries, ProgressInv, OnlyCreated
  <2>7. config[s][n].policy = p
    BY <1>1, <2>1, <2>6 DEF NamesApart
  <2> QED
    BY <2>3, <2>5, <2>7
<1>2. TypeInv /\ ProgressInv => (NamesApart => OwnNamespaceOnly)
  BY <1>1 DEF OwnNamespaceOnly
<1> QED
  BY <1>2, InitType, StepType, InitProgress, StepProgress, PTL DEF Spec

\* Where the first part of two joined names is as long, the parts can be told.
LEMMA PartsOfJoined ==
  ASSUME NEW S, NEW a \in Seq(S), NEW b \in Seq(S), NEW x \in Seq(S), NEW y \in Seq(S),
         a \o x = b \o y, Len(a) = Len(b)
  PROVE  a = b /\ x = y
<1>1. ASSUME NEW i \in 1 .. Len(a) PROVE a[i] = b[i]
  <2>1. (a \o x)[i] = a[i] /\ (b \o y)[i] = b[i]
    BY ConcatProperties, LenProperties
  <2> QED
    BY <2>1
<1>2. a = b
  BY <1>1, SeqEqual
<1>3. a \o x = a \o y
  BY <1>2
<1> QED
  BY <1>2, <1>3, ConcatSimplifications

\* The sequence of one part.
LEMMA OnePart == ASSUME NEW S, NEW s \in S PROVE << s >> \in Seq(S)
  BY SMT

\* Kubernetes keeps the policies of a kind apart by name and namespace.  Their unique
\* names are apart too if every namespace has as many hyphens, none for example.
THEOREM NamesAreApart ==
  ASSUME \A p, q \in Policies : Name[p] = Name[q] /\ Namespace[p] = Namespace[q] => p = q,
         \A p, q \in Policies : IsNamespaced(p) /\ IsNamespaced(q) =>
                                  Len(Namespace[p]) = Len(Namespace[q])
  PROVE  NamesApart
<1> SUFFICES ASSUME NEW p \in Policies, NEW q \in Policies, GetUniqueName(p) = GetUniqueName(q)
             PROVE  p = q
  BY DEF NamesApart
<1> DEFINE kind(r) == IF IsNamespaced(r) THEN << "namespaced" >> ELSE << "clusterwide" >>
           rest(r) == IF IsNamespaced(r) THEN Namespace[r] \o Name[r] ELSE Name[r]
<1> DEFINE Parts == STRING \cup {"namespaced", "clusterwide"}
<1>1. \A r \in Policies : Name[r] \in Seq(Parts) /\ Namespace[r] \in Seq(Parts)
  BY NamesAssumption, SeqMonotonic
<1>2. ASSUME NEW r \in Policies
      PROVE  /\ kind(r) \in Seq(Parts) /\ rest(r) \in Seq(Parts) /\ Len(kind(r)) = 1
             /\ kind(r)[1] = IF IsNamespaced(r) THEN "namespaced" ELSE "clusterwide"
             /\ GetUniqueName(r) = kind(r) \o rest(r)
  <2>1. "namespaced" \in Parts /\ "clusterwide" \in Parts
    OBVIOUS
  <2>2. << "namespaced" >> \in Seq(Parts) /\ << "clusterwide" >> \in Seq(Parts)
    <3> HIDE DEF Parts
    <3> QED
      BY <2>1, OnePart
  <2> HIDE DEF Parts
  <2>3. Namespace[r] \o Name[r] \in Seq(Parts)
    BY <1>1, ConcatProperties
  <2>4. (<< "namespaced" >> \o Namespace[r]) \o Name[r] = << "namespaced" >> \o (Namespace[r] \o Name[r])
    <3>1. PICK a \in Seq(Parts), b \in Seq(Parts), c \in Seq(Parts) :
            a = << "namespaced" >> /\ b = Namespace[r] /\ c = Name[r]
      BY <1>1, <2>2
    <3>2. (a \o b) \o c = a \o (b \o c)
      BY ConcatAssociative
    <3> QED
      BY <3>1, <3>2
  <2> QED
    BY <1>1, <2>2, <2>3, <2>4 DEF GetUniqueName
<1> HIDE DEF Parts
<1>3. kind(p) = kind(q) /\ rest(p) = rest(q)
  <2> HIDE DEF kind, rest
  <2>1. /\ kind(p) \in Seq(Parts) /\ kind(q) \in Seq(Parts) /\ Len(kind(p)) = Len(kind(q))
        /\ rest(p) \in Seq(Parts) /\ rest(q) \in Seq(Parts)
        /\ kind(p) \o rest(p) = kind(q) \o rest(q)
    BY <1>2
  <2> QED
    BY <2>1, PartsOfJoined
<1>4. IsNamespaced(p) <=> IsNamespaced(q)
  BY <1>2, <1>3
<1>5. Name[p] = Name[q] /\ Namespace[p] = Namespace[q]
  <2>1. CASE IsNamespaced(p)
    BY <1>1, <1>3, <1>4, <2>1, PartsOfJoined
  <2>2. CASE ~IsNamespaced(p)
    BY <1>3, <1>4, <2>2 DEF IsNamespaced
  <2> QED
    BY <2>1, <2>2
<1> QED
  BY <1>5
=============================================================================
