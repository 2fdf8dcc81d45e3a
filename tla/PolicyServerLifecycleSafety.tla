--------------------- MODULE PolicyServerLifecycleSafety ---------------------
(***************************************************************************)
(* IInv is an invariant of PolicyServerLifecycle, for any PolicyServers,   *)
(* specs, policies and certificates, and any number of writes and faults:  *)
(* nothing is left of a PolicyServer that is gone, what its Deployment     *)
(* mounts exists, and its conditions are true.  From it: a restart that a  *)
(* user asked for is kept, and the life of a PolicyServer is one that      *)
(* PolicyServerOwnership allows.                                           *)
(***************************************************************************)
EXTENDS PolicyServerLifecycleProofs

SafeInv ==
    /\ SeenConditionsAreTrue
    /\ BuiltInOrder
    /\ DeletedInOrder
    /\ RecreatedHasNothing
    /\ NothingIsLeft
    /\ DeploymentCanStart
    /\ ConditionsAreTrue

LEMMA IInvParts == IInv <=> TypeInv /\ SafeInv
  BY DEF IInv, TypeInv, SafeInv

LEMMA InitSafe == Init => SafeInv
<1> SUFFICES ASSUME Init PROVE SafeInv
  OBVIOUS
<1>1. /\ \A s \in Servers : server[s].phase = "absent" /\ object[s] = NoObjects
      /\ worker.pc = "idle"
  BY DEF Init, NoServer, IdleWorker
<1> QED
  BY <1>1 DEF SafeInv, SeenConditionsAreTrue, BuiltInOrder, DeletedInOrder, RecreatedHasNothing,
     NothingIsLeft, DeploymentCanStart, ConditionsAreTrue, LivePcs, DeletingPcs

\* A PolicyServer with nothing has none of the parts.
LEMMA NothingMeans ==
  ASSUME TypeInv, NEW s \in Servers
  PROVE  object[s] = NoObjects <=> \A k \in Kinds : ~Has(s, k)
  BY DEF TypeInv, TypeOK, NoObjects, Has, Kinds

\* Steps that touch neither the PolicyServers nor what they consist of.  The worker
\* goes on, or is done; no cache begins to see a deletion of the past.
LEMMA QuietSafe ==
  ASSUME TypeInv, SafeInv, UNCHANGED << server, object, rootCA >>,
         UNCHANGED worker \/ worker'.pc = "idle",
         \A s \in Servers : server[s].phase = "live" /\ serverCache'[s].phase = "deleting"
                               => serverCache[s].phase = "deleting"
  PROVE  SafeInv'
<1>1. SeenConditionsAreTrue' /\ BuiltInOrder' /\ DeletedInOrder'
  BY DEF SafeInv, SeenConditionsAreTrue, BuiltInOrder, DeletedInOrder, IsTrue, Has, LivePcs
<1>2. RecreatedHasNothing'
  BY DEF SafeInv, RecreatedHasNothing, DeletingPcs
<1>3. NothingIsLeft' /\ DeploymentCanStart' /\ ConditionsAreTrue'
  BY DEF SafeInv, NothingIsLeft, DeploymentCanStart, ConditionsAreTrue, IsTrue, Has, Exists
<1> QED
  BY <1>1, <1>2, <1>3 DEF SafeInv

\* The conditions of a PolicyServer are among Conditions.
LEMMA ServerConditions ==
  ASSUME TypeInv, NEW s \in Servers PROVE server[s].conditions \subseteq Conditions
  BY StateType DEF TypeInv, TypeOK, NoServer

\* Users.  A PolicyServer that is created has nothing, and no condition.
LEMMA WriteServerSafe ==
  ASSUME TypeInv, SafeInv, NEW s \in Servers, WriteServer(s) PROVE SafeInv'
<1>1. PICK spec \in Specs :
        server' = [server EXCEPT ![s].phase = "live", ![s].spec = spec]
  BY DEF WriteServer
<1>2. server[s].phase \in {"absent", "live"} /\ UNCHANGED << object, rootCA, serverCache >>
  BY DEF WriteServer, caches
<1>3. /\ server'[s].phase = "live" /\ server'[s].conditions = server[s].conditions
      /\ \A x \in Servers \ {s} : server'[x] = server[x]
  BY <1>1 DEF TypeInv, TypeOK, ServerStates, NoServer
<1>4. server[s].phase = "absent" => server[s].conditions = {} /\ object[s] = NoObjects
  BY StateType DEF TypeInv, TypeOK, NoServer, SafeInv, NothingIsLeft, Exists
<1>5. /\ worker'.pc = worker.pc /\ worker'.server = worker.server /\ worker'.seen = worker.seen
      /\ worker'.left = worker.left /\ worker'.failed = worker.failed
      /\ worker'.fresh => worker.fresh
  BY DEF WriteServer, OutdateWorker, TypeInv, TypeOK, WorkerStates
<1>6. SeenConditionsAreTrue' /\ BuiltInOrder' /\ DeletedInOrder'
  BY <1>2, <1>5 DEF SafeInv, SeenConditionsAreTrue, BuiltInOrder, DeletedInOrder, IsTrue, Has
<1>7. RecreatedHasNothing' /\ NothingIsLeft'
  BY <1>2, <1>3, <1>4, <1>5 DEF SafeInv, RecreatedHasNothing, NothingIsLeft, Exists
<1>8. DeploymentCanStart'
  BY <1>2, <1>3, <1>4, NothingMeans DEF SafeInv, DeploymentCanStart, Has, Kinds
<1>9. ConditionsAreTrue'
  BY <1>2, <1>3, <1>4 DEF SafeInv, ConditionsAreTrue, IsTrue, Has
<1> QED
  BY <1>6, <1>7, <1>8, <1>9 DEF SafeInv

LEMMA DeleteServerSafe ==
  ASSUME TypeInv, SafeInv, NEW s \in Servers, DeleteServer(s) PROVE SafeInv'
<1>1. /\ server[s].phase = "live" /\ server' = [server EXCEPT ![s].phase = "deleting"]
      /\ UNCHANGED << object, rootCA, serverCache >>
  BY DEF DeleteServer, cluster, caches
<1>2. server[s] \in LiveStates
  BY <1>1, StateType DEF TypeInv, TypeOK, LiveStates
<1>3. /\ server'[s].phase = "deleting"
      /\ \A x \in Servers \ {s} : server'[x] = server[x]
  BY <1>1, <1>2 DEF TypeInv, TypeOK, LiveStates
<1>4. /\ worker'.pc = worker.pc /\ worker'.server = worker.server /\ worker'.seen = worker.seen
      /\ worker'.left = worker.left /\ worker'.failed = worker.failed
      /\ worker'.fresh => worker.fresh
  BY DEF DeleteServer, OutdateWorker, TypeInv, TypeOK, WorkerStates
<1>5. SeenConditionsAreTrue' /\ BuiltInOrder' /\ DeletedInOrder'
  BY <1>1, <1>4 DEF SafeInv, SeenConditionsAreTrue, BuiltInOrder, DeletedInOrder, IsTrue, Has
<1>6. RecreatedHasNothing' /\ NothingIsLeft'
  BY <1>1, <1>3, <1>4 DEF SafeInv, RecreatedHasNothing, NothingIsLeft, Exists
<1>7. DeploymentCanStart' /\ ConditionsAreTrue'
  BY <1>1, <1>3 DEF SafeInv, DeploymentCanStart, ConditionsAreTrue, IsTrue, Has
<1> QED
  BY <1>5, <1>6, <1>7 DEF SafeInv

\* A restart edits a Deployment that exists.
LEMMA RestartSafe ==
  ASSUME TypeInv, SafeInv, NEW s \in Servers, RestartRollout(s) PROVE SafeInv'
<1> DEFINE d == [object[s]["deployment"] EXCEPT !.restarted = TRUE]
<1>1. object[s]["deployment"] \in Deployments
  BY DEF RestartRollout, Has, TypeInv, TypeOK
<1>2. d \in Deployments /\ d # None
  BY <1>1, LifecycleAssumption DEF Deployments
<1>3. object' = [object EXCEPT ![s]["deployment"] = d]
  BY DEF RestartRollout
<1> HIDE DEF d
<1>4. /\ \A k \in Kinds : Has(s, k)' <=> Has(s, k)
      /\ \A x \in Servers \ {s} : object'[x] = object[x]
  <2>1. /\ object'[s] = [object[s] EXCEPT !["deployment"] = d]
        /\ \A x \in Servers \ {s} : object'[x] = object[x]
    BY <1>3 DEF TypeInv, TypeOK
  <2>2. object'[s]["deployment"] = d /\ object[s]["deployment"] # None
    BY <2>1 DEF RestartRollout, Has, Kinds, TypeInv, TypeOK
  <2>3. \A k \in Kinds \ {"deployment"} : object'[s][k] = object[s][k]
    BY <2>1 DEF Kinds, TypeInv, TypeOK
  <2> QED
    BY <1>2, <2>1, <2>2, <2>3 DEF Has, Kinds
<1>5. \A x \in Servers, k \in Kinds : Has(x, k)' <=> Has(x, k)
  BY <1>4 DEF Has
<1>6. object[s] # NoObjects /\ UNCHANGED << server, serverCache, worker, rootCA >>
  BY NothingMeans DEF RestartRollout, Kinds, cluster, caches
<1>7. SeenConditionsAreTrue'
  BY <1>5, <1>6, SeenType DEF SafeInv, SeenConditionsAreTrue, IsTrue, TypeInv, WorkerIsOfThisLife,
     Conditions, LivePcs
<1>8. BuiltInOrder' /\ DeletedInOrder'
  BY <1>5, <1>6 DEF SafeInv, BuiltInOrder, DeletedInOrder, TypeInv, WorkerIsOfThisLife, Kinds
<1>9. RecreatedHasNothing' /\ NothingIsLeft'
  BY <1>4, <1>6 DEF SafeInv, RecreatedHasNothing, NothingIsLeft, Exists
<1>10. DeploymentCanStart'
  BY <1>5, <1>6 DEF SafeInv, DeploymentCanStart, Kinds
<1>11. ConditionsAreTrue'
  BY <1>5, <1>6, ServerConditions DEF SafeInv, ConditionsAreTrue, IsTrue, Conditions
<1> QED
  BY <1>7, <1>8, <1>9, <1>10, <1>11 DEF SafeInv

\* A reconcile starts with what the cache has, and the whole deletion ahead of it.
LEMMA StartSafe ==
  ASSUME TypeInv, SafeInv, NEW s \in Servers, StartReconcile(s) PROVE SafeInv'
<1>1. UNCHANGED << server, object, rootCA, serverCache >>
  BY DEF StartReconcile, cluster, caches
<1>2. CASE UNCHANGED worker
  BY <1>1, <1>2, QuietSafe
<1>3. ASSUME serverCache[s].phase # "absent", NEW listed \in SUBSET Policies,
             worker' = StartedWorker(s, listed)
      PROVE  SafeInv'
  <2>1. /\ worker'.server = s /\ worker'.seen = serverCache[s] /\ worker'.fresh = synced[s]
        /\ worker'.failed = FALSE
        /\ \/ serverCache[s].phase = "live" /\ worker'.pc = "rootCA"
           \/ /\ serverCache[s].phase = "deleting" /\ worker'.pc \in DeletingPcs
              /\ worker'.left = DeletionOrder
    BY <1>3, StateType DEF StartedWorker, FirstStep, TypeInv, TypeOK, DeletingPcs
  <2>2. SeenConditionsAreTrue'
    BY <1>1, <2>1 DEF TypeInv, CacheIsOfThisLife, SafeInv, SeenConditionsAreTrue, ConditionsAreTrue,
       IsTrue, Has, LivePcs, DeletingPcs
  <2>3. BuiltInOrder' /\ RecreatedHasNothing'
    BY <1>1, <2>1 DEF SafeInv, BuiltInOrder, RecreatedHasNothing, DeletingPcs
  <2>4. DeletedInOrder'
    <3>1. \A k \in Kinds : \E i \in 1 .. Len(DeletionOrder) : DeletionOrder[i] = k
      <4>1. /\ Len(DeletionOrder) = 4
            /\ DeletionOrder[1] = "deployment" /\ DeletionOrder[2] = "certificate"
            /\ DeletionOrder[3] = "service" /\ DeletionOrder[4] = "configMap"
        BY DEF DeletionOrder
      <4>2. 1 \in 1 .. 4 /\ 2 \in 1 .. 4 /\ 3 \in 1 .. 4 /\ 4 \in 1 .. 4
        OBVIOUS
      <4> QED
        BY <4>1, <4>2 DEF Kinds
    <3> QED
      BY <2>1, <3>1 DEF DeletedInOrder
  <2>5. NothingIsLeft' /\ DeploymentCanStart' /\ ConditionsAreTrue'
    BY <1>1 DEF SafeInv, NothingIsLeft, DeploymentCanStart, ConditionsAreTrue, IsTrue, Has, Exists
  <2> QED
    BY <2>2, <2>3, <2>4, <2>5 DEF SafeInv
<1>4. ASSUME NEW failed PROVE GetPolicies(s, failed) \in SUBSET Policies
  BY DEF GetPolicies
<1> QED
  BY <1>2, <1>3, <1>4 DEF StartReconcile

\* A step of Reconcile takes nothing away.
Grows ==
    /\ \A s \in Servers, k \in Kinds : Has(s, k) => Has(s, k)'
    /\ \A s \in Servers \ {worker.server} : object'[s] = object[s]
    /\ rootCA # None => rootCA' # None

Built(k) == object'[worker.server][k] # None

\* It builds in order; what it adds to the conditions is there.
LEMMA BuildSafe ==
  ASSUME TypeInv, SafeInv, worker.pc \in LivePcs, Grows, UNCHANGED << server, serverCache >>,
         worker'.pc \in LivePcs, worker'.server = worker.server, worker'.fresh = worker.fresh,
         worker'.seen.conditions \subseteq Conditions,
         \A c \in worker'.seen.conditions :
            \/ c \in worker.seen.conditions
            \/ IF c = "rootCA" THEN rootCA' # None ELSE Built(c),
         BuiltInOrder',
         Built("deployment") =>
            \/ Has(worker.server, "deployment")
            \/ Has(worker.server, "certificate") /\ Has(worker.server, "configMap")
  PROVE  SafeInv'
<1>1. worker.server \in Servers /\ Exists(worker.server)
  BY DEF TypeInv, WorkerIsOfThisLife, LivePcs
<1>2. ASSUME NEW s \in Servers, NEW c \in Conditions, IsTrue(s, c) PROVE IsTrue(s, c)'
  BY <1>2 DEF Grows, IsTrue, Conditions, Has
<1>3. SeenConditionsAreTrue'
  <2> SUFFICES ASSUME worker.fresh, NEW c \in worker'.seen.conditions
               PROVE  IsTrue(worker.server, c)'
    BY DEF SeenConditionsAreTrue
  <2>1. CASE c \in worker.seen.conditions
    BY <1>1, <1>2, <2>1 DEF SafeInv, SeenConditionsAreTrue
  <2>2. CASE IF c = "rootCA" THEN rootCA' # None ELSE Built(c)
    BY <2>2 DEF Built, IsTrue, Has
  <2> QED
    BY <2>1, <2>2
<1>4. DeletedInOrder'
  BY DEF DeletedInOrder, LivePcs
<1>5. RecreatedHasNothing'
  BY <1>1 DEF SafeInv, RecreatedHasNothing, Grows, TypeInv, WorkerIsOfThisLife, LivePcs,
     DeletingPcs
<1>6. NothingIsLeft'
  BY <1>1 DEF SafeInv, NothingIsLeft, Grows, Exists
<1>7. DeploymentCanStart'
  <2> SUFFICES ASSUME NEW s \in Servers, server[s].phase = "live", Has(s, "deployment")'
               PROVE  Has(s, "certificate")' /\ Has(s, "configMap")'
    BY DEF DeploymentCanStart
  <2>1. Has(s, "deployment") \/ s = worker.server
    BY DEF Grows, Has
  <2>2. Has(s, "certificate") /\ Has(s, "configMap")
    BY <1>1, <2>1 DEF SafeInv, DeploymentCanStart, Built, Has
  <2> QED
    BY <2>2 DEF Grows, Kinds
<1>8. ConditionsAreTrue'
  BY <1>2, ServerConditions DEF SafeInv, ConditionsAreTrue
<1> QED
  BY <1>3, <1>4, <1>5, <1>6, <1>7, <1>8 DEF SafeInv

LEMMA SucceedsMeans ==
  ASSUME TypeInv, worker.pc \in LivePcs \ {"status"}, NEW pc \in LivePcs, Succeeds(pc)
  PROVE  /\ worker'.pc = pc /\ worker'.server = worker.server /\ worker'.fresh = worker.fresh
         /\ worker'.seen.conditions = worker.seen.conditions \cup {worker.pc}
         /\ worker'.seen.conditions \subseteq Conditions
<1> DEFINE conditions == worker.seen.conditions \cup {worker.pc}
           seen       == [worker.seen EXCEPT !.conditions = conditions]
<1>1. conditions \in SUBSET Conditions
  BY SeenType DEF Conditions, Kinds, LivePcs
<1>2. seen.conditions = conditions
  BY SeenType DEF LiveStates
<1>3. worker' = [worker EXCEPT !.pc = pc, !.seen = seen]
  BY DEF Succeeds, TypeInv, TypeOK, WorkerStates
<1> HIDE DEF seen
<1>4. /\ worker'.pc = pc /\ worker'.seen = seen
      /\ worker'.server = worker.server /\ worker'.fresh = worker.fresh
  BY <1>3 DEF TypeInv, TypeOK, WorkerStates
<1> QED
  BY <1>1, <1>2, <1>4

LEMMA ReturnsErrorMeans ==
  ASSUME TypeInv, worker.pc \in LivePcs, ReturnsError
  PROVE  /\ worker'.pc = "status" /\ worker'.server = worker.server /\ worker'.fresh = worker.fresh
         /\ worker'.seen.conditions \subseteq worker.seen.conditions
         /\ worker'.seen.conditions \subseteq Conditions
<1> DEFINE seen == [worker.seen EXCEPT !.conditions = ConditionsAfterError]
<1>1. ConditionsAfterError \subseteq worker.seen.conditions /\ ConditionsAfterError \subseteq Conditions
  BY SeenType DEF ConditionsAfterError
<1>2. seen.conditions = ConditionsAfterError
  BY SeenType DEF LiveStates
<1>3. worker' = [worker EXCEPT !.pc = "status", !.seen = seen, !.failed = TRUE]
  BY DEF ReturnsError, ConditionsAfterError, TypeInv, TypeOK, WorkerStates
<1> HIDE DEF seen
<1>4. /\ worker'.pc = "status" /\ worker'.seen = seen
      /\ worker'.server = worker.server /\ worker'.fresh = worker.fresh
  BY <1>3 DEF TypeInv, TypeOK, WorkerStates
<1> QED
  BY <1>1, <1>2, <1>4

\* A step that fails has built something, or not.
LEMMA ErrorSafe ==
  ASSUME TypeInv, SafeInv, worker.pc \in LivePcs, ReturnsError, Grows,
         UNCHANGED << server, serverCache >>,
         Built("deployment") =>
            \/ Has(worker.server, "deployment")
            \/ Has(worker.server, "certificate") /\ Has(worker.server, "configMap")
  PROVE  SafeInv'
<1>1. BuiltInOrder' /\ worker'.pc \in LivePcs
  BY ReturnsErrorMeans DEF BuiltInOrder, LivePcs
<1> QED
  BY <1>1, ReturnsErrorMeans, BuildSafe

LEMMA RootCASafe ==
  ASSUME TypeInv, SafeInv, ReconcileRootCA PROVE SafeInv'
<1>1. /\ worker.pc = "rootCA" /\ worker.pc \in LivePcs
      /\ UNCHANGED << server, object, serverCache >>
  BY DEF ReconcileRootCA, LivePcs, caches
<1>2. RootCAInHand # None
  BY RootCAType, LifecycleAssumption DEF ReconcileRootCA
<1>3. Grows /\ (Built("deployment") => Has(worker.server, "deployment"))
  <2>1. rootCA # None => rootCA' # None
    BY DEF ReconcileRootCA
  <2> QED
    BY <1>1, <2>1 DEF Grows, Has, Built
<1>4. CASE ReturnsError
  BY <1>1, <1>3, <1>4, ErrorSafe
<1>5. CASE /\ rootCA' = (IF rootCA = None THEN RootCAInHand ELSE rootCA)
           /\ worker' = [worker EXCEPT !.pc = "certificate", !.ca = RootCAInHand,
                                       !.seen.conditions = @ \cup {"rootCA"}]
  <2> DEFINE conditions == worker.seen.conditions \cup {"rootCA"}
             seen       == [worker.seen EXCEPT !.conditions = conditions]
  <2>1. conditions \in SUBSET Conditions
    BY <1>1, SeenType DEF Conditions
  <2>2. seen.conditions = conditions
    BY <1>1, SeenType DEF LiveStates
  <2>3. worker' = [worker EXCEPT !.pc = "certificate", !.ca = RootCAInHand, !.seen = seen]
    BY <1>5 DEF TypeInv, TypeOK, WorkerStates
  <2> HIDE DEF seen
  <2>4. /\ worker'.pc = "certificate" /\ worker'.seen = seen
        /\ worker'.server = worker.server /\ worker'.fresh = worker.fresh
    BY <2>3 DEF TypeInv, TypeOK, WorkerStates
  <2>5. rootCA' # None /\ worker'.pc \in LivePcs
    BY <1>2, <1>5, <2>4 DEF LivePcs
  <2>6. BuiltInOrder'
    BY <2>4, <2>5 DEF BuiltInOrder
  <2>7. \A c \in worker'.seen.conditions :
           \/ c \in worker.seen.conditions
            \/ IF c = "rootCA" THEN rootCA' # None ELSE Built(c)
    BY <2>2, <2>4, <2>5 DEF IsTrue
  <2> QED
    BY <1>1, <1>3, <2>1, <2>2, <2>4, <2>5, <2>6, <2>7, BuildSafe
<1> QED
  BY <1>4, <1>5 DEF ReconcileRootCA

\* What a step builds is there afterwards.
LEMMA SucceedsSafe ==
  ASSUME TypeInv, SafeInv, worker.pc \in Kinds, NEW pc \in LivePcs, Succeeds(pc), Grows,
         UNCHANGED << server, serverCache >>, Built(worker.pc),
         pc \in {"certificate", "configMap", "deployment", "service"} => rootCA # None,
         pc \in {"configMap", "deployment", "service"} => Built("certificate"),
         pc \in {"deployment", "service"} => Built("configMap"),
         Built("deployment") =>
            \/ Has(worker.server, "deployment")
            \/ Has(worker.server, "certificate") /\ Has(worker.server, "configMap")
  PROVE  SafeInv'
<1>1. worker.pc \in LivePcs \ {"status"} /\ worker.pc # "rootCA"
  BY DEF Kinds, LivePcs
<1>2. \A c \in worker'.seen.conditions :
         \/ c \in worker.seen.conditions
         \/ IF c = "rootCA" THEN rootCA' # None ELSE Built(c)
  BY <1>1, SucceedsMeans DEF IsTrue
<1>3. BuiltInOrder'
  BY <1>1, SucceedsMeans DEF BuiltInOrder, Grows, Has, Built
<1> QED
  BY <1>1, <1>2, <1>3, SucceedsMeans, BuildSafe

\* One more object of a PolicyServer, or another in its place.
LEMMA WriteGrows ==
  ASSUME TypeInv, worker.server \in Servers, NEW k \in Kinds, NEW value, value # None,
         object' \in {object, Write(k, value)}, UNCHANGED rootCA
  PROVE  /\ Grows
         /\ \A x \in Kinds \ {k} : Built(x) <=> Has(worker.server, x)
         /\ object' = Write(k, value) => Built(k)
<1>1. CASE UNCHANGED object /\ object' # Write(k, value)
  BY <1>1 DEF Grows, Has, Built, Write, TypeInv, TypeOK, Kinds
<1>2. CASE object' = Write(k, value)
  BY <1>2 DEF Grows, Has, Built, Write, TypeInv, TypeOK, Kinds
<1> QED
  BY <1>1, <1>2

LEMMA WriteIfAbsentGrows ==
  ASSUME TypeInv, worker.server \in Servers, NEW k \in Kinds, NEW value, value # None,
         object' \in {object, WriteIfAbsent(k, value)}, UNCHANGED rootCA
  PROVE  /\ Grows
         /\ \A x \in Kinds \ {k} : Built(x) <=> Has(worker.server, x)
         /\ object' = WriteIfAbsent(k, value) => Built(k)
<1>1. object' \in {object, Write(k, value)}
  BY DEF WriteIfAbsent
<1>2. object' = WriteIfAbsent(k, value) => object' = Write(k, value) \/ Built(k)
  BY DEF WriteIfAbsent, Built, Has
<1> QED
  BY <1>1, <1>2, WriteGrows

\* The steps that build one object each, and fail or succeed.
Builds ==
    /\ worker.pc \in Kinds /\ worker.server \in Servers
    /\ UNCHANGED << server, serverCache, rootCA >> /\ Grows
    /\ \A x \in Kinds \ {worker.pc} : Built(x) <=> Has(worker.server, x)
    /\ \/ ReturnsError
       \/ /\ Built(worker.pc)
          /\ \/ worker.pc = "certificate" /\ Succeeds("configMap")
             \/ worker.pc = "configMap"   /\ Succeeds("deployment")
             \/ worker.pc = "deployment"  /\ Succeeds("service")
             \/ worker.pc = "service"     /\ Succeeds("status")

LEMMA BuildsSafe ==
  ASSUME TypeInv, SafeInv, Builds PROVE SafeInv'
<1> USE DEF Builds
<1>1. /\ worker.pc \in {"certificate", "configMap", "deployment", "service"} => rootCA # None
      /\ worker.pc \in {"configMap", "deployment", "service"} => Has(worker.server, "certificate")
      /\ worker.pc \in {"deployment", "service"} => Has(worker.server, "configMap")
  BY DEF SafeInv, BuiltInOrder
<1>2. worker.pc \in LivePcs /\ {"certificate", "configMap", "deployment", "service"} = Kinds
  BY DEF Kinds, LivePcs
<1>3. Built("deployment") => \/ Has(worker.server, "deployment")
                             \/ Has(worker.server, "certificate") /\ Has(worker.server, "configMap")
  BY <1>1, <1>2
<1>4. CASE ReturnsError
  BY <1>2, <1>3, <1>4, ErrorSafe
<1>5. CASE worker.pc = "certificate" /\ Succeeds("configMap") /\ Built(worker.pc)
  <2>1. "configMap" \in LivePcs
    BY DEF LivePcs
  <2> QED
    BY <1>1, <1>3, <1>5, <2>1, SucceedsSafe
<1>6. CASE worker.pc = "configMap" /\ Succeeds("deployment") /\ Built(worker.pc)
  <2>1. "deployment" \in LivePcs /\ Built("certificate")
    BY <1>1, <1>2, <1>6 DEF LivePcs
  <2> QED
    BY <1>1, <1>3, <1>6, <2>1, SucceedsSafe
<1>7. CASE worker.pc = "deployment" /\ Succeeds("service") /\ Built(worker.pc)
  <2>1. "service" \in LivePcs /\ Built("certificate") /\ Built("configMap")
    BY <1>1, <1>2, <1>7 DEF LivePcs
  <2> QED
    BY <1>1, <1>3, <1>7, <2>1, SucceedsSafe
<1>8. CASE worker.pc = "service" /\ Succeeds("status") /\ Built(worker.pc)
  <2>1. "status" \in LivePcs
    BY DEF LivePcs
  <2> QED
    BY <1>1, <1>3, <1>8, <2>1, SucceedsSafe
<1> QED
  BY <1>4, <1>5, <1>6, <1>7, <1>8

LEMMA CertificateBuilds ==
  ASSUME TypeInv, ReconcileCertificate PROVE Builds
<1> DEFINE value == IF certificateCache[worker.server] = None THEN worker.ca
                                                             ELSE certificateCache[worker.server]
<1>1. /\ worker.pc = "certificate" /\ worker.server \in Servers /\ worker.pc \in Kinds
      /\ UNCHANGED << server, serverCache, rootCA >>
  BY DEF ReconcileCertificate, Kinds, cluster, caches, TypeInv, WorkerIsOfThisLife
<1>2. value # None
  BY <1>1 DEF TypeInv, TypeOK
<1>3. CreatedCertificate(worker.server) = WriteIfAbsent("certificate", value)
  BY DEF CreatedCertificate
<1> HIDE DEF value
<1> QED
  BY <1>1, <1>2, <1>3, WriteIfAbsentGrows DEF Builds, ReconcileCertificate

LEMMA ConfigMapBuilds ==
  ASSUME TypeInv, ReconcileConfigMap PROVE Builds
<1> DEFINE old == object[worker.server]["deployment"]
           d   == IF old = None THEN None ELSE [old EXCEPT !.latest = FALSE]
           m   == configMap(worker.seen.spec, worker.policies)
<1>1. /\ worker.pc = "configMap" /\ worker.server \in Servers /\ worker.pc \in Kinds
      /\ worker.pc \in LivePcs /\ UNCHANGED << server, serverCache, rootCA >>
  BY DEF ReconcileConfigMap, Kinds, LivePcs, cluster, caches, TypeInv, WorkerIsOfThisLife
<1>2. m # None
  <2>1. worker.seen.spec \in Specs /\ worker.policies \in SUBSET Policies
    BY <1>1, SeenType DEF LiveStates, TypeInv, TypeOK, WorkerStates
  <2> QED
    BY <2>1, BuiltType, LifecycleAssumption
<1>3. d # None <=> old # None
  <2>1. old # None => old \in Deployments
    BY <1>1 DEF TypeInv, TypeOK
  <2>2. old \in Deployments => [old EXCEPT !.latest = FALSE] \in Deployments
    BY DEF Deployments
  <2> QED
    BY <2>1, <2>2, LifecycleAssumption
<1>4. ReconciledConfigMap \in
        {object, [[object EXCEPT ![worker.server]["configMap"] = m]
                    EXCEPT ![worker.server]["deployment"] = d]}
  BY DEF ReconciledConfigMap
<1>5. ReconciledConfigMap = object => Has(worker.server, "configMap")
  <2>1. CASE object[worker.server]["configMap"] = m
    BY <1>2, <2>1 DEF Has
  <2>2. CASE object[worker.server]["configMap"] # m
    BY <1>1, <2>2 DEF ReconciledConfigMap, TypeInv, TypeOK
  <2> QED
    BY <2>1, <2>2
<1> HIDE DEF d, m
<1>6. CASE UNCHANGED object
  <2>1. Grows /\ (\A x \in Kinds : Built(x) <=> Has(worker.server, x))
    BY <1>1, <1>6 DEF Grows, Built, Has
  <2> QED
    BY <1>1, <1>5, <1>6, <2>1 DEF Builds, ReconcileConfigMap
<1>7. CASE object' = [[object EXCEPT ![worker.server]["configMap"] = m]
                        EXCEPT ![worker.server]["deployment"] = d]
  <2>1. /\ object'[worker.server]["configMap"] = m
        /\ object'[worker.server]["deployment"] = d
        /\ \A x \in Kinds \ {"configMap", "deployment"} :
              object'[worker.server][x] = object[worker.server][x]
        /\ \A s \in Servers \ {worker.server} : object'[s] = object[s]
    BY <1>1, <1>7 DEF TypeInv, TypeOK, Kinds
  <2>2. /\ Grows /\ Built("configMap")
        /\ \A x \in Kinds \ {"configMap"} : Built(x) <=> Has(worker.server, x)
    BY <1>1, <1>2, <1>3, <2>1 DEF Grows, Built, Has, Kinds
  <2> QED
    BY <1>1, <2>2 DEF Builds, ReconcileConfigMap
<1> QED
  BY <1>4, <1>6, <1>7 DEF ReconcileConfigMap

LEMMA DeploymentBuilds ==
  ASSUME TypeInv, ReconcileDeployment PROVE Builds
<1>1. /\ worker.pc = "deployment" /\ worker.server \in Servers /\ worker.pc \in Kinds
      /\ worker.pc \in LivePcs /\ UNCHANGED << server, serverCache, rootCA >>
  BY DEF ReconcileDeployment, Kinds, LivePcs, cluster, caches, TypeInv, WorkerIsOfThisLife
<1>2. deployment(worker.seen.spec) \in Deployments
  BY <1>1, SeenType, BuiltType DEF LiveStates
<1>3. PICK d \in Deployments : ReconciledDeployment = Write("deployment", d)
  BY <1>1, <1>2, PatchType DEF ReconciledDeployment, Has, TypeInv, TypeOK
<1>4. d # None
  BY LifecycleAssumption
<1>5. object' \in {object, ReconciledDeployment}
  BY DEF ReconcileDeployment
<1>6. /\ Grows
      /\ \A x \in Kinds \ {"deployment"} : Built(x) <=> Has(worker.server, x)
      /\ object' = ReconciledDeployment => Built("deployment")
  BY <1>1, <1>3, <1>4, <1>5, WriteGrows
<1> QED
  BY <1>1, <1>6 DEF Builds, ReconcileDeployment

LEMMA ServiceBuilds ==
  ASSUME TypeInv, ReconcileService PROVE Builds
<1>1. /\ worker.pc = "service" /\ worker.server \in Servers /\ worker.pc \in Kinds
      /\ worker.pc \in LivePcs /\ UNCHANGED << server, serverCache, rootCA >>
  BY DEF ReconcileService, Kinds, LivePcs, cluster, caches, TypeInv, WorkerIsOfThisLife
<1>2. service(worker.seen.spec) # None
  BY <1>1, SeenType, BuiltType, LifecycleAssumption DEF LiveStates
<1> QED
  BY <1>1, <1>2, WriteIfAbsentGrows DEF Builds, ReconcileService, CreatedService

\* Only conditions that are true are saved.
LEMMA UpdateStatusSafe ==
  ASSUME TypeInv, SafeInv, UpdateStatus PROVE SafeInv'
<1> DEFINE s == worker.server
<1>1. /\ worker.pc = "status" /\ worker.pc \in LivePcs /\ s \in Servers
      /\ UNCHANGED << object, rootCA, serverCache >>
  BY DEF UpdateStatus, LivePcs, cluster, caches, TypeInv, WorkerIsOfThisLife
<1>2. worker'.pc = "idle"
  BY IdleType DEF UpdateStatus, Finish
<1>3. CASE UNCHANGED server
  BY <1>1, <1>2, <1>3, QuietSafe
<1>4. CASE worker.fresh /\ server' = [server EXCEPT ![s].conditions = worker.seen.conditions]
  <2>1. server[s] \in LiveStates /\ server[s].phase = "live"
    BY <1>1, <1>4, StateType, SeenType DEF TypeInv, TypeOK, WorkerIsOfThisLife, LiveStates
  <2>2. /\ \A x \in Servers : server'[x].phase = server[x].phase
        /\ \A x \in Servers \ {s} : server'[x] = server[x]
        /\ server'[s].conditions = worker.seen.conditions
    BY <1>1, <1>4, <2>1 DEF TypeInv, TypeOK, LiveStates
  <2>3. SeenConditionsAreTrue' /\ BuiltInOrder' /\ DeletedInOrder'
    BY <1>2 DEF SeenConditionsAreTrue, BuiltInOrder, DeletedInOrder, LivePcs
  <2>4. RecreatedHasNothing' /\ NothingIsLeft' /\ DeploymentCanStart'
    BY <1>1, <1>2, <2>2 DEF SafeInv, RecreatedHasNothing, NothingIsLeft, DeploymentCanStart,
       Exists, Has, DeletingPcs
  <2>5. ConditionsAreTrue'
    BY <1>1, <1>4, <2>2 DEF SafeInv, ConditionsAreTrue, SeenConditionsAreTrue, IsTrue, Has
  <2> QED
    BY <2>3, <2>4, <2>5 DEF SafeInv
<1> QED
  BY <1>3, <1>4 DEF UpdateStatus, SavedStatus

\* The deletion of policies touches nothing the PolicyServer consists of.
LEMMA DeletePoliciesSafe ==
  ASSUME TypeInv, SafeInv, DeletePolicies PROVE SafeInv'
<1>1. /\ worker.pc = "deletePolicies"
      /\ UNCHANGED << server, object, rootCA, serverCache >>
  BY DEF DeletePolicies, cluster, caches
<1>2. CASE worker.policies = {}
  <2>1. worker'.pc = "idle"
    BY <1>2, IdleType DEF DeletePolicies, Finish
  <2> QED
    BY <1>1, <2>1, QuietSafe
<1>3. ASSUME worker.policies # {}, NEW p \in worker.policies,
             worker' = [worker EXCEPT !.policies = @ \ {p}]
      PROVE  SafeInv'
  <2>1. worker'.pc = worker.pc /\ worker'.server = worker.server
    BY <1>3 DEF TypeInv, TypeOK, WorkerStates
  <2>2. SeenConditionsAreTrue' /\ BuiltInOrder' /\ DeletedInOrder'
    BY <1>1, <2>1 DEF SeenConditionsAreTrue, BuiltInOrder, DeletedInOrder, LivePcs
  <2>3. RecreatedHasNothing'
    BY <1>1, <2>1 DEF SafeInv, RecreatedHasNothing
  <2>4. NothingIsLeft' /\ DeploymentCanStart' /\ ConditionsAreTrue'
    BY <1>1 DEF SafeInv, NothingIsLeft, DeploymentCanStart, ConditionsAreTrue, IsTrue, Has, Exists
  <2> QED
    BY <2>2, <2>3, <2>4 DEF SafeInv
<1> QED
  BY <1>2, <1>3 DEF DeletePolicies

\* ReconcileDeletion takes nothing from a PolicyServer that lives again: it has nothing yet.
LEMMA DeleteObjectSafe ==
  ASSUME TypeInv, SafeInv, DeleteObject PROVE SafeInv'
<1> DEFINE s == worker.server
<1>1. /\ worker.pc = "deleteObjects" /\ worker.pc \in DeletingPcs /\ s \in Servers
      /\ UNCHANGED << server, rootCA, serverCache >>
  BY DEF DeleteObject, DeletingPcs, cluster, caches, TypeInv, WorkerIsOfThisLife
<1>2. worker.left \in Seq(Kinds) /\ worker.left # << >>
  BY DEF DeleteObject, TypeInv, TypeOK, WorkerStates
<1>3. PICK k \in Kinds : k = Head(worker.left)
  BY <1>2
<1>4. PICK failed \in BOOLEAN :
        /\ worker' = [worker EXCEPT !.left = Tail(worker.left), !.failed = failed]
        /\ ~failed => ~worker.failed /\ object' = [object EXCEPT ![s][k] = None]
  BY <1>3 DEF DeleteObject, Write, TypeInv, TypeOK, WorkerStates
<1>5. object' \in {object, [object EXCEPT ![s][k] = None]}
  BY <1>3 DEF DeleteObject, Write
<1>6. /\ worker'.pc = worker.pc /\ worker'.server = s
      /\ worker'.left = Tail(worker.left) /\ worker'.failed = failed
  BY <1>4 DEF TypeInv, TypeOK, WorkerStates
<1>7. /\ \A x \in Servers \ {s} : object'[x] = object[x]
      /\ \A x \in Kinds : ~Has(s, x) => object'[s][x] = None
      /\ object'[s] = object[s] \/ object'[s] = [object[s] EXCEPT ![k] = None]
      /\ ~failed => object'[s][k] = None
  BY <1>1, <1>4, <1>5 DEF Has, TypeInv, TypeOK, Kinds
<1>8. object[s] = NoObjects => object'[s] = NoObjects
  BY <1>7 DEF NoObjects, Kinds
<1>9. SeenConditionsAreTrue' /\ BuiltInOrder'
  BY <1>1, <1>6 DEF SeenConditionsAreTrue, BuiltInOrder, LivePcs
<1>10. DeletedInOrder'
  <2> SUFFICES ASSUME ~failed, NEW x \in Kinds,
                      ~\E i \in 1 .. Len(Tail(worker.left)) : Tail(worker.left)[i] = x
               PROVE  object'[s][x] = None
    BY <1>6 DEF DeletedInOrder, Has
  <2>1. CASE x = k
    BY <1>7, <2>1
  <2>2. CASE x # k
    <3>1. ~\E i \in 1 .. Len(worker.left) : worker.left[i] = x
      <4> SUFFICES ASSUME NEW i \in 1 .. Len(worker.left), worker.left[i] = x
                   PROVE  FALSE
        OBVIOUS
      <4>1. i # 1 /\ Len(worker.left) \in Nat
        BY <1>2, <1>3, <2>2
      <4>2. i - 1 \in 1 .. Len(Tail(worker.left)) /\ Tail(worker.left)[i - 1] = worker.left[i]
        BY <1>2, <4>1
      <4> QED
        BY <4>2
    <3>2. ~Has(s, x)
      BY <1>1, <1>4, <3>1 DEF SafeInv, DeletedInOrder
    <3> QED
      BY <1>7, <3>2
  <2> QED
    BY <2>1, <2>2
<1>11. RecreatedHasNothing'
  BY <1>1, <1>6, <1>7, <1>8 DEF SafeInv, RecreatedHasNothing
<1>12. NothingIsLeft'
  BY <1>1, <1>7, <1>8 DEF SafeInv, NothingIsLeft, Exists
<1>13. server[s].phase = "live" => object'[s] = object[s]
  BY <1>1, <1>8 DEF SafeInv, RecreatedHasNothing
<1>14. DeploymentCanStart' /\ ConditionsAreTrue'
  BY <1>1, <1>7, <1>13 DEF SafeInv, DeploymentCanStart, ConditionsAreTrue, IsTrue, Has
<1> QED
  BY <1>9, <1>10, <1>11, <1>12, <1>14 DEF SafeInv

\* The finalizer goes only when all four deletes of this reconcile succeeded.
LEMMA RemoveFinalizerSafe ==
  ASSUME TypeInv, SafeInv, RemoveFinalizer PROVE SafeInv'
<1> DEFINE s == worker.server
<1>1. /\ worker.pc = "deleteObjects" /\ s \in Servers /\ worker.left = << >>
      /\ UNCHANGED << object, rootCA, serverCache >>
  BY DEF RemoveFinalizer, cluster, caches, TypeInv, WorkerIsOfThisLife
<1>2. worker'.pc = "idle"
  BY IdleType DEF RemoveFinalizer, Finish
<1>3. CASE UNCHANGED server
  BY <1>1, <1>2, <1>3, QuietSafe
<1>4. CASE ~worker.failed /\ server' = [server EXCEPT ![s] = NoServer]
  <2>1. \A k \in Kinds : ~Has(s, k)
    BY <1>1, <1>4 DEF SafeInv, DeletedInOrder
  <2>2. object[s] = NoObjects
    BY <1>1, <2>1, NothingMeans
  <2>3. server'[s].phase = "absent" /\ \A x \in Servers \ {s} : server'[x] = server[x]
    BY <1>1, <1>4 DEF NoServer, TypeInv, TypeOK
  <2>4. SeenConditionsAreTrue' /\ BuiltInOrder' /\ DeletedInOrder'
    BY <1>2 DEF SeenConditionsAreTrue, BuiltInOrder, DeletedInOrder, LivePcs
  <2>5. RecreatedHasNothing' /\ NothingIsLeft'
    BY <1>1, <1>2, <2>2, <2>3 DEF SafeInv, RecreatedHasNothing, NothingIsLeft, Exists, DeletingPcs
  <2>6. DeploymentCanStart' /\ ConditionsAreTrue'
    BY <1>1, <2>3 DEF SafeInv, DeploymentCanStart, ConditionsAreTrue, IsTrue, Has
  <2> QED
    BY <2>4, <2>5, <2>6 DEF SafeInv
<1> QED
  BY <1>3, <1>4 DEF RemoveFinalizer, ObjectsDeleted

LEMMA CrashSafe ==
  ASSUME TypeInv, SafeInv, Crash PROVE SafeInv'
<1>1. UNCHANGED << server, object, rootCA >> /\ serverCache' = server /\ worker'.pc = "idle"
  BY IdleType DEF Crash, cluster
<1> QED
  BY <1>1, QuietSafe

LEMMA OthersSafe ==
  ASSUME TypeInv, SafeInv,
         \/ \E spec \in Specs : CreatePullSecret(spec.pullSecret)
         \/ \E p \in Policies : CreatePolicy(p) \/ DeletePolicy(p)
         \/ \E s \in Servers : SyncServer(s)
         \/ \E p \in Policies : SyncPolicy(p) \/ ReconcilePolicy(p)
         \/ SyncSecrets
  PROVE  SafeInv'
<1>1. ASSUME NEW s \in Servers, SyncServer(s) PROVE SafeInv'
  <2>1. /\ UNCHANGED << server, object, rootCA, worker >>
        /\ serverCache' = [serverCache EXCEPT ![s] = server[s]]
    BY <1>1 DEF SyncServer, cluster
  <2> QED
    BY <2>1, QuietSafe DEF TypeInv, TypeOK
<1>2. CASE \/ \E spec \in Specs : CreatePullSecret(spec.pullSecret)
           \/ \E p \in Policies : CreatePolicy(p) \/ DeletePolicy(p)
           \/ \E p \in Policies : SyncPolicy(p) \/ ReconcilePolicy(p)
           \/ SyncSecrets
  <2>1. UNCHANGED << server, object, rootCA, serverCache, worker >>
    BY <1>2 DEF CreatePullSecret, CreatePolicy, DeletePolicy, SyncPolicy, SyncSecrets, ReconcilePolicy,
       RegisterWebhook, DeleteWebhook, FinishPolicy, cluster, caches
  <2> QED
    BY <2>1, QuietSafe
<1> QED
  BY <1>1, <1>2

LEMMA StepSafe ==
  ASSUME TypeInv, SafeInv, [Next]_vars PROVE SafeInv'
<1>1. CASE UNCHANGED vars
  BY <1>1, QuietSafe DEF vars
<1>2. CASE Users
  BY <1>2, WriteServerSafe, DeleteServerSafe, RestartSafe, OthersSafe DEF Users
<1>3. CASE Reconcile
  BY <1>3, StartSafe, RootCASafe, BuildsSafe, CertificateBuilds, ConfigMapBuilds, DeploymentBuilds,
     ServiceBuilds, UpdateStatusSafe, DeletePoliciesSafe, DeleteObjectSafe, RemoveFinalizerSafe DEF Reconcile
<1> QED
  BY <1>1, <1>2, <1>3, OthersSafe, CrashSafe DEF Next

\* The inductive invariant holds, whatever fails and however stale the caches are.
THEOREM LifecycleInvariant == Spec => []IInv
<1>1. Init => IInv
  BY InitType, InitSafe, IInvParts
<1>2. IInv /\ [Next]_vars => IInv'
  BY StepType, StepSafe DEF IInv, TypeInv, SafeInv
<1> QED
  BY <1>1, <1>2, PTL DEF Spec

\* Nothing is left of a PolicyServer that is gone.
THEOREM DeletionLeavesNothing == Spec => []NothingIsLeft
<1>1. IInv => NothingIsLeft
  BY DEF IInv
<1> QED
  BY <1>1, LifecycleInvariant, PTL

\* What the Deployment of a live PolicyServer mounts exists.
THEOREM DeploymentFindsItsParts == Spec => []DeploymentCanStart
<1>1. IInv => DeploymentCanStart
  BY DEF IInv
<1> QED
  BY <1>1, LifecycleInvariant, PTL

\* The conditions of a live PolicyServer that are True are true.
THEOREM ConditionsHold == Spec => []ConditionsAreTrue
<1>1. IInv => ConditionsAreTrue
  BY DEF IInv
<1> QED
  BY <1>1, LifecycleInvariant, PTL

\* A patch that takes a restart back differs from the Deployment in another part, too.
LEMMA PatchKeepsRestart ==
  ASSUME NEW d \in Deployments, NEW new \in Deployments, d.restarted,
         ~updatePolicyServerDeployment(d, new).restarted
  PROVE  [d EXCEPT !.restarted = FALSE] # updatePolicyServerDeployment(d, new)
<1>1. shouldUpdatePolicyServerDeployment(d, new) /\ updatePolicyServerDeployment(d, new) = new
  BY DEF updatePolicyServerDeployment
<1> SUFFICES ASSUME new = [d EXCEPT !.restarted = FALSE] PROVE FALSE
  BY <1>1
<1>2. /\ new.replicas = d.replicas /\ new.image = d.image /\ new.account = d.account
      /\ new.latest = d.latest /\ new.env = d.env /\ new.annotations = d.annotations
  BY DEF Deployments
<1> QED
  BY <1>1, <1>2 DEF shouldUpdatePolicyServerDeployment, isPolicyServerImageChanged,
     haveEqualAnnotationsWithoutRestart

KeepsRestart(s) ==
    Has(s, "deployment") /\ object'[s]["deployment"] # None =>
       LET d == object[s]["deployment"] new == object'[s]["deployment"] IN
       d.restarted /\ ~new.restarted => [d EXCEPT !.restarted = FALSE] # new

LEMMA StepKeepsRestart ==
  ASSUME TypeInv, [Next]_vars, NEW s \in Servers PROVE KeepsRestart(s)
<1>1. CASE object'[s]["deployment"] = object[s]["deployment"]
  BY <1>1 DEF KeepsRestart
<1>2. CASE object'[s]["deployment"] = None
  BY <1>2 DEF KeepsRestart
<1>3. ASSUME NEW x \in Servers, RestartRollout(x) PROVE KeepsRestart(s)
  <2>1. object[x]["deployment"] \in Deployments
    BY <1>3 DEF RestartRollout, Has, TypeInv, TypeOK
  <2>2. [object[x]["deployment"] EXCEPT !.restarted = TRUE].restarted
    BY <2>1 DEF Deployments
  <2> DEFINE d == [object[x]["deployment"] EXCEPT !.restarted = TRUE]
  <2>3. object' = [object EXCEPT ![x]["deployment"] = d]
    BY <1>3 DEF RestartRollout
  <2> HIDE DEF d
  <2>4. object'[s]["deployment"] = object[s]["deployment"] \/ object'[s]["deployment"] = d
    BY <2>3 DEF TypeInv, TypeOK
  <2> QED
    BY <1>1, <2>2, <2>4 DEF KeepsRestart, d
<1>4. ASSUME worker.server \in Servers, NEW k \in Kinds \ {"deployment"}, NEW value,
             object' \in {object, Write(k, value)}
      PROVE  KeepsRestart(s)
  <2>1. object'[s]["deployment"] = object[s]["deployment"]
    BY <1>4 DEF Write, TypeInv, TypeOK, Kinds
  <2> QED
    BY <1>1, <2>1
<1>5. CASE ReconcileCertificate
  <2>1. worker.server \in Servers /\ "certificate" \in Kinds \ {"deployment"}
    BY <1>5 DEF ReconcileCertificate, Kinds, TypeInv, WorkerIsOfThisLife
  <2> QED
    BY <1>4, <1>5, <2>1 DEF ReconcileCertificate, CreatedCertificate, WriteIfAbsent
<1>6. CASE ReconcileService
  <2>1. worker.server \in Servers /\ "service" \in Kinds \ {"deployment"}
    BY <1>6 DEF ReconcileService, Kinds, TypeInv, WorkerIsOfThisLife
  <2> QED
    BY <1>4, <1>6, <2>1 DEF ReconcileService, CreatedService, WriteIfAbsent
<1>7. CASE ReconcileConfigMap
  <2> DEFINE old == object[worker.server]["deployment"]
             d   == IF old = None THEN None ELSE [old EXCEPT !.latest = FALSE]
             m   == configMap(worker.seen.spec, worker.policies)
  <2>1. worker.server \in Servers
    BY <1>7 DEF ReconcileConfigMap, TypeInv, WorkerIsOfThisLife
  <2>2. object' \in {object, [[object EXCEPT ![worker.server]["configMap"] = m]
                                EXCEPT ![worker.server]["deployment"] = d]}
    BY <1>7 DEF ReconcileConfigMap, ReconciledConfigMap
  <2>3. old # None => old \in Deployments
    BY <2>1 DEF TypeInv, TypeOK
  <2>4. old \in Deployments => [old EXCEPT !.latest = FALSE].restarted = old.restarted
    BY DEF Deployments
  <2> HIDE DEF d, m
  <2>5. \/ object'[s]["deployment"] = object[s]["deployment"]
        \/ s = worker.server /\ object'[s]["deployment"] = d
    BY <2>1, <2>2 DEF TypeInv, TypeOK
  <2> QED
    BY <1>1, <2>3, <2>4, <2>5 DEF KeepsRestart, Has, d
<1>8. CASE ReconcileDeployment
  <2>1. worker.server \in Servers /\ worker.pc \in LivePcs
    BY <1>8 DEF ReconcileDeployment, LivePcs, TypeInv, WorkerIsOfThisLife
  <2>2. deployment(worker.seen.spec) \in Deployments
    BY <2>1, SeenType, BuiltType DEF LiveStates
  <2> DEFINE new == updatePolicyServerDeployment(object[worker.server]["deployment"],
                                                 deployment(worker.seen.spec))
  <2>3. Has(worker.server, "deployment") => object' \in {object, Write("deployment", new)}
    BY <1>8 DEF ReconcileDeployment, ReconciledDeployment
  <2>4. Has(worker.server, "deployment") => object[worker.server]["deployment"] \in Deployments
    BY <2>1 DEF Has, TypeInv, TypeOK
  <2>5. s # worker.server => object'[s]["deployment"] = object[s]["deployment"]
    BY <1>8, <2>1 DEF ReconcileDeployment, ReconciledDeployment, Write, TypeInv, TypeOK
  <2>6. Has(worker.server, "deployment") /\ s = worker.server
           => object'[s]["deployment"] \in {object[s]["deployment"], new}
    <3> HIDE DEF new
    <3> QED
      BY <2>1, <2>3 DEF Write, TypeInv, TypeOK
  <2> QED
    BY <1>1, <2>2, <2>4, <2>5, <2>6, PatchKeepsRestart DEF KeepsRestart
<1>9. CASE DeleteObject
  <2>1. worker.server \in Servers
    BY <1>9 DEF DeleteObject, TypeInv, WorkerIsOfThisLife
  <2>2. PICK k \in Kinds : k = Head(worker.left)
    BY <1>9 DEF DeleteObject, TypeInv, TypeOK, WorkerStates
  <2>3. object' \in {object, [object EXCEPT ![worker.server][k] = None]}
    BY <1>9, <2>2 DEF DeleteObject, Write
  <2>4. object'[s]["deployment"] \in {object[s]["deployment"], None}
    BY <2>1, <2>3 DEF TypeInv, TypeOK, Kinds
  <2> QED
    BY <1>1, <1>2, <2>4
<1>10. ASSUME UNCHANGED object PROVE KeepsRestart(s)
  BY <1>1, <1>10
<1>11. CASE Reconcile
  <2>1. (\E x \in Servers : StartReconcile(x)) \/ ReconcileRootCA \/ UpdateStatus \/ DeletePolicies
           \/ RemoveFinalizer => UNCHANGED object
    BY DEF StartReconcile, ReconcileRootCA, UpdateStatus, DeletePolicies, RemoveFinalizer
  <2> QED
    BY <1>5, <1>6, <1>7, <1>8, <1>9, <1>10, <1>11, <2>1 DEF Reconcile
<1>12. CASE Users
  <2>1. (\E x \in Servers : WriteServer(x) \/ DeleteServer(x))
           \/ (\E spec \in Specs : CreatePullSecret(spec.pullSecret))
           \/ (\E p \in Policies : CreatePolicy(p) \/ DeletePolicy(p)) => UNCHANGED object
    BY DEF WriteServer, DeleteServer, CreatePullSecret, CreatePolicy, DeletePolicy
  <2> QED
    BY <1>3, <1>10, <1>12, <2>1 DEF Users
<1>13. (\E x \in Servers : SyncServer(x)) \/ (\E p \in Policies : SyncPolicy(p) \/ ReconcilePolicy(p))
          \/ SyncSecrets \/ Crash \/ UNCHANGED vars => UNCHANGED object
  BY DEF SyncServer, SyncPolicy, SyncSecrets, ReconcilePolicy, RegisterWebhook, DeleteWebhook,
     FinishPolicy, Crash, vars
<1> QED
  BY <1>10, <1>11, <1>12, <1>13 DEF Next

\* A restart that a user asked for is taken back only when the Deployment has to change.
THEOREM RestartKept == Spec => RestartIsKept
<1>1. TypeInv /\ [Next]_vars =>
        [\A s \in Servers :
          Has(s, "deployment") /\ object'[s]["deployment"] # None =>
             LET d == object[s]["deployment"] new == object'[s]["deployment"] IN
             d.restarted /\ ~new.restarted => [d EXCEPT !.restarted = FALSE] # new]_vars
  BY StepKeepsRestart DEF KeepsRestart
<1> QED
  BY <1>1, InitType, StepType, PTL DEF Spec, RestartIsKept

-----------------------------------------------------------------------------
(* PolicyServerLifecycle implements PolicyServerOwnership: every step makes, *)
(* takes, reports or removes one thing of one PolicyServer, or nothing.      *)

Implements == [Ownership!Next]_(Ownership!vars)

\* Nothing of what PolicyServerOwnership speaks of changes.
LEMMA QuietImplements ==
  ASSUME UNCHANGED << phase, owned, reported, shared >> PROVE Implements
  BY DEF Implements, Ownership!vars

LEMMA SameObjects ==
  ASSUME \A s \in Servers, k \in Kinds : Has(s, k)' <=> Has(s, k) PROVE UNCHANGED owned
  BY DEF owned

\* Nor does it when PolicyServers, objects and the root CA stay.
LEMMA FrameImplements ==
  ASSUME UNCHANGED << server, object, rootCA >> PROVE Implements
<1>1. UNCHANGED << phase, owned, reported, shared >>
  BY DEF phase, owned, reported, shared, Has
<1> QED
  BY <1>1, QuietImplements

LEMMA WriteServerImplements ==
  ASSUME IInv, NEW s \in Servers, WriteServer(s) PROVE Implements
<1>1. PICK spec \in Specs : server' = [server EXCEPT ![s].phase = "live", ![s].spec = spec]
  BY DEF WriteServer
<1>2. UNCHANGED << object, rootCA >> /\ server[s].phase \in {"absent", "live"}
  BY DEF WriteServer
<1>3. /\ server'[s].phase = "live" /\ server'[s].conditions = server[s].conditions
      /\ \A x \in Servers \ {s} : server'[x] = server[x]
  BY <1>1 DEF IInv, TypeOK, ServerStates, NoServer
<1>4. UNCHANGED << owned, reported, shared >>
  BY <1>2, <1>3 DEF owned, reported, shared, Has
<1>5. phase' = [phase EXCEPT ![s] = "live"]
  BY <1>3 DEF phase
<1>6. CASE server[s].phase = "live"
  <2>1. UNCHANGED phase
    BY <1>3, <1>6 DEF phase
  <2> QED
    BY <1>4, <2>1, QuietImplements
<1>7. CASE server[s].phase = "absent"
  <2>1. phase[s] = "absent" /\ owned[s] = {}
    BY <1>7 DEF phase, owned, Has, IInv, NothingIsLeft, Exists, NoObjects
  <2>2. Ownership!Create(s)
    BY <1>4, <1>5, <2>1 DEF Ownership!Create
  <2> QED
    BY <2>2 DEF Implements, Ownership!Next
<1> QED
  BY <1>2, <1>6, <1>7

LEMMA DeleteServerImplements ==
  ASSUME IInv, NEW s \in Servers, DeleteServer(s) PROVE Implements
<1>1. /\ server[s].phase = "live" /\ server' = [server EXCEPT ![s].phase = "deleting"]
      /\ UNCHANGED << object, rootCA >>
  BY DEF DeleteServer, cluster
<1>2. server[s] \in LiveStates
  BY <1>1, StateType DEF IInv, TypeOK, LiveStates
<1>3. /\ server'[s].phase = "deleting" /\ server'[s].conditions = server[s].conditions
      /\ \A x \in Servers \ {s} : server'[x] = server[x]
  BY <1>1, <1>2 DEF IInv, TypeOK, LiveStates
<1>4. UNCHANGED reported
  <2>1. \A x \in Servers : server'[x].conditions = server[x].conditions
    BY <1>3
  <2> QED
    BY <2>1 DEF reported
<1>5. UNCHANGED << owned, shared >>
  BY <1>1 DEF owned, shared, Has
<1>6. phase' = [phase EXCEPT ![s] = "deleting"]
  BY <1>3 DEF phase
<1>7. Ownership!Delete(s)
  BY <1>1, <1>4, <1>5, <1>6 DEF Ownership!Delete, phase
<1> QED
  BY <1>7 DEF Implements, Ownership!Next

LEMMA RestartImplements ==
  ASSUME IInv, NEW s \in Servers, RestartRollout(s) PROVE Implements
<1> DEFINE d == [object[s]["deployment"] EXCEPT !.restarted = TRUE]
<1>1. object[s]["deployment"] \in Deployments /\ object[s]["deployment"] # None
  BY DEF RestartRollout, Has, IInv, TypeOK
<1>2. d # None
  BY <1>1, LifecycleAssumption DEF Deployments
<1>3. object' = [object EXCEPT ![s]["deployment"] = d] /\ UNCHANGED << server, rootCA >>
  BY DEF RestartRollout, cluster
<1> HIDE DEF d
<1>4. \A x \in Servers, k \in Kinds : Has(x, k)' <=> Has(x, k)
  BY <1>1, <1>2, <1>3 DEF Has, Kinds, IInv, TypeOK
<1> QED
  BY <1>3, <1>4, SameObjects, QuietImplements DEF phase, reported, shared

LEMMA RootCAImplements ==
  ASSUME IInv, ReconcileRootCA PROVE Implements
<1>1. UNCHANGED << server, object >> /\ (shared => shared')
  BY DEF ReconcileRootCA, shared
<1>2. UNCHANGED << phase, owned, reported >>
  BY <1>1 DEF phase, owned, reported, Has
<1>3. CASE shared' = shared
  BY <1>2, <1>3, QuietImplements
<1>4. CASE shared' = TRUE
  BY <1>2, <1>4 DEF Implements, Ownership!Next, Ownership!Share
<1>5. shared \in BOOLEAN /\ shared' \in BOOLEAN
  BY DEF shared
<1> QED
  BY <1>1, <1>3, <1>4, <1>5

\* A step of Reconcile makes the object it is named after, for a PolicyServer that
\* exists, after what that object needs.
LEMMA BuildImplements ==
  ASSUME IInv, Builds PROVE Implements
<1> USE DEF Builds
<1> DEFINE s == worker.server k == worker.pc
<1>1. UNCHANGED << phase, reported, shared >>
  BY DEF phase, reported, shared
<1>2. \A x \in Servers \ {s}, j \in Kinds : Has(x, j)' <=> Has(x, j)
  BY DEF Grows, Has
<1>3. \A j \in Kinds \ {k} : object'[s][j] # None <=> Has(s, j)
  BY DEF Built
<1>4. CASE object'[s][k] # None <=> Has(s, k)
  <2>1. \A j \in Kinds : object'[s][j] # None <=> Has(s, j)
    BY <1>3, <1>4
  <2>2. UNCHANGED owned
    <3>1. \A x \in Servers : { j \in Kinds : object'[x][j] # None } = { j \in Kinds : object[x][j] # None }
      BY <1>2, <2>1 DEF Has
    <3> QED
      BY <3>1 DEF owned, Has
  <2> QED
    BY <1>1, <2>2, QuietImplements
<1>5. CASE object'[s][k] # None
  <2>1. owned' = [owned EXCEPT ![s] = @ \cup {k}]
    <3>1. \A x \in Servers \ {s} :
             { j \in Kinds : object'[x][j] # None } = { j \in Kinds : object[x][j] # None }
      BY <1>2 DEF Has
    <3>2. { j \in Kinds : object'[s][j] # None } = { j \in Kinds : object[s][j] # None } \cup {k}
      BY <1>3, <1>5 DEF Has
    <3> QED
      BY <3>1, <3>2 DEF owned, Has
  <2>2. phase[s] # "absent"
    BY DEF phase, IInv, WorkerIsOfThisLife, Exists, Kinds, LivePcs
  <2>3. Needs[k] \subseteq Ownership!Available(s)
    <3>1. /\ k = "certificate" => rootCA # None
          /\ k = "deployment" => Has(s, "certificate") /\ Has(s, "configMap")
      BY DEF IInv, BuiltInOrder
    <3> QED
      BY <3>1 DEF Needs, Kinds, Ownership!Available, owned, shared
  <2>4. Ownership!Build(s, k)
    BY <1>1, <2>1, <2>2, <2>3 DEF Ownership!Build
  <2> QED
    BY <2>4 DEF Implements, Ownership!Next
<1>6. Has(s, k) => object'[s][k] # None
  BY DEF Grows, Has
<1> QED
  BY <1>4, <1>5, <1>6

\* What is saved as the status of a live PolicyServer is there.
LEMMA UpdateStatusImplements ==
  ASSUME IInv, UpdateStatus PROVE Implements
<1> DEFINE s          == worker.server
           conditions == worker.seen.conditions
<1>1. /\ worker.pc = "status" /\ worker.pc \in LivePcs /\ s \in Servers
      /\ UNCHANGED << object, rootCA >>
  BY DEF UpdateStatus, LivePcs, cluster, IInv, WorkerIsOfThisLife
<1>2. CASE UNCHANGED server
  BY <1>1, <1>2, FrameImplements
<1>3. CASE worker.fresh /\ server' = SavedStatus(s)
  <2>1. /\ conditions \in SUBSET Conditions /\ server[s].phase = "live" /\ server[s] \in LiveStates
        /\ \A c \in conditions : IsTrue(s, c)
    BY <1>1, <1>3, IInvParts, SeenType, StateType DEF IInv, TypeOK, WorkerIsOfThisLife,
       SeenConditionsAreTrue, LiveStates
  <2>2. /\ \A x \in Servers \ {s} : server'[x] = server[x]
        /\ server'[s].phase = server[s].phase /\ server'[s].conditions = conditions
    BY <1>1, <1>3, <2>1 DEF SavedStatus, IInv, TypeOK, LiveStates
  <2>3. UNCHANGED phase
    <3>1. \A x \in Servers : server'[x].phase = server[x].phase
      BY <2>2
    <3> QED
      BY <3>1 DEF phase
  <2>4. UNCHANGED << owned, shared >>
    BY <1>1 DEF owned, shared, Has
  <2>5. reported' = [reported EXCEPT ![s] = conditions]
    BY <2>2 DEF reported
  <2>6. conditions \subseteq Ownership!Available(s)
    BY <1>1, <2>1 DEF Ownership!Available, owned, shared, IsTrue, Conditions
  <2>7. Ownership!Report(s, conditions)
    BY <1>1, <2>1, <2>3, <2>4, <2>5, <2>6 DEF Ownership!Report, phase
  <2> QED
    BY <1>1, <2>1, <2>7 DEF Implements, Ownership!Next, Conditions
<1> QED
  BY <1>2, <1>3 DEF UpdateStatus

\* ReconcileDeletion takes an object from a PolicyServer that is being deleted; one that
\* lives again has none yet.
LEMMA DeleteObjectImplements ==
  ASSUME IInv, DeleteObject PROVE Implements
<1> DEFINE s == worker.server
<1>1. /\ worker.pc = "deleteObjects" /\ worker.pc \in DeletingPcs /\ s \in Servers
      /\ UNCHANGED << server, rootCA >>
  BY DEF DeleteObject, DeletingPcs, cluster, IInv, WorkerIsOfThisLife
<1>2. PICK k \in Kinds : object' \in {object, [object EXCEPT ![s][k] = None]}
  <2>1. worker.left \in Seq(Kinds) /\ worker.left # << >>
    BY DEF DeleteObject, IInv, TypeOK, WorkerStates
  <2>2. PICK k \in Kinds : k = Head(worker.left)
    BY <2>1
  <2> QED
    BY <2>2 DEF DeleteObject, Write
<1>3. CASE UNCHANGED object
  BY <1>1, <1>3, FrameImplements
<1>4. CASE object' = [object EXCEPT ![s][k] = None]
  <2>1. /\ \A x \in Servers \ {s} : object'[x] = object[x]
        /\ \A j \in Kinds \ {k} : object'[s][j] = object[s][j]
        /\ object'[s][k] = None
    BY <1>1, <1>4 DEF IInv, TypeOK, Kinds
  <2>2. CASE Has(s, k)
    <3>1. object[s] # NoObjects
      BY <2>2 DEF Has, NoObjects
    <3>2. server[s].phase = "deleting"
      BY <1>1, <3>1, StateType DEF IInv, TypeOK, NothingIsLeft, RecreatedHasNothing, Exists
    <3>3. owned' = [owned EXCEPT ![s] = @ \ {k}]
      <4>1. \A x \in Servers \ {s} :
               { j \in Kinds : object'[x][j] # None } = { j \in Kinds : object[x][j] # None }
        BY <2>1
      <4>2. { j \in Kinds : object'[s][j] # None } = { j \in Kinds : object[s][j] # None } \ {k}
        BY <2>1
      <4> QED
        BY <4>1, <4>2 DEF owned, Has
    <3>4. Ownership!Demolish(s, k)
      BY <1>1, <3>2, <3>3 DEF Ownership!Demolish, phase, reported, shared
    <3> QED
      BY <1>1, <3>4 DEF Implements, Ownership!Next
  <2>3. CASE ~Has(s, k)
    <3>1. \A x \in Servers, j \in Kinds : Has(x, j)' <=> Has(x, j)
      BY <2>1, <2>3 DEF Has
    <3> QED
      BY <1>1, <3>1, SameObjects, QuietImplements DEF phase, reported, shared
  <2> QED
    BY <2>2, <2>3
<1> QED
  BY <1>2, <1>3, <1>4

\* The finalizer goes when nothing is left.
LEMMA RemoveFinalizerImplements ==
  ASSUME IInv, RemoveFinalizer PROVE Implements
<1> DEFINE s == worker.server
<1>1. /\ worker.pc = "deleteObjects" /\ worker.pc \in DeletingPcs /\ s \in Servers
      /\ worker.left = << >> /\ UNCHANGED << object, rootCA >>
  BY DEF RemoveFinalizer, DeletingPcs, cluster, IInv, WorkerIsOfThisLife
<1>2. CASE UNCHANGED server
  BY <1>1, <1>2, FrameImplements
<1>3. CASE ~worker.failed /\ worker.fresh /\ server' = [server EXCEPT ![s] = NoServer]
  <2>1. /\ \A x \in Servers \ {s} : server'[x] = server[x]
        /\ server'[s].phase = "absent" /\ server'[s].conditions = {}
    BY <1>1, <1>3 DEF NoServer, IInv, TypeOK
  <2>2. server[s].phase = "deleting"
    BY <1>1, <1>3 DEF IInv, WorkerIsOfThisLife
  <2>3. \A k \in Kinds : ~Has(s, k)
    BY <1>1, <1>3 DEF IInv, DeletedInOrder
  <2>4. owned[s] = {} /\ UNCHANGED << owned, shared >>
    BY <1>1, <2>3 DEF owned, shared, Has
  <2>5. phase' = [phase EXCEPT ![s] = "absent"]
    BY <2>1 DEF phase
  <2>6. reported' = [reported EXCEPT ![s] = {}]
    BY <2>1 DEF reported
  <2>7. Ownership!Remove(s)
    BY <1>1, <2>2, <2>4, <2>5, <2>6 DEF Ownership!Remove, phase
  <2> QED
    BY <1>1, <2>7 DEF Implements, Ownership!Next
<1> QED
  BY <1>2, <1>3 DEF RemoveFinalizer, ObjectsDeleted

\* The rest of the reconciler, the informers, the policies, and restarts of the controller.
LEMMA OthersImplement ==
  ASSUME \/ \E spec \in Specs : CreatePullSecret(spec.pullSecret)
         \/ \E p \in Policies : CreatePolicy(p) \/ DeletePolicy(p)
         \/ \E s \in Servers : SyncServer(s) \/ StartReconcile(s)
         \/ \E p \in Policies : SyncPolicy(p) \/ ReconcilePolicy(p)
         \/ SyncSecrets \/ DeletePolicies \/ Crash \/ UNCHANGED vars
  PROVE  Implements
<1>1. UNCHANGED << server, object, rootCA >>
  BY DEF CreatePullSecret, CreatePolicy, DeletePolicy, SyncServer, StartReconcile, SyncPolicy,
     ReconcilePolicy, RegisterWebhook, DeleteWebhook, FinishPolicy, SyncSecrets, DeletePolicies,
     Crash, cluster, vars
<1> QED
  BY <1>1, FrameImplements

\* No PolicyServer, nothing owned.
LEMMA InitImplements == Init => Ownership!Init
  BY DEF Init, Ownership!Init, phase, owned, reported, shared, Has, NoServer, NoObjects, Kinds

LEMMA NextImplements == IInv /\ [Next]_vars => Implements
<1> SUFFICES ASSUME IInv, [Next]_vars PROVE Implements
  OBVIOUS
<1>1. CASE Users
  BY <1>1, WriteServerImplements, DeleteServerImplements, RestartImplements, OthersImplement DEF Users
<1>2. CASE Reconcile
  <2>1. ReconcileCertificate \/ ReconcileConfigMap \/ ReconcileDeployment \/ ReconcileService
           => Implements
    BY IInvParts, CertificateBuilds, ConfigMapBuilds, DeploymentBuilds, ServiceBuilds,
       BuildImplements
  <2> QED
    BY <1>2, <2>1, RootCAImplements, UpdateStatusImplements, DeleteObjectImplements,
       RemoveFinalizerImplements, OthersImplement DEF Reconcile
<1> QED
  BY <1>1, <1>2, OthersImplement DEF Next

\* The reconciler, with its stale copies, failing calls and restarts, keeps the promise of
\* PolicyServerOwnership: nothing is taken from a live PolicyServer, nothing is made for
\* one that does not exist, and none goes before all that it had.
THEOREM LifecycleImplementsOwnership == Spec => ImplementsOwnership
<1>1. Init => Ownership!Init
  BY InitImplements
<1>2. IInv /\ [Next]_vars => [Ownership!Next]_(Ownership!vars)
  BY NextImplements DEF Implements
<1> QED
  BY <1>1, <1>2, LifecycleInvariant, PTL DEF Spec, ImplementsOwnership, Ownership!Spec
=============================================================================
