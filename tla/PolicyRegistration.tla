-------------------------- MODULE PolicyRegistration --------------------------
(***************************************************************************)
(* What the controller promises the Kubernetes API server about a          *)
(* PolicyServer and its policies, whatever the reconcilers do to keep it:  *)
(* a policy is registered only while every replica serves it, and stays    *)
(* served for as long as it is registered and not being deleted.  It is    *)
(* what the comment on PolicyUniquelyReachable                             *)
(* (apis/policies/v1/policy.go:49-54) and the test of policy_utils.go:117  *)
(* are for.  PolicyRollout implements this module.                         *)
(***************************************************************************)
EXTENDS FiniteSets

CONSTANTS Policies, Slots

VARIABLES
    offered,     \* the policies a replica that starts now would serve
    up,          \* the slots where a replica has started
    serving,     \* the policies each of them serves
    registered,  \* the policies the API server consults
    retired      \* the policies users have deleted

vars == << offered, up, serving, registered, retired >>

TypeOK ==
    /\ offered \in SUBSET Policies
    /\ up \in SUBSET Slots
    /\ serving \in [Slots -> SUBSET Policies]
    /\ registered \in SUBSET Policies
    /\ retired \in SUBSET Policies

\* The controller may find a cluster without policies, or one where all is done.
Init ==
    /\ offered \in SUBSET Policies
    /\ up \in SUBSET Slots
    /\ serving = [k \in Slots |-> IF k \in up THEN offered ELSE {}]
    /\ registered = offered
    /\ retired = {}

\* A new configuration leaves out no policy but those being deleted.
Offer(config) ==
    /\ offered \ retired \subseteq config
    /\ offered' = config
    /\ UNCHANGED << up, serving, registered, retired >>

Start(k) ==
    /\ k \notin up
    /\ up' = up \cup {k}
    /\ serving' = [serving EXCEPT ![k] = offered]
    /\ UNCHANGED << offered, registered, retired >>

Stop(k) ==
    /\ k \in up
    /\ up' = up \ {k}
    /\ serving' = [serving EXCEPT ![k] = {}]
    /\ UNCHANGED << offered, registered, retired >>

Retire(p) ==
    /\ retired' = retired \cup {p}
    /\ UNCHANGED << offered, up, serving, registered >>

\* The gate.  A reconcile that began before the policy was deleted may still
\* register it afterwards; nothing is promised of such a policy.
Register(p) ==
    /\ p \in retired \/ (p \in offered /\ \A k \in up : p \in serving[k])
    /\ registered' = registered \cup {p}
    /\ UNCHANGED << offered, up, serving, retired >>

Unregister(p) ==
    /\ p \in retired
    /\ registered' = registered \ {p}
    /\ UNCHANGED << offered, up, serving, retired >>

Next ==
    \/ \E config \in SUBSET Policies : Offer(config)
    \/ \E k \in Slots : Start(k) \/ Stop(k)
    \/ \E p \in Policies : Retire(p) \/ Register(p) \/ Unregister(p)

Spec == Init /\ [][Next]_vars

\* A registered policy that is not being deleted is served by every replica and
\* by those that start later (policystatus_utils.go:88-130).
RegisteredIsServed ==
    \A p \in registered \ retired :
        p \in offered /\ \A k \in up : p \in serving[k]
=============================================================================
