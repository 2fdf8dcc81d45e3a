------------------------ MODULE PolicyServerOwnership ------------------------
(***************************************************************************)
(* What the controller promises about a PolicyServer and the objects it    *)
(* consists of, which no owner reference ties to it, whatever the          *)
(* reconciler does to keep it:                                             *)
(*   - an object is made only for a PolicyServer that exists, and after    *)
(*     what it needs (the order of reconciler.go:126-248);                 *)
(*   - an object is taken only from a PolicyServer that is being deleted,  *)
(*     and the finalizer goes last (policyserver_controller.go:96-121);    *)
(*   - what a live PolicyServer reports as reconciled is there.            *)
(* A name may be used again.  PolicyServerLifecycle implements this module. *)
(***************************************************************************)
CONSTANTS
    Servers,   \* names of PolicyServers
    Kinds,     \* the kinds of object a PolicyServer consists of, one of each
    Shared,    \* the object that all PolicyServers share
    Needs      \* Needs[k]: what there must be before an object of kind k is made

VARIABLES
    phase,     \* phase[s]: "absent", "live" or "deleting"
    owned,     \* owned[s]: the kinds of object s has
    reported,  \* reported[s]: what s says it has
    shared     \* is there the shared object?

vars == << phase, owned, reported, shared >>

TypeOK ==
    /\ phase \in [Servers -> {"absent", "live", "deleting"}]
    /\ owned \in [Servers -> SUBSET Kinds]
    /\ reported \in [Servers -> SUBSET (Kinds \cup {Shared})]
    /\ shared \in BOOLEAN

Init ==
    /\ phase = [s \in Servers |-> "absent"]
    /\ owned = [s \in Servers |-> {}]
    /\ reported = [s \in Servers |-> {}]
    /\ shared = FALSE

\* What s finds.
Available(s) == owned[s] \cup (IF shared THEN {Shared} ELSE {})

Create(s) ==
    /\ phase[s] = "absent" /\ owned[s] = {}
    /\ phase' = [phase EXCEPT ![s] = "live"]
    /\ UNCHANGED << owned, reported, shared >>

Delete(s) ==
    /\ phase[s] = "live"
    /\ phase' = [phase EXCEPT ![s] = "deleting"]
    /\ UNCHANGED << owned, reported, shared >>

Share ==
    /\ shared' = TRUE
    /\ UNCHANGED << phase, owned, reported >>

Build(s, k) ==
    /\ phase[s] # "absent" /\ Needs[k] \subseteq Available(s)
    /\ owned' = [owned EXCEPT ![s] = @ \cup {k}]
    /\ UNCHANGED << phase, reported, shared >>

Report(s, kinds) ==
    /\ phase[s] = "live" /\ kinds \subseteq Available(s)
    /\ reported' = [reported EXCEPT ![s] = kinds]
    /\ UNCHANGED << phase, owned, shared >>

Demolish(s, k) ==
    /\ phase[s] = "deleting"
    /\ owned' = [owned EXCEPT ![s] = @ \ {k}]
    /\ UNCHANGED << phase, reported, shared >>

Remove(s) ==
    /\ phase[s] = "deleting" /\ owned[s] = {}
    /\ phase' = [phase EXCEPT ![s] = "absent"]
    /\ reported' = [reported EXCEPT ![s] = {}]
    /\ UNCHANGED << owned, shared >>

Next ==
    \/ Share
    \/ \E s \in Servers : Create(s) \/ Delete(s) \/ Remove(s)
    \/ \E s \in Servers, k \in Kinds : Build(s, k) \/ Demolish(s, k)
    \/ \E s \in Servers, kinds \in SUBSET (Kinds \cup {Shared}) : Report(s, kinds)

Spec == Init /\ [][Next]_vars
=============================================================================
