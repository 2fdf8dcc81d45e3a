\* An enforced policy whose settings and rules are edited, and a policy that is created,
\* and edited, before its PolicyServer; one fault at any moment: a restart, an
\* eviction, or a call that fails, between the patches of ConfigMap and Deployment too.
SPECIFICATION EditSpec
CONSTANTS
    cap = cap
    ap = ap
    a = a
    b = b
    s1 = s1
    s2 = s2
    None = None
    Policies <- OneAdmissionPolicy
    Namespaced <- OneAdmissionPolicy
    Bound <- OneAdmissionPolicy
    Deletable <- NoPolicies
    Slots <- OneSlot
    MaxGen = 2
    Entry <- EditedSpec
    Rules <- EditedSpec
    StatusReadsFail = FALSE
    MaxFaults = 1
INVARIANTS
    RestMeansEnforced
PROPERTIES
    ConfiguredPolicyStays
    PoliciesSettle
\* The system is at rest once every policy is settled and users have no more to do.
CHECK_DEADLOCK FALSE
