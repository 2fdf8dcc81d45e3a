\* A policy is rolled out to a PolicyServer with two replicas: from an empty cluster,
\* where both are created in any order, and on a running PolicyServer, where one fault
\* comes at any moment: a restart of the controller, an eviction, a failing call.
SPECIFICATION RolloutSpec
CONSTANTS
    cap = cap
    ap = ap
    a = a
    b = b
    s1 = s1
    s2 = s2
    None = None
    Policies <- OneAdmissionPolicy
    Namespaced <- OneAdmissionPolicy
    Bound <- OneAdmissionPolicy
    Deletable <- NoPolicies
    Slots <- TwoSlots
    MaxGen = 1
    Entry <- OneSpec
    Rules <- OneSpec
    StatusReadsFail = TRUE
    MaxFaults = 1
SYMMETRY SlotSymmetry
INVARIANTS
    IInv
    WebhookOnlyForServedPolicy
    RestMeansEnforced
PROPERTIES
    SavedReachableIsServed
\* The system is at rest once every policy is settled and users have no more to do.
CHECK_DEADLOCK FALSE
