\* Violated: the settings of a policy are edited while it is rolled out.
SPECIFICATION Spec
CONSTANTS
    cap = cap
    ap = ap
    a = a
    b = b
    s1 = s1
    s2 = s2
    None = None
    Policies <- OnePolicy
    Namespaced <- NoPolicies
    Bound <- OnePolicy
    Deletable <- NoPolicies
    Slots <- OneSlot
    MaxGen = 2
    Entry <- EditedSpec
    Rules <- EditedSpec
    StatusReadsFail = FALSE
    MaxFaults = 0
PROPERTIES
    ReachableMeansLatest
\* The system is at rest once every policy is settled and users have no more to do.
CHECK_DEADLOCK FALSE
