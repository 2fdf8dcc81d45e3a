\* An enforced policy that is deleted, its rules edited before or after; users may take
\* the finalizer away; one fault.
SPECIFICATION DeletionSpec
CONSTANTS
    cap = cap
    ap = ap
    a = a
    b = b
    s1 = s1
    s2 = s2
    None = None
    Policies <- OneAdmissionPolicy
    Namespaced <- OneAdmissionPolicy
    Bound <- OneAdmissionPolicy
    Deletable <- OneAdmissionPolicy
    Slots <- OneSlot
    MaxGen = 2
    Entry <- SameSpec
    Rules <- EditedSpec
    StatusReadsFail = FALSE
    MaxFaults = 1
INVARIANTS
    TypeOK
    
    DeletionStaysUnderWay
PROPERTIES
    
    DeletionCompletes
\* The system is at rest once every policy is settled and users have no more to do.
CHECK_DEADLOCK FALSE
