SPECIFICATION Spec
CONSTANTS
    nodeA = nodeA
    nodeB = nodeB
    sub1 = sub1
    sub2 = sub2
    None = None
    Nodes = {nodeA, nodeB}
    Subs = {sub1, sub2}
    Scopes <- MCScopes
    Jobs <- MCJobs
    Loads <- MCLoads
    KeyOf <- MCKeyOf
    UserOf <- MCUserOf
    Rank <- MCRank
    ScopeOrder <- MCScopeOrder
    Capacity <- MCCapacity
    Others <- MCOthers
    Drainable = {nodeB}
    Budget = 3
SYMMETRY MCSymmetry
INVARIANTS
    OneOwnerWorks
    AcceptedOnce
    OutstandingExact
    AssignmentCounted
