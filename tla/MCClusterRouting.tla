-------------------------- MODULE MCClusterRouting --------------------------
EXTENDS ClusterRouting, TLC

CONSTANTS nodeA, nodeB, sub1, sub2

\* Every submission carries the user's job, or every one the shared job.
MCScopes == {"u", "shared"}
MCJobs == {"mine", "common"}
MCLoads == {[s \in Subs |-> j] : j \in MCJobs}
MCKeyOf == [mine |-> "u", common |-> "shared"]
MCUserOf == [mine |-> "u", common |-> None]
MCRank == [k \in MCScopes |-> <<nodeB, nodeA>>]
MCScopeOrder == <<"shared", "u">>
MCCapacity == [n \in Nodes |-> 3]
MCOthers == [n \in Nodes |-> IF n = nodeA THEN 2 ELSE 0]
MCSymmetry == Permutations(Subs)
=============================================================================
