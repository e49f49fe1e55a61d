------------------------- MODULE MCPagedRecovery -------------------------
(* Jobs 1 and 2 in storage, both under the queue's key or both moved to    *)
(* it, and a new job 3.                                                    *)
EXTENDS PagedRecovery
MCOld == {1, 2}
MCLive == {3}
MCKeyings == {{}, {1, 2}}
=============================================================================
