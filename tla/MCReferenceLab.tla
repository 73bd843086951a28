---------------------------- MODULE MCReferenceLab ----------------------------
(* One credential, its revocation, and an access of it. *)
EXTENDS ReferenceLab

MCIssueBody == {[handle |-> "parent", group |-> "authority", sender |-> "*",
                 audience |-> "resource", actions |-> {"read"}, lifetime |-> 2]}

MCQuestion == [handle : {"parent"}, sender : {"agent"}, audience : {"resource"},
               point : Point, action : {"read", "write"}]

MCDelay == [p \in Point |-> 1]
==============================================================================
