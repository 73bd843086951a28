----------------------------- MODULE MCCredential -----------------------------
(* Two handles of one group, one bound to a sender and one bound to none. *)
EXTENDS CredentialServiceRefinement

MCBody(h, g, s, l) == [handle |-> h, group |-> g, sender |-> s, audience |-> "resource",
                       actions |-> {"read"}, lifetime |-> l]

MCIssueBody == {MCBody("parent", "authority", "agent", 3),
                MCBody("child", "authority", "*", 1)}

MCQuestion == [handle : {"parent", "child"}, sender : {"agent"}, audience : {"resource"},
               point : Point, action : {"read"}]

\* The child at the quick gateway, where a revocation shows within the bound of the clock.
MCChildQuestion == {q \in MCQuestion : q.point = "gateway-a" /\ q.handle = "child"}

\* 50 ms to a tick: gateway-a sees a revocation after one tick, gateway-b after two.
MCDelay == [p \in Point |-> IF p = "gateway-a" THEN 1 ELSE 2]
==============================================================================
