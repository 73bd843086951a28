------------------------- MODULE MCRevocationScenario -------------------------
(* The two credentials, two gateways and four attempts of the lab's L06. *)
EXTENDS RevocationScenario, TLC

CONSTANTS i1, i2, r1, flight, attempt, pollA, pollB

MCBody(h) == [handle |-> h, group |-> "authority", sender |-> "agent",
              audience |-> "resource", actions |-> {"read"}, lifetime |-> 9]
MCParentBody == MCBody("parent")
MCChildBody == MCBody("child")
MCIssueBody == {MCParentBody, MCChildBody}

MCAsk == [hp \in Handle \X Point |->
            [handle |-> hp[1], sender |-> "agent", audience |-> "resource",
             point |-> hp[2], action |-> "read"]]
MCQuestion == {MCAsk[hp] : hp \in Handle \X Point}

MCPoller == [p \in Point |-> IF p = "gateway-a" THEN pollA ELSE pollB]
MCDelay == [p \in Point |-> IF p = "gateway-a" THEN 1 ELSE 2]
MCAttemptOrder == <<<<"child", "gateway-a">>, <<"parent", "gateway-a">>,
                    <<"child", "gateway-b">>, <<"parent", "gateway-b">>>>
==============================================================================
