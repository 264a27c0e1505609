---------------------------- MODULE MCAgentChannel ----------------------------
(* The agent channel on small instances.                                    *)
EXTENDS AgentChannel

Bookkeeping == [listed |-> TRUE, money |-> "no"]
Untagged == [listed |-> TRUE, money |-> "unknown"]
Unlisted == [listed |-> FALSE, money |-> "no"]

OneCapability == {Bookkeeping}
SomeCapabilities == {Bookkeeping, Untagged, Unlisted}

Deployment(gate, by) == [gate |-> gate, approver |-> by]

AllDeployments ==
  {Deployment("dryRun", "human"), Deployment("handshake", "human"),
   Deployment("policy", "human"), Deployment("handshake", "policy")}
===============================================================================
