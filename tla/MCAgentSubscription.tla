------------------------ MODULE MCAgentSubscription ------------------------
(* Instances of AgentSubscription. *)
EXTENDS AgentSubscription
=============================================================================
