------------------------------ MODULE MCAgentRun ------------------------------
(* Instances of AgentRun for TLC: a response reports no usage, or some. *)
EXTENDS AgentRun

SomeUsage == {0, 1, 3}

==============================================================================
