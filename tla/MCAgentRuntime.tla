--------------------------- MODULE MCAgentRuntime ---------------------------
(* AgentRuntime as TLC checks it: the constants are plain values, given in   *)
(* the configuration.  Liveness is checked too, so workers are not symmetric.*)
EXTENDS AgentRuntime
=============================================================================
