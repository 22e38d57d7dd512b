----------------------------- MODULE MCAgentPool -----------------------------
(***************************************************************************)
(* Model checking of AgentPool: a plan of three subtasks, of which two may *)
(* share a layer, and limits that the agents reach.                        *)
(***************************************************************************)
EXTENDS AgentPool

ThreeSubtasks == 1..3

(* Two subtasks in parallel and a third that needs both, or a chain.       *)
FanInAndChain == {<<{}, {}, {1, 2}>>, <<{}, {1}, {2}>>}
=============================================================================
