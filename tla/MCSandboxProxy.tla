---------------------------- MODULE MCSandboxProxy ----------------------------
(***************************************************************************)
(* Model checking of SandboxProxy: two coroutines at a time over two runs, *)
(* with as many handles, tasks and sandboxes as they need.                 *)
(***************************************************************************)
EXTENDS SandboxProxy, TLC

CONSTANTS c1, c2

TwoCalls == {c1, c2}

AnyOrder == Permutations(Calls)
=============================================================================
