------------------------------ MODULE MCBabySit ------------------------------
(***************************************************************************)
(* Model checking of BabySit: two operations at a time, of any kind, on    *)
(* the watch of a pull request with two heads.  With one rerun per head    *)
(* the limit is reached at once.  Operations are interchangeable, and so   *)
(* are agent threads.                                                      *)
(***************************************************************************)
EXTENDS BabySit, TLC

CONSTANTS p1, p2, a1, a2

OneProc == {p1}
TwoProcs == {p1, p2}
OneThread == {a1}
TwoThreads == {a1, a2}

(* After either, the properties of that run claim nothing more.            *)
NotRaced == Without({"race", "clash"})

AnyOrder == Permutations(Procs) \union Permutations(Threads)
=============================================================================
