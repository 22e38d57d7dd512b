---------------------------- MODULE MCMessageQueue ----------------------------
(***************************************************************************)
(* Model checking of MessageQueue: three follow-ups and a list of two, so  *)
(* that sends overlap with each other and with a drain, and the cap drops  *)
(* an entry.  The follow-ups are interchangeable.                          *)
(***************************************************************************)
EXTENDS MessageQueue, TLC

CONSTANTS m1, m2, m3

Three == {m1, m2, m3}
Two == {m1, m2}

AnyOrder == Permutations(Messages)
=============================================================================
