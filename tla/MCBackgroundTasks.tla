-------------------------- MODULE MCBackgroundTasks --------------------------
(***************************************************************************)
(* Model checking of BackgroundTasks: two commands, launched by calls that *)
(* overlap, and one or two ticks of the monitor at a time.  With one       *)
(* command active at most, the second launch is refused until the first    *)
(* command has ended, while its announcement may still be under way.       *)
(* Commands are interchangeable, and so are ticks.                         *)
(***************************************************************************)
EXTENDS BackgroundTasks, TLC

CONSTANTS t1, t2, p1, p2

TwoTasks == {t1, t2}
OneTick == {p1}
TwoTicks == {p1, p2}

AnyOrder == Permutations(Tasks) \union Permutations(Monitors)
=============================================================================
