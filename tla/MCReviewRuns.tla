----------------------------- MODULE MCReviewRuns -----------------------------
(***************************************************************************)
(* Model checking of ReviewRuns: two webhooks at a time, of any kind, on a *)
(* pull request with two heads and one issue to find.                      *)
(***************************************************************************)
EXTENDS ReviewRuns, TLC

CONSTANTS i1, h1, h2

OneIssue == {i1}
OneHook == {h1}
TwoHooks == {h1, h2}

AnyOrder == Permutations(Hooks)
=============================================================================
