---------------------------- MODULE MCReviewScope ----------------------------
(* ReviewScope with two commits and two comments.                            *)
EXTENDS ReviewScope, TLC

CONSTANTS p1, p2, c1, c2

TwoPatches == {p1, p2}
TwoComments == {c1, c2}

\* Commits and comments are interchangeable.
ScopeSymmetry == Permutations(TwoPatches) \cup Permutations(TwoComments)

=============================================================================
