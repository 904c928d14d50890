---------------------------- MODULE MCMergeGate ----------------------------
(* MergeGate with a head, the commit pushed over it, and two goroutines.    *)
EXTENDS MergeGate, TLC

CONSTANTS h1, h2, w1, w2

Heads == {h1, h2}
Workers == {w1, w2}

\* Goroutines and commits are interchangeable: Init and Next treat them alike.
MergeSymmetry == Permutations(Heads) \cup Permutations(Workers)

NoMoves == {}
AllMoves == MoveKinds

=============================================================================
