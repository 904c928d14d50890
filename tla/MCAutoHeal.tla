----------------------------- MODULE MCAutoHeal -----------------------------
(* AutoHeal with three commits, two workflows and two goroutines.           *)
EXTENDS AutoHeal, TLC

CONSTANTS c1, c2, c3, f1, f2, w1, w2

Commits == {c1, c2, c3}
Workflows == {f1, f2}
Workers == {w1, w2}

\* Init and Next treat commits, workflows and goroutines alike.
HealSymmetry == Permutations(Commits) \cup Permutations(Workflows)
                    \cup Permutations(Workers)

NoFaults == {}

=============================================================================
