--------------------------- MODULE MCRunLifecycle ---------------------------
(* RunLifecycle with three dispatches of one session: a run, its successor,  *)
(* and the third trigger that a wrongly freed claim would let in.            *)
EXTENDS RunLifecycle, TLC

CONSTANTS a1, a2, a3

Attempts == {a1, a2, a3}
TwoAttempts == {a1, a2}

\* Attempts are interchangeable: Init and Next treat them alike.
AttemptSymmetry == Permutations(Attempts)

Lossy   == {"lose", "refuse", "store"}
Crashes == {"crash"}
Late    == {"queue", "lose", "refuse"}
Refuses == {"refuse"}
Loses   == {"lose"}
Queues  == {"queue"}

=============================================================================
