------------------------------ MODULE Selection ------------------------------
(***************************************************************************)
(* The part of a sequence at some of its indexes, in its order: what a     *)
(* loop with a "continue" and an append leaves.                            *)
(***************************************************************************)
EXTENDS Naturals, Sequences

SelectAt(s, I) ==
    LET upto[k \in 0 .. Len(s)] ==
            IF k = 0 THEN <<>>
            ELSE IF k \in I THEN Append(upto[k - 1], s[k]) ELSE upto[k - 1]
    IN  upto[Len(s)]

\* The indexes whose element has not come before.
FirstIndexes(s) == {i \in DOMAIN s : \A j \in 1 .. i - 1 : s[j] # s[i]}

==============================================================================
