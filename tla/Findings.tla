------------------------------- MODULE Findings -------------------------------
(***************************************************************************)
(* From a review's findings to inline comments (src/github/app.go 654-732, *)
(* tools.go 159-300, 728-785).                                             *)
(*                                                                         *)
(* GitHub accepts an inline comment only on a line its diff shows, and     *)
(* refuses the whole review for one that is not.  quack reads the diff, or *)
(* a copy of it up to 30 s old, numbers its lines, moves every finding to  *)
(* a line that can carry it, and puts the rest into the body.  The head    *)
(* may move at any time.                                                   *)
(***************************************************************************)
EXTENDS Integers, Sequences, Functions, Selection

CONSTANTS None,
          Diffs,       \* the diffs the pull request may have: [file -> hunks]
          Given,       \* the lists of findings a review may come with
          MaxPushes    \* bound on pushes to the branch

\* A field of a hunk's header that starts with a sign, and the number atoi
\* reads after it: "-40,2", "+40,4", and any such word after the second "@@".
Field == [sign : {"-", "+"}, n : Nat]
Row == {" ", "-", "+"}
Hunk == [old : Nat, new : Nat, heading : Seq(Field), rows : Seq(Row)]

\* A path is the sequence of its segments; of a body it matters which it is.
IsFinding(f) ==
    /\ f = [path |-> f.path, line |-> f.line, body |-> f.body]
    /\ f.path \in Seq(STRING) /\ f.line \in Nat

FindingsAssumption ==
    /\ MaxPushes \in Nat /\ None \notin Nat /\ None \notin Diffs
    /\ \A d \in Diffs : \A f \in DOMAIN d : \A i \in DOMAIN d[f] : d[f][i] \in Hunk
    /\ \A g \in Given : g \in Seq(Range(g)) /\ \A i \in DOMAIN g : IsFinding(g[i])

VARIABLES
    diff,      \* GitHub: the diff of the head now
    pushes,
    cached,    \* a.diffs: the copy not yet 30 s old, or None
    phase,
    findings,  \* the review's findings
    read,      \* the diff its positions were read from; None: unavailable
    inline,    \* what is posted as inline comments
    unanchored \* what is posted in the body

vars == <<diff, pushes, cached, phase, findings, read, inline, unanchored>>

Init ==
    /\ diff \in Diffs /\ pushes = 0 /\ cached = None
    /\ phase = "staged" /\ findings \in Given
    /\ read = None /\ inline = <<>> /\ unanchored = <<>>

-----------------------------------------------------------------------------
(* The lines of a diff.                                                     *)

\* GitHub: the lines after the change that the diff shows.
Shown(hunks) ==
    UNION {LET h == hunks[i]
               kept(j) == SelectSeq(SubSeq(h.rows, 1, j), LAMBDA r : r # "-")
           IN  {h.new + Len(kept(j)) - 1 : j \in {j \in DOMAIN h.rows : h.rows[j] # "-"}} :
             i \in DOMAIN hunks}

\* Every field with the sign overwrites the number, the heading's too.
parseHunkHeader(h, sign) ==
    LET ranges == <<[sign |-> "-", n |-> h.old], [sign |-> "+", n |-> h.new]>>
        named == SelectSeq(ranges \o h.heading, LAMBDA f : f.sign = sign)
    IN  named[Len(named)].n

\* The right side of diffPositions.
parsePatch(hunks) ==
    UNION {LET h == hunks[i]
               next[j \in 0 .. Len(h.rows)] ==
                   IF j = 0 THEN parseHunkHeader(h, "+")
                   ELSE IF h.rows[j] = "-" THEN next[j - 1] ELSE next[j - 1] + 1
           IN  {next[j - 1] : j \in {j \in DOMAIN h.rows : h.rows[j] # "-"}} :
             i \in DOMAIN hunks}

hasSuffix(path, f) ==
    Len(f) <= Len(path) /\ SubSeq(path, Len(path) - Len(f) + 1, Len(path)) = f

\* A path names the file it is, or the one file it ends with or that ends with it.
resolvePath(d, path) ==
    LET near == {f \in DOMAIN d : hasSuffix(path, f) \/ hasSuffix(f, path)}
    IN  IF path \in DOMAIN d THEN {path}
        ELSE IF \E f \in near : near = {f} THEN near ELSE {}

Distance(a, b) == IF a < b THEN b - a ELSE a - b

\* The closest line, and of two the lower.
nearestCommentableLine(lines, target) ==
    CHOOSE n \in lines : \A m \in lines \ {n} :
        \/ Distance(n, target) < Distance(m, target)
        \/ Distance(n, target) = Distance(m, target) /\ n < m

\* Mutant: the note is written after the line has been moved.
AnchoredNoteLate(file, lines, f) ==
    LET line == IF f.line \in lines THEN f.line ELSE nearestCommentableLine(lines, f.line)
    IN  [path |-> file, body |-> f.body, line |-> line,
         told |-> IF f.line \in lines THEN None ELSE line]

\* The comment for a finding; told: the line its text says it is about.
Anchored(file, lines, f) ==
    [path |-> file, body |-> f.body,
     line |-> IF f.line \in lines THEN f.line ELSE nearestCommentableLine(lines, f.line),
     told |-> IF f.line \in lines THEN None ELSE f.line]

\* A path nobody can resolve is dropped, an exact duplicate too; a file
\* without a line to carry it keeps its finding in the body.
validComments(d, given) ==
    LET file(f) == CHOOSE x \in resolvePath(d, f.path) : TRUE
        lines(f) == parsePatch(d[file(f)])
        known == {i \in DOMAIN given : resolvePath(d, given[i].path) # {}}
        bare == {i \in known : lines(given[i]) = {}}
        placed == SelectAt(given, known \ bare)
        left == SelectAt(given, bare)
        comments == [k \in DOMAIN placed |-> Anchored(file(placed[k]), lines(placed[k]), placed[k])]
    IN  [in |-> SelectAt(comments, FirstIndexes(comments)),
         out |-> [k \in DOMAIN left |-> [left[k] EXCEPT !.path = file(left[k])]]]

-----------------------------------------------------------------------------
(* The actions.                                                             *)

\* Somebody pushes: the diff is another one.
Push ==
    /\ pushes < MaxPushes /\ phase \in {"staged", "placed"}
    /\ diff' \in Diffs \ {diff}
    /\ pushes' = pushes + 1
    /\ UNCHANGED <<cached, phase, findings, read, inline, unanchored>>

\* Another review of the pull request read the diff, or 30 s have passed.
Cache ==
    /\ phase = "staged"
    /\ cached' \in {None, diff} \ {cached}
    /\ UNCHANGED <<diff, pushes, phase, findings, read, inline, unanchored>>

\* validComments on the copy, or on what is read now and kept.
Place ==
    /\ phase = "staged"
    /\ LET d == IF cached # None THEN cached ELSE diff
           placed == validComments(d, findings)
       IN  /\ cached' = d /\ read' = d
           /\ inline' = placed.in /\ unanchored' = placed.out
    /\ phase' = "placed"
    /\ UNCHANGED <<diff, pushes, findings>>

\* The diff cannot be read: every finding goes into the body as it came.
PlaceBlind ==
    /\ phase = "staged" /\ cached = None
    /\ phase' = "placed"
    /\ unanchored' = findings
    /\ UNCHANGED <<diff, pushes, cached, findings, read, inline>>

\* GitHub's rule for a review's inline comments.
Accepts(comments) ==
    \A i \in DOMAIN comments :
        /\ comments[i].path \in DOMAIN diff
        /\ comments[i].line \in Shown(diff[comments[i].path])

\* submitReview: one refused anchor refuses the review, which is sent again
\* with every finding in its body.
Submit ==
    /\ phase = "placed"
    /\ phase' = "posted"
    /\ IF Accepts(inline) THEN UNCHANGED <<inline, unanchored>>
       ELSE inline' = <<>> /\ unanchored' = unanchored \o inline
    /\ UNCHANGED <<diff, pushes, cached, findings, read>>

\* Any other failure, of either request: the item's delivery failed.
SubmitFails ==
    /\ phase = "placed" /\ phase' = "failed"
    /\ UNCHANGED <<diff, pushes, cached, findings, read, inline, unanchored>>

Next == Push \/ Cache \/ Place \/ PlaceBlind \/ Submit \/ SubmitFails

Spec == Init /\ [][Next]_vars

-----------------------------------------------------------------------------
(* Properties.                                                              *)

Posted == Range(inline) \cup Range(unanchored)
ToldLine(c) == IF "told" \in DOMAIN c /\ c.told # None THEN c.told ELSE c.line

\* A review that reaches GitHub carries every finding whose file is known, with
\* the file and line it is about, however the head moved and whatever was
\* refused (tools.go 726, 282).
FindingsReachTheReview ==
    phase = "posted" =>
        /\ Accepts(inline)
        /\ \A i \in DOMAIN findings :
              LET f == findings[i]
                  files == IF read = None THEN {f.path} ELSE resolvePath(read, f.path)
              IN  files # {} =>
                    \E c \in Posted : /\ c.path \in files /\ c.body = f.body
                                      /\ ToldLine(c) = f.line

\* "anchored here because GitHub does not allow an inline comment on line N"
\* (tools.go 758): of the diff that was read, this is true.
NoteIsTrue ==
    phase # "staged" =>
        \A i \in DOMAIN inline :
            inline[i].told # None => inline[i].told \notin Shown(read[inline[i].path])

==============================================================================
