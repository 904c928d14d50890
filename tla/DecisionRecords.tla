--------------------------- MODULE DecisionRecords ---------------------------
(***************************************************************************)
(* What a delivered review is asked about (src/github/decisions.go).       *)
(*                                                                         *)
(* Off the posting path, one goroutine per review puts questions to a      *)
(* decision handler: two per distinct finding, then one about the verdict, *)
(* whose state is cut down to a budget of runes.  A handler that fails is  *)
(* only logged.  A text is its length; a finding is told apart by all it   *)
(* has, as the code does.                                                  *)
(***************************************************************************)
EXTENDS Integers, Sequences, Functions, FiniteSets, Selection

CONSTANTS None,
          Reviews,  \* [verdict, title, body, comments]
          Patches   \* the diffs: [a path's number -> Seq([lines, len])],
                    \* len of a hunk with its path before it

\* Runes: decisions.go 26-35; of the marker its runes and its bytes.
titleCap == 300
prBodyCap == 2000
verdictBudget == 9500
findingsBudget == 6000
filesBudget == 1200
minFindingCap == 120
markerRunes == 12
markerBytes == 14
findingsWords == 14  \* " more findings"
moreWords == 5       \* " more"

Severities == {"blocking", "suggestion", "nit"}

RecordsAssumption ==
    /\ \A r \in Reviews :
          /\ r.title \in Nat /\ r.body \in Nat
          /\ r.comments \in Seq(Range(r.comments))
    /\ \A p \in Patches : IsFiniteSet(DOMAIN p)

VARIABLES
    review,  \* the review that was posted
    patch,   \* GitHub: the diff
    read,    \* the diff this goroutine works from; None: not read yet
    next,    \* the comment whose turn it is
    asks     \* the requests, in order

vars == <<review, patch, read, next, asks>>

Init ==
    /\ review \in Reviews /\ patch \in Patches
    /\ read = None /\ next = 1 /\ asks = <<>>

-----------------------------------------------------------------------------
(* Cutting.                                                                 *)

Least(a, b) == IF a < b THEN a ELSE b
Most(a, b) == IF a > b THEN a ELSE b
Sum(lengths) == SumFunction(lengths)

clip(l, n) == IF l <= n THEN l ELSE Most(n - markerRunes, 0) + markerRunes

\* Mutant: the item that was cut short is counted among those dropped as well.
fitListCountingTwice(items, n) ==
    LET fits(k) == Sum(SubSeq(items, 1, k)) <= n
        whole == CHOOSE k \in 0 .. Len(items) :
                    /\ \A j \in 1 .. k : fits(j)
                    /\ k < Len(items) => ~fits(k + 1)
        room == n - Sum(SubSeq(items, 1, whole))
        cut == whole < Len(items) /\ room > 2 * markerBytes
    IN  [kept |-> SubSeq(items, 1, whole) \o (IF cut THEN <<clip(items[whole + 1], room)>> ELSE <<>>),
         more |-> Len(items) - whole]

\* The entry that tells how many more there are, in so many runes besides the
\* marker, a space and the number; there is none if there are no more.
digits(n) == Cardinality({k \in 0 .. 9 : 10^k <= n})
moreLen(n, words) == IF n = 0 THEN 0 ELSE markerRunes + 1 + digits(n) + words

\* The items that fit, the next one cut to what is left of it, and how many more.
fitList(items, n) ==
    LET fits(k) == Sum(SubSeq(items, 1, k)) <= n
        whole == CHOOSE k \in 0 .. Len(items) :
                    /\ \A j \in 1 .. k : fits(j)
                    /\ k < Len(items) => ~fits(k + 1)
        room == n - Sum(SubSeq(items, 1, whole))
        cut == whole < Len(items) /\ room > 2 * markerBytes
    IN  [kept |-> SubSeq(items, 1, whole) \o (IF cut THEN <<clip(items[whole + 1], room)>> ELSE <<>>),
         more |-> Len(items) - whole - (IF cut THEN 1 ELSE 0)]

\* title and body, then findings, then files, then hunks with what is left; an
\* entry that counts the rest is charged like another.
fitVerdict(title, body, findings, files, hunks) ==
    LET head == clip(title, titleCap) + clip(body, prBodyCap)
        room == verdictBudget - head
        n == Len(findings)
        share == Least(room, findingsBudget)
        per == Most(minFindingCap, share \div n)
        keep == IF n = 0 THEN 0 ELSE Least(n, Most(1, share \div per))
        kept == [i \in 1 .. keep |-> [path |-> findings[i].pathLen, text |-> clip(findings[i].len, per)]]
        used == Sum([i \in 1 .. keep |-> kept[i].path + kept[i].text + 35])
                + (IF keep < n THEN moreLen(n - keep, findingsWords) + 35 ELSE 0)
        fitted == fitList(files, Least(room - used, filesBudget))
    IN  [head |-> head, findings |-> [kept |-> kept, more |-> n - keep], files |-> fitted,
         hunks |-> fitList(hunks, room - used - Sum(fitted.kept) - moreLen(fitted.more, moreWords))]

-----------------------------------------------------------------------------
(* decideReview.                                                            *)

\* commentablePositions: without it findings have no hunks and files no names.
ReadPatch ==
    /\ read = None
    /\ read' \in {patch, <<>>}
    /\ UNCHANGED <<review, patch, next, asks>>

\* Mutant: the label in the text wins over the host's classification.
baselineOfText(c) == IF c.label # "" THEN c.label ELSE c.severity

\* The host's classification wins; the label in the text is the fallback.
baseline(c) == IF c.severity \in Severities THEN c.severity ELSE c.label

AskFinding ==
    /\ read # None /\ next <= Len(review.comments)
    /\ LET c == review.comments[next]
           severity == [point |-> "finding.severity", about |-> c, baseline |-> baseline(c)]
           blocking == [point |-> "finding.blocking", about |-> c,
                        baseline |-> baseline(c) = "blocking"]
       IN  asks' = IF next \notin FirstIndexes(review.comments) THEN asks
                   ELSE IF baseline(c) = "" THEN Append(asks, blocking)
                   ELSE asks \o <<severity, blocking>>
    /\ next' = next + 1
    /\ UNCHANGED <<review, patch, read>>

\* The changed file a comment's path names: itself, or the only one it is a longer
\* or a shorter form of; c.near are those it would be.
resolvePath(c) ==
    IF c.path \in DOMAIN read THEN {c.path}
    ELSE LET candidates == c.near \cap DOMAIN read
         IN  IF Cardinality(candidates) = 1 THEN candidates ELSE {}

\* hunkAt: the hunks the findings are anchored in, each once, in their order.
HunksOf(comments) ==
    LET at(c) == {h \in UNION {{p} \X DOMAIN read[p] : p \in resolvePath(c)} :
                    c.line \in read[h[1]][h[2]].lines}
        anchored == SelectAt(comments, {i \in DOMAIN comments : at(comments[i]) # {}})
        hunks == [i \in DOMAIN anchored |-> CHOOSE h \in at(anchored[i]) : TRUE]
        each == SelectAt(hunks, FirstIndexes(hunks))
    IN  [i \in DOMAIN each |-> read[each[i][1]][each[i][2]].len]

PathLen == 40  \* every path's, roughly
Files == [i \in 1 .. Cardinality(DOMAIN read) |-> PathLen]
Asked == SelectAt(review.comments, FirstIndexes(review.comments))

\* The verdict is asked about once all findings have been, if it is one; the
\* pull request's title and body are left out when they cannot be read.
AskVerdict ==
    /\ read # None /\ next = Len(review.comments) + 1
    /\ next' = next + 1
    /\ \E meta \in BOOLEAN :
          LET title == IF meta THEN review.title ELSE 0
              body == IF meta THEN review.body ELSE 0
              findings == [i \in DOMAIN Asked |-> [pathLen |-> PathLen, len |-> Asked[i].len]]
          IN  asks' = IF review.verdict \notin {"approve", "request_changes", "comment"} THEN asks
                      ELSE Append(asks, [point |-> "review.verdict", baseline |-> review.verdict,
                              about |-> fitVerdict(title, body, findings, Files, HunksOf(Asked))])
    /\ UNCHANGED <<review, patch, read>>

Next == ReadPatch \/ AskFinding \/ AskVerdict

Spec == Init /\ [][Next]_vars

-----------------------------------------------------------------------------
(* Properties.                                                              *)

Done == next > Len(review.comments) + 1
Verdict == asks[Len(asks)]
About(c, point) == {i \in DOMAIN asks : asks[i].point = point /\ asks[i].about = c}

\* Every finding is asked about once, however often it was made, with the
\* host's word for its severity; and the verdict's state accounts for every
\* finding, file and hunk, shown or counted as left out (decisions.go 172, 194).
RecordsCoverTheReview ==
    Done =>
        /\ \A c \in Range(review.comments) :
              /\ \E i \in DOMAIN asks : About(c, "finding.blocking") = {i}
              /\ \A i \in About(c, "finding.blocking") :
                    asks[i].baseline = ("blocking" = IF c.severity \in Severities
                                                     THEN c.severity ELSE c.label)
        /\ asks # <<>> /\ Verdict.point = "review.verdict" =>
              LET v == Verdict.about
              IN  /\ Len(v.findings.kept) + v.findings.more = Cardinality(Range(review.comments))
                  /\ Len(v.files.kept) + v.files.more = Cardinality(DOMAIN read)
                  /\ Len(v.hunks.kept) + v.hunks.more = Len(HunksOf(Asked))

\* "verdictBudget bounds the whole review.verdict state" (decisions.go 31): its
\* texts, without what JSON puts around them, take no more runes.
VerdictFits ==
    asks # <<>> /\ Verdict.point = "review.verdict" =>
        LET v == Verdict.about
        IN  v.head + Sum([i \in DOMAIN v.findings.kept |->
                             v.findings.kept[i].path + v.findings.kept[i].text])
                + moreLen(v.findings.more, findingsWords)
                + Sum(v.files.kept) + moreLen(v.files.more, moreWords)
                + Sum(v.hunks.kept) + moreLen(v.hunks.more, moreWords) <= verdictBudget

==============================================================================
