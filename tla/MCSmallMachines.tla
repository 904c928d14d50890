--------------------------- MODULE MCSmallMachines ---------------------------
(* SmallMachines: for each part, the inputs that tell its properties apart;    *)
(* the bounds are in the configurations.                                       *)
EXTENDS SmallMachines, Integers, TLC

(* Findings. *)

\* A heading such as "return a + b" has a field with a sign and no number.
Headings == {<<>>, <<[sign |-> "+", n |-> 0]>>}

Hunks == [old : {2}, new : {2}, heading : Headings,
          rows : {<<" ", "+", " ">>, <<"-", "-">>, <<"-", "+">>}]

Main == <<"app", "main.go">>
Other == <<"lib", "main.go">>

MCDiffs == {(Main :> <<h>>) : h \in Hunks}
    \cup {(Main :> <<h, [h EXCEPT !.new = 7, !.heading = <<>>]>>) @@ (Other :> <<h>>) : h \in Hunks}

Finding == [path : {Main, <<"clone">> \o Main, <<"main.go">>}, line : {3, 6}, body : {"b"}]
MCGiven == {<<f>> : f \in Finding} \cup {<<f, g>> : f, g \in Finding}

(* Ingest. *)

MCForms == {<<"a">>, <<"b", "", "a", "b">>}

(* Lineup. *)

MCLeagues == {
    [positions |-> <<"RB", "FLEX", "BN", "WR">>, complete |-> FALSE],
    [positions |-> <<"FLEX", "RB", "REC_FLEX", "BN", "BN">>, complete |-> TRUE],
    [positions |-> <<"RB", "WRRB_FLEX", "REC_FLEX">>, complete |-> FALSE]}

Mine == <<"r1", "r2", "w1", "t1", "w2">>
Pos == [r1 |-> "RB", r2 |-> "RB", w1 |-> "WR", w2 |-> "WR", t1 |-> "TE", fa |-> "WR"]

\* The best lineup has t and r for o, and of them only r may fill o's slot.
Others == <<"o", "w", "t", "r">>
OthersPos == [o |-> "WR", w |-> "WR", t |-> "TE", r |-> "RB"]
OthersPoints == [o |-> 5, w |-> 6, t |-> 8, r |-> 3]

MCLineupWeeks ==
    {[players |-> <<Mine>>, starters |-> lineup, pos |-> Pos,
      injury |-> [p \in DOMAIN Pos |-> IF p = "r1" THEN "Out" ELSE ""],
      points |-> [r1 |-> a, r2 |-> b, w1 |-> c, w2 |-> 2, t1 |-> d, fa |-> 3],
      projected |-> [r1 |-> 3, r2 |-> b, w1 |-> c, w2 |-> 2, t1 |-> d, fa |-> 3]] :
        lineup \in {<<"r1", "r2", "w1">>, <<"t1", "r1", "w2">>, <<"w1", "r1", "0">>},
        a \in {-1, 3}, b \in {-2, 2, 4}, c \in {1, 5}, d \in {0, 3, 6}}
    \cup
    {[players |-> <<Others>>, starters |-> <<"0", "o", "w">>, pos |-> OthersPos,
      injury |-> [p \in DOMAIN OthersPos |-> ""], points |-> OthersPoints, projected |-> OthersPoints]}

MCOrders == {<<"RB", "WR", "TE", "QB">>, <<"QB", "TE", "WR", "RB">>}

(* SleeperReads. *)

MCTtl == [schedule |-> 1, scores |-> 2, players |-> 3]

(* SleeperRuns. *)

MCPosts == {[stop |-> "1", job |-> "trends", partner |-> None],
          [stop |-> "1", job |-> "waivers", partner |-> None],
          [stop |-> "2", job |-> "trade", partner |-> "ann"],
          [stop |-> "2", job |-> "lineup", partner |-> None],
          [stop |-> "draft", job |-> "lineup", partner |-> None]}

Offer == [by : {"me", "partner"}, give : {{"m1"}, {"p1"}}, get : {{"m2"}, {"p2"}},
          verdict : {"send", "counter"}]
Talk(offers) == [offers |-> offers, my_roster |-> {"m1", "m2"}, partner_roster |-> {"p1", "p2"}]
Candidate(p, n) == [player |-> p, rank |-> n]
Starter(p, r) == [player |-> p, replaces |-> r]

MCArtifacts ==
    [lineup |-> {[starters |-> <<Starter("a", r), Starter("b", None), Starter("c", "d")>>] :
                    r \in {None, "e"}}, trends |-> {Prose},
     waivers |-> {Prose} \cup {
        [candidates |-> <<Candidate("a", i), Candidate("b", j), Candidate("c", 0)>>,
         also_checked |-> <<Candidate("d", 0)>>] : i \in {1, 7}, j \in {2, 5}},
     ann |-> {Talk(<<o>>) : o \in {x \in Offer : x.give = {"m1"} <=> x.get = {"p2"}}},
     draft |-> {Prose}] @@ ("season-notes" :> {Prose})

(* DecisionRecords. *)

Comment(i, len, label, severity) ==
    [path |-> 1 + (i % 2), near |-> {}, line |-> i, len |-> len, label |-> label,
     severity |-> severity]

\* n findings of a length, all different, and a list with a repeated one, one of a
\* path that means file 2, and one that may mean either.
Alike(n, len) == [i \in 1 .. n |-> Comment(i, len, "nit", "")]
Mixed == <<Comment(1, 50, "blocking", "nit"), Comment(1, 50, "blocking", "nit"),
           Comment(2, 90, "blocking", ""), Comment(9, 10, "", "bogus"),
           [Comment(3, 20, "nit", "") EXCEPT !.path = 98, !.near = {2}],
           [Comment(6, 20, "nit", "") EXCEPT !.path = 99, !.near = {1, 2}]>>

MCReviews ==
    {[verdict |-> v, title |-> t, body |-> b, comments |-> c] :
       v \in {"approve", "bogus"}, t \in {40, 400}, b \in {0, 3000},
       c \in {<<>>, Mixed, Alike(3, 3000), Alike(10, 500), Alike(50, 300)}}

MCPatches ==
    {[p \in 1 .. 2 |-> <<[lines |-> 1 .. 4, len |-> l], [lines |-> 5 .. 9, len |-> 700]>>] :
       l \in {100, 4000, 9000}}
    \cup {[p \in 3 .. 42 |-> <<>>]}

(* InputArtifacts. *)

Items(n) == [i \in 1 .. n |-> i]

\* Short and long lists; the linked issue 7 exists, 8 does not.
MCLists ==
    {  (<<"comments", 0>> :> Items(n[1])) @@ (<<"timeline", 0>> :> Items(1))
    @@ (<<"files", 0>> :> Items(n[2])) @@ (<<"commits", 0>> :> Items(1))
    @@ (<<"reviews", 0>> :> <<>>) @@ (<<"review-comments", 0>> :> Items(2))
    @@ (<<"check-runs", 0>> :> Items(3)) @@ (<<"annotations", 1>> :> Items(1))
    @@ (<<"annotations", 2>> :> Items(2)) @@ (<<"linked-issue-comments", 7>> :> Items(1))
      : n \in {<<3, 2>>, <<0, 4>>} }

MCBodies == {<<>>, <<7, 8, 7>>}
MCRuns == {<<[name |-> 1, failed |-> TRUE], [name |-> 2, failed |-> second],
           [name |-> 3, failed |-> FALSE]>> : second \in BOOLEAN}

\* "test (a)" and "test [a]".
MCSanitizeCheckName(name) == IF name \in {1, 2} THEN 1 ELSE name

(* Draft. *)

MCSettings == [type : {"snake", "linear"}, teams : {2}, rounds : {0, 2}, starters : {1}]
MCPosition == [p \in 1 .. 5 |-> IF p % 3 = 0 THEN "TE" ELSE "WR"]
MCProjection == [p \in 1 .. 5 |-> p * p]

MCPlayers == 1 .. 5
MCChanging == {<<"comments", 0>>, <<"files", 0>>}
MCOrdered == {<<"files", 0>>}

-----------------------------------------------------------------------------
Symmetry == Permutations(Calls) \cup Permutations(Requests)

=============================================================================
