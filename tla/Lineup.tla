-------------------------------- MODULE Lineup --------------------------------
(***************************************************************************)
(* sleeper_matchup (src/sleeper/tools_matchup.go, history_lineup.go): for  *)
(* a week that is over, the best lineup a team could have started, the     *)
(* swaps that lead to it and the free agents it missed; for the live week, *)
(* the best lineup by projection.  One call is one action: it reads a      *)
(* week and answers.                                                       *)
(***************************************************************************)
EXTENDS Integers, Sequences, SequencesExt, FiniteSetsExt, Selection

CONSTANTS None,
          Leagues,   \* [positions, complete]: roster_positions, and the season is over
          Weeks,     \* a week's facts, see IsWeek
          Orders,    \* orders in which Go may visit the map of positions
          BitWidth   \* candidates a uint32 can tell apart: 32 in the code

Positions == {"QB", "RB", "WR", "TE", "K", "DEF"}

\* players: the rosters, mine first; starters: of mine, "0" an empty slot;
\* pos, injury, points, projected: of every player known.
IsWeek(w) ==
    /\ DOMAIN w = {"players", "starters", "pos", "injury", "points", "projected"}
    /\ ToSet(w.starters) \subseteq ToSet(w.players[1]) \cup {"0"}

VARIABLES league, week, asked, \* the facts, and "past" or "live"
          answer

vars == <<league, week, asked, answer>>

Init == league \in Leagues /\ week \in Weeks /\ asked = None /\ answer = None

-----------------------------------------------------------------------------
(* Slots.                                                                   *)

nonBenchSlots(positions) ==
    SelectAt(positions, {i \in DOMAIN positions : positions[i] \notin {"BN", "IR", "TAXI"}})

flexKindEligible ==
    [WRRB_FLEX |-> {"RB", "WR"}, REC_FLEX |-> {"WR", "TE"},
     FLEX |-> {"RB", "WR", "TE"}, SUPER_FLEX |-> {"QB", "RB", "WR", "TE"}]

IsFlex(slot) == slot \in DOMAIN flexKindEligible
flexEligible(slot, pos) == IsFlex(slot) /\ pos \in flexKindEligible[slot]
MayFill(pos, slot) == slot = pos \/ flexEligible(slot, pos)

LineupAssumption ==
    /\ BitWidth \in Nat
    /\ \A l \in Leagues : l.positions \in Seq(ToSet(l.positions))
    /\ \A w \in Weeks :
          /\ IsWeek(w)
          /\ w.players[1] \in Seq(ToSet(w.players[1])) /\ IsInjective(w.players[1])
          /\ \A x \in ToSet(w.players[1]) :
                x # None /\ ~IsFlex(w.pos[x]) /\ w.points[x] \in Int /\ w.projected[x] \in Int
    /\ \A order \in Orders :
          /\ order \in Seq(ToSet(order)) /\ IsInjective(order)
          /\ ToSet(order) = UNION {flexKindEligible[slot] : slot \in DOMAIN flexKindEligible}

-----------------------------------------------------------------------------
(* The best lineup.                                                         *)

\* What a lineup scores.
Added(values) ==
    LET upto[i \in 0 .. Len(values)] == IF i = 0 THEN 0 ELSE upto[i - 1] + values[i]
    IN  upto[Len(values)]
Scored(lineup, points) ==
    Added([i \in DOMAIN lineup |-> IF lineup[i] = None THEN 0 ELSE points[lineup[i]]])

\* sort.SliceStable, highest first.
sortedByPoints(ids, points) ==
    LET ahead(j) == {i \in DOMAIN ids :
                        \/ points[ids[i]] > points[ids[j]]
                        \/ points[ids[i]] = points[ids[j]] /\ i < j}
    IN  [k \in DOMAIN ids |-> ids[CHOOSE j \in DOMAIN ids : Cardinality(ahead(j)) = k - 1]]

\* groupByPosition: the players of a position.
OfPosition(ids, p, pos) == SelectAt(ids, {i \in DOMAIN ids : pos[ids[i]] = p})

\* uint32(1) << i, as the set of its bits: nothing is left past the width.
Bit(i) == IF i <= BitWidth THEN {i} ELSE {}

\* Mutant: slot by slot, each takes the best candidate left.
GreedyAssignment(slots, candidates, w) ==
    LET fill(acc, slot) ==
            LET free == {i \in DOMAIN candidates \ acc.used :
                            flexEligible(slots[slot], w.pos[candidates[i]])}
                top == CHOOSE i \in free :
                           \A j \in free : w.points[candidates[i]] >= w.points[candidates[j]]
            IN  IF free = {} THEN acc
                ELSE [used |-> acc.used \cup {top}, by |-> [acc.by EXCEPT ![slot] = candidates[top]],
                      total |-> acc.total + w.points[candidates[top]]]
        none == [i \in DOMAIN slots |-> None]
        filled == FoldLeft(fill, [used |-> {}, by |-> none, total |-> 0], [i \in DOMAIN slots |-> i])
    IN  [total |-> filled.total, by |-> filled.by]

\* The best of the assignments of candidates to the flex slots from a slot on,
\* some taken.  The slot is left unfilled, or filled with the first of those who
\* do best, if that is better; whoever fills no strict slot passes it over.
maxWeightAssignment(slots, candidates, w) ==
    LET from[slot \in 1 .. Len(slots) + 1] ==
            [taken \in SUBSET DOMAIN candidates |->
                IF slot > Len(slots) THEN [total |-> 0, by |-> [i \in DOMAIN slots |-> None]]
                ELSE LET unfilled == from[slot + 1][taken]
                         having(i) == from[slot + 1][taken \cup Bit(i)]
                         value == [i \in DOMAIN candidates |->
                                      w.points[candidates[i]] + having(i).total]
                         better == {i \in DOMAIN candidates :
                                       /\ Bit(i) \cap taken = {}
                                       /\ flexEligible(slots[slot], w.pos[candidates[i]])
                                       /\ value[i] > unfilled.total}
                         first == CHOOSE i \in better : \A j \in better :
                                      value[i] > value[j] \/ (value[i] = value[j] /\ i <= j)
                     IN  IF better = {} THEN unfilled
                         ELSE [total |-> value[first],
                               by |-> [having(first).by EXCEPT ![slot] = candidates[first]]]]
    IN  from[1][{}]

\* Who is left over and may fill one of the flex slots, position by position.
assignFlexSlots(slots, left, w, order) ==
    LET wanted == UNION {flexKindEligible[slots[i]] : i \in {j \in DOMAIN slots : IsFlex(slots[j])}}
        candidates == FlattenSeq([i \in DOMAIN order |->
                          IF order[i] \in wanted THEN left[order[i]] ELSE <<>>])
    IN  maxWeightAssignment(slots, candidates, w)

\* Strict slots take the top scorers of their position, in slot order.
strictSlots(slots, ids, w) ==
    LET group(p) == sortedByPoints(OfPosition(ids, p, w.pos), w.points)
        turn(i) == Cardinality({j \in 1 .. i : slots[j] = slots[i]})
    IN  [i \in DOMAIN slots |->
            IF IsFlex(slots[i]) \/ turn(i) > Len(group(slots[i])) THEN None
            ELSE group(slots[i])[turn(i)]]

leftover(slots, ids, w, order) ==
    LET group(p) == sortedByPoints(OfPosition(ids, p, w.pos), w.points)
        strict(p) == Cardinality({j \in DOMAIN slots : slots[j] = p})
    IN  [p \in ToSet(order) |-> SubSeq(group(p), strict(p) + 1, Len(group(p)))]

bestLineup(positions, ids, w, order) ==
    LET slots == nonBenchSlots(positions)
        strict == strictSlots(slots, ids, w)
        flex == assignFlexSlots(slots, leftover(slots, ids, w, order), w, order)
    IN  [total |-> Scored(strict, w.points) + flex.total,
         by |-> [i \in DOMAIN slots |-> IF IsFlex(slots[i]) THEN flex.by[i] ELSE strict[i]]]

-----------------------------------------------------------------------------
(* What a finished week's answer adds.                                      *)

\* buildSide: slot "?" past the league's slots.
Starters(positions, w) ==
    LET slots == nonBenchSlots(positions)
    IN  [i \in DOMAIN w.starters |->
           [slot |-> IF i <= Len(slots) THEN slots[i] ELSE "?", id |-> w.starters[i],
            points |-> IF w.starters[i] = "0" THEN 0 ELSE w.points[w.starters[i]]]]

Started(starters) == FoldLeft(LAMBDA sum, s : sum + s.points, 0, starters)

benchPlayers(w) ==
    SelectSeq(w.players[1], LAMBDA id : id # "0" /\ id \notin ToSet(w.starters))

inPlayers(best, starters, w) ==
    LET new == SelectSeq(best.by, LAMBDA id :
                   id # None /\ \A i \in DOMAIN starters : starters[i].id # id)
    IN  sortedByPoints(new, w.points)

outPlayers(best, starters) ==
    SelectSeq(starters, LAMBDA s : s.id # "0" /\ s.id \notin ToSet(best.by))

\* weakestEligibleOut: the first of the lowest scorers pos could replace.
weakestEligible(pos, slots) ==
    LET may == {i \in DOMAIN slots : MayFill(pos, slots[i].slot)}
    IN  CHOOSE i \in may : \A j \in may \ {i} :
            \/ slots[i].points < slots[j].points
            \/ slots[i].points = slots[j].points /\ i < j

\* Greedy: a newcomer nobody is left to make room for gets no swap.
pairSwaps(ins, outs, w) ==
    LET pair(acc, id) ==
            IF \A i \in DOMAIN acc.outs : ~MayFill(w.pos[id], acc.outs[i].slot) THEN acc
            ELSE LET i == weakestEligible(w.pos[id], acc.outs)
                 IN  [outs |-> RemoveAt(acc.outs, i),
                      swaps |-> Append(acc.swaps, [in |-> id, out |-> acc.outs[i]])]
    IN  FoldLeft(pair, [outs |-> outs, swaps |-> <<>>], ins).swaps

rosteredPlayers(w) == UNION {ToSet(w.players[r]) : r \in DOMAIN w.players}

\* An unrostered player who outscored the weakest starter he could have
\* replaced, an empty slot included.
freeAgentHits(starters, w) ==
    {[id |-> id, over |-> starters[weakestEligible(w.pos[id], starters)]] :
       id \in {x \in DOMAIN w.pos \ rosteredPlayers(w) :
                 /\ w.pos[x] \in Positions
                 /\ \E i \in DOMAIN starters : MayFill(w.pos[x], starters[i].slot)
                 /\ w.points[x] > starters[weakestEligible(w.pos[x], starters)].points}}

excludeInjured(ids, w) ==
    SelectAt(ids, {i \in DOMAIN ids : w.injury[ids[i]] \notin {"Out", "IR", "Doubtful"}})

-----------------------------------------------------------------------------
(* The call.                                                                *)

addRetroFields(positions, w, order) ==
    LET best == bestLineup(positions, w.players[1], w, order)
        starters == Starters(positions, w)
    IN  [best |-> best, bench |-> benchPlayers(w), starters |-> starters,
         left |-> best.total - Started(starters),
         swaps |-> pairSwaps(inPlayers(best, starters, w), outPlayers(best, starters), w),
         hits |-> freeAgentHits(starters, w)]

bestByProjection(positions, w, order) ==
    LET fit == excludeInjured(w.players[1], w)
    IN  [best |-> bestLineup(positions, fit, [w EXCEPT !.points = w.projected], order)]

\* weekIsComplete: a week before the live one, or any once the season is over.
Matchup ==
    /\ answer = None
    /\ \E when \in {"past", "live"}, order \in Orders :
          /\ asked' = when
          /\ answer' = IF league.complete \/ when = "past"
                       THEN addRetroFields(league.positions, week, order)
                       ELSE bestByProjection(league.positions, week, order)
    /\ UNCHANGED <<league, week>>

Next == Matchup

Spec == Init /\ [][Next]_vars

-----------------------------------------------------------------------------
(* Properties.                                                              *)

Retro == answer # None /\ "swaps" \in DOMAIN answer
Fit == IF Retro THEN ToSet(week.players[1]) ELSE ToSet(excludeInjured(week.players[1], week))
Worth == IF Retro THEN week.points ELSE week.projected

\* The lineups the league's rules allow: each player in one slot he may fill.
Legal(lineup, slots) ==
    \A i \in DOMAIN slots : lineup[i] # None =>
        /\ lineup[i] \in Fit /\ MayFill(week.pos[lineup[i]], slots[i])
        /\ \A j \in DOMAIN slots \ {i} : lineup[j] # lineup[i]

\* A strict slot is left empty only if nobody who could fill it scored less than
\* nothing: the code starts the top scorer of a position whatever he scored.
Starts(lineup, slots) ==
    \A i \in DOMAIN slots : lineup[i] = None =>
        \A x \in Fit : week.pos[x] = slots[i] /\ Worth[x] < 0 =>
            \E j \in DOMAIN slots : lineup[j] = x

\* Of no more players than there are bits, the lineup is one the league allows, and
\* none it allows scores more, whatever slots compete for the same players
\* (history_lineup.go 23 "one exact max-weight assignment").
LineupIsOptimal ==
    answer # None /\ Cardinality(Fit) <= BitWidth =>
        LET slots == nonBenchSlots(league.positions)
            best == answer.best
        IN  /\ Legal(best.by, slots) /\ Scored(best.by, Worth) = best.total
            /\ \A lineup \in [DOMAIN slots -> Fit \cup {None}] :
                  Legal(lineup, slots) /\ Starts(lineup, slots) => Scored(lineup, Worth) <= best.total

\* A swap is one of a better player: the recap shows its newcomer as better_name
\* (agents/league-reporter/prompt.md 65, ui/schemas/retro.json 34).
SwapsGain == Retro => \A i \in DOMAIN answer.swaps :
                 week.points[answer.swaps[i].in] >= answer.swaps[i].out.points

\* "buildSwaps pairs each best_lineup player who didn't start with the weakest
\* eligible starter" (tools_matchup.go 225), so points left come with a swap.
SwapsExplainTheLoss == Retro => (answer.left > 0 => answer.swaps # <<>>)

==============================================================================
