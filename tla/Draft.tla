-------------------------------- MODULE Draft --------------------------------
(***************************************************************************)
(* sleeper_draft on a draft that goes on (src/sleeper/draft.go).           *)
(*                                                                         *)
(* A call reads the draft, then its picks, each from a copy the client may *)
(* have or from Sleeper; it says who is on the clock from the number of    *)
(* picks, and who is best available.  Between two reads, teams pick.       *)
(***************************************************************************)
EXTENDS Naturals, Sequences, SequencesExt, FiniteSets

CONSTANTS None,
          Settings,  \* [type, teams, rounds, starters]; rounds may be 0: not set
          Players, Position, Projection,
          PerPosition,  \* bestAvailablePerPosition
          Rounds        \* rounds there are

\* A draft is of some teams and rounds, and has a round for each starter.
DraftAssumption ==
    /\ None \notin Nat /\ Rounds \in Nat \ {0}
    /\ \A s \in Settings :
          s.teams \in Nat \ {0} /\ s.rounds \in {0, Rounds} /\ s.starters \in 0 .. Rounds

VARIABLES
    settings, status, picks,  \* Sleeper: the draft and what has been picked
    draftCopy, picksCopy,     \* the client's copies, or None
    caller                    \* a call of the tool

sleeper == <<settings, status, picks>>
vars == <<sleeper, draftCopy, picksCopy, caller>>

Idle == [stage |-> "idle", status |-> None, answer |-> None]

Init ==
    /\ settings \in Settings /\ status = "pre_draft" /\ picks = <<>>
    /\ draftCopy = None /\ picksCopy = None /\ caller = Idle

-----------------------------------------------------------------------------
(* The draft: slots 1 to n take turns, back and forth in a snake draft.     *)

Slots == [i \in 1 .. settings.teams |-> i]
Round(r) == IF settings.type = "snake" /\ r % 2 = 0 THEN Reverse(Slots) ELSE Slots
Turns == FlattenSeq([r \in 1 .. Rounds |-> Round(r)])

Start ==
    /\ status = "pre_draft" /\ status' = "drafting"
    /\ UNCHANGED <<settings, picks, draftCopy, picksCopy, caller>>

Pick ==
    /\ status = "drafting"
    /\ \E p \in Players \ ToSet(picks) : picks' = Append(picks, p)
    /\ status' = IF Len(picks') = Len(Turns) THEN "complete" ELSE status
    /\ UNCHANGED <<settings, draftCopy, picksCopy, caller>>

\* A copy outlives its time to live.
Expire ==
    /\ \/ draftCopy' = None /\ UNCHANGED picksCopy
       \/ picksCopy' = None /\ UNCHANGED draftCopy
    /\ UNCHANGED <<sleeper, caller>>

-----------------------------------------------------------------------------
(* getDraft.                                                                *)

ReadDraft ==
    /\ caller.stage = "idle"
    /\ draftCopy' = IF draftCopy # None THEN draftCopy ELSE status
    /\ caller' = [Idle EXCEPT !.stage = "picks", !.status = draftCopy']
    /\ UNCHANGED <<sleeper, picksCopy>>

\* draftRounds: what is set, or one for each starter there is.
draftRounds == IF settings.rounds > 0 THEN settings.rounds ELSE settings.starters

\* Mutant: the turn is taken in the odd rounds.
onClockTurned(said, made) ==
    LET teams == settings.teams
        round == made \div teams + 1
        pos == made % teams
    IN  IF said # "drafting" \/ teams = 0 \/ made >= teams * draftRounds THEN None
        ELSE IF settings.type = "snake" /\ round % 2 = 1 THEN teams - pos ELSE pos + 1

\* The slot whose turn it is after so many picks; None: nobody's.
onClock(said, made) ==
    LET teams == settings.teams
        round == made \div teams + 1
        pos == made % teams
    IN  IF said # "drafting" \/ teams = 0 \/ made >= teams * draftRounds THEN None
        ELSE IF settings.type = "snake" /\ round % 2 = 0 THEN teams - pos ELSE pos + 1

\* Of each position those with the highest projections whom nobody has picked.
bestAvailable(taken) ==
    LET of(pos) == {p \in Players \ taken : Position[p] = pos}
        above(p) == {q \in of(Position[p]) : Projection[q] > Projection[p]}
    IN  {p \in Players \ taken : Cardinality(above(p)) < PerPosition}

ReadPicks ==
    /\ caller.stage = "picks"
    /\ picksCopy' = IF picksCopy # None THEN picksCopy ELSE picks
    /\ caller' = [caller EXCEPT !.stage = "answered",
          !.answer = [picks |-> picksCopy', slot |-> onClock(caller.status, Len(picksCopy')),
                      best |-> IF caller.status = "drafting"
                               THEN bestAvailable(ToSet(picksCopy')) ELSE {}]]
    /\ UNCHANGED <<sleeper, draftCopy>>

Return ==
    /\ caller.stage = "answered" /\ caller' = Idle
    /\ UNCHANGED <<sleeper, draftCopy, picksCopy>>

Next == Start \/ Pick \/ Expire \/ ReadDraft \/ ReadPicks \/ Return

Spec == Init /\ [][Next]_vars

-----------------------------------------------------------------------------
(* Properties.                                                              *)

\* Whoever is said to be on the clock is the one who makes the pick after those
\* that are shown, and nobody shown as picked is shown as available, however old
\* either copy is (draft.go 275, 298).
ClockFollowsThePicks ==
    caller.stage = "answered" =>
        LET a == caller.answer
        IN  /\ a.slot # None => a.slot = Turns[Len(a.picks) + 1]
            /\ caller.status = "drafting" /\ settings.rounds = Rounds
                  => (a.slot = None) = (Len(a.picks) = Len(Turns))
            /\ a.best \cap ToSet(a.picks) = {}

\* "a draft's state: ... every pick so far" (draft.go 77): a draft said to be
\* complete has all its picks.
CompleteIsWhole ==
    caller.stage = "answered" /\ caller.status = "complete" =>
        Len(caller.answer.picks) = Len(Turns)

==============================================================================
