----------------------------- MODULE SleeperReads -----------------------------
(***************************************************************************)
(* The Sleeper tools' reads (src/sleeper/client.go, tools_*.go).           *)
(*                                                                         *)
(* A tool call reads a fixed list of Sleeper's endpoints through one       *)
(* cache.  The cache's lock is not held while Sleeper is asked, so a value *)
(* may be stored after a newer one; each endpoint has its own time to      *)
(* live.  Two answers depend on how old the values are: whether a player's *)
(* game is locked, and whom a player's name means.                         *)
(***************************************************************************)
EXTENDS Naturals, Sequences, FiniteSets

CONSTANTS None,
          Calls, Tools,  \* the tools called, of DOMAIN Reads
          Ttl,           \* [Watched -> ticks an entry lives]
          MaxFetch,      \* bound on the ticks Sleeper takes to answer
          Notice,        \* ticks ahead that a kickoff's move is announced
          Kickoffs,      \* the ticks the game may start at
          MaxTicks, MaxMoves

\* The endpoints whose values the answers depend on.  Of another one it matters
\* only that its read may fail: a hit and an answer are alike.
Watched == {"schedule", "scores", "players"}

ReadsAssumption ==
    /\ Ttl \in [Watched -> Nat \ {0}] /\ MaxFetch \in Nat /\ Notice \in Nat
    /\ Kickoffs \subseteq Nat
    /\ MaxTicks \in Nat /\ MaxMoves \in Nat /\ None \notin Nat \cup BOOLEAN
    /\ Notice > Ttl["scores"] + MaxFetch  \* "announced days ahead" against six hours

VARIABLES
    tick,
    kickoff, started, \* the NFL: when the game starts, and that Sleeper says it has
    players,          \* Sleeper: the version of its players dump
    moves,
    entries,          \* c.cache: of a watched endpoint its [value, expires], or None
    names,            \* c.names: the version of the dump the index was built from
    call

world == <<tick, kickoff, started, players, moves>>
vars == <<world, entries, names, call>>

-----------------------------------------------------------------------------
(* What each tool reads, in order: a set of paths, of which a call takes    *)
(* one.  must: its failure is the call's.  may: the call goes on without.   *)
(* round: not found, it goes on without; another failure is the call's.     *)
(* slate: without it players get no game.  had: the path is the one of a    *)
(* call for which this read succeeds.  Of reads that are alike, one for     *)
(* each week, one stands for all.                                           *)

\* The client's reads: each goes through cached under a key and for a time of
\* its own, and an answer that is not a whole one fails.
LeagueEndpoints == {"state", "league", "rosters", "users", "matchups", "projections", "stats"}
AccountEndpoints == {"user", "user_leagues", "transactions", "winners_bracket",
                     "league_drafts", "draft", "draft_picks", "trending"}
PlayerEndpoints == {"player", "research", "player_season_stats", "player_game_log", "season_stats"}
Endpoints == LeagueEndpoints \cup AccountEndpoints \cup PlayerEndpoints \cup Watched

Must(keys) == [i \in DOMAIN keys |-> <<keys[i], "must">>]
May(keys) == [i \in DOMAIN keys |-> <<keys[i], "may">>]
LeagueRostersUsers == Must(<<"league", "rosters", "users">>)
WeekSlate(need) == <<<<"schedule", need>>, <<"scores", "may">>>>

ScheduleReads == {Must(<<"state">>) \o WeekSlate("must")}
LeagueReads == {Must(<<"league", "state">>)}
UserReads == {Must(<<"user", "state", "user_leagues">>)}
RosterReads == {LeagueRostersUsers \o Must(<<"players", "state">>) \o WeekSlate("slate")}
MatchupReads ==
    {LeagueRostersUsers \o Must(<<"state", "matchups", "projections", "players">>)
        \o WeekSlate("slate") \o Must(<<"stats">>)}
StandingsReads == {LeagueRostersUsers \o Must(<<"state">>)}
\* resolvePlayer reads one player, given an id, and the dump, given a name.
PlayerReads ==
    {Must(<<who, "state", "projections">>) \o WeekSlate("slate")
        \o May(<<"player_season_stats", "player_game_log">>) : who \in {"player", "players"}}
DropRowReads == {May(<<"players">>)}
\* Before the season there is no week whose transactions could be read.
TransactionsReads ==
    {Must(<<"rosters", "users", "players", "state">>) \o rounds :
        rounds \in {<<>>, <<<<"transactions", "round">>>>}}
FreeAgentsReads == {Must(<<"rosters", "players", "state", "projections", "trending", "research">>)}
DraftReads ==
    {Must(<<"league_drafts", "league", "draft", "draft_picks", "rosters", "users", "players",
            "state", "projections">>) \o May(<<"league">>)}

\* seasonHistoryFor: only a season under way asks which week it is, only one
\* that is over for what its picks came to, and none without a draft for picks.
SeasonReads ==
    LET Season(weeks, draft) ==
            Must(<<"rosters">>) \o May(<<"users">>) \o Must(<<"players">>) \o weeks
                \o May(<<"matchups">>) \o Must(<<"winners_bracket">>) \o Must(draft)
    IN  {Season(May(<<"state">>), draft) : draft \in {<<>>, <<"draft_picks">>}}
            \cup {Season(<<>>, draft) : draft \in {<<>>, <<"draft_picks", "season_stats">>}}

\* Chain: the first league must be there; the chain ends with the league whose
\* read fails, or that has none before it.  One earlier league stands for many.
HistoryReads ==
    {Must(<<"league">>) \o last \o season :
        last \in {<<>>, May(<<"league">>)}, season \in SeasonReads}
    \cup {Must(<<"league">>) \o <<<<"league", "had">>>> \o season \o earlier :
             season, earlier \in SeasonReads}

Reads == [schedule |-> ScheduleReads, league |-> LeagueReads, user |-> UserReads,
          roster |-> RosterReads, matchup |-> MatchupReads, standings |-> StandingsReads,
          player |-> PlayerReads, transactions |-> TransactionsReads,
          free_agents |-> FreeAgentsReads, draft |-> DraftReads, drop_row |-> DropRowReads,
          history |-> HistoryReads]

EndpointsAssumption ==
    \A tool \in DOMAIN Reads : \A path \in Reads[tool] :
        \A i \in DOMAIN path : path[i][1] \in Endpoints

Values == [schedule |-> started, scores |-> kickoff, players |-> players]

\* now: newClock; got: what was read; asked: the tick of the request under way;
\* locked and truth: the answer about the game, and what was so.
Idle == [stage |-> "idle", tool |-> None, todo |-> <<>>, now |-> 0,
         got |-> [k \in Watched |-> None], asked |-> None, fresh |-> None,
         locked |-> None, truth |-> None, index |-> None]

Init ==
    /\ tick = 0 /\ kickoff \in Kickoffs /\ started = FALSE /\ players = 0 /\ moves = 0
    /\ entries = [k \in Watched |-> None] /\ names = None
    /\ call = [c \in Calls |-> Idle]

-----------------------------------------------------------------------------
(* A call.                                                                  *)

Begin(c) ==
    /\ call[c].stage = "idle"
    /\ \E tool \in Tools : \E path \in Reads[tool] :
          call' = [call EXCEPT ![c] = [Idle EXCEPT !.stage = "read", !.tool = tool,
                                                   !.todo = path, !.now = tick]]
    /\ UNCHANGED <<world, entries, names>>

Key(c) == call[c].todo[1][1]
Need(c) == call[c].todo[1][2]
Reading(c) == call[c].stage = "read" /\ call[c].todo # <<>>

Live(k) == entries[k] # None /\ tick < entries[k].expires

\* A value has been read; a dump goes into the name index before anything else.
Got(c, value) ==
    [call[c] EXCEPT !.stage = IF Key(c) = "players" THEN "index" ELSE "read",
                    !.todo = Tail(@), !.asked = None, !.fresh = None,
                    !.got = IF Key(c) \in Watched THEN [@ EXCEPT ![Key(c)] = value] ELSE @]

\* cached: the entry while it lives.
Hit(c) ==
    /\ Reading(c)
    /\ Key(c) \in Watched => Live(Key(c))
    /\ call' = [call EXCEPT ![c] =
          Got(c, IF Key(c) \in Watched THEN entries[Key(c)].value ELSE None)]
    /\ UNCHANGED <<world, entries, names>>

\* cached: a miss; Sleeper answers with what is so now, and the answer is under way.
Ask(c) ==
    /\ Reading(c) /\ Key(c) \in Watched /\ ~Live(Key(c))
    /\ call' = [call EXCEPT ![c].stage = "fetch", ![c].asked = tick,
                            ![c].fresh = Values[Key(c)]]
    /\ UNCHANGED <<world, entries, names>>

\* The sweep drops what has expired.
Stored(k, value) ==
    [x \in Watched |->
       IF x = k THEN [value |-> value, expires |-> tick + Ttl[k]]
       ELSE IF entries[x] # None /\ tick > entries[x].expires THEN None ELSE entries[x]]

Store(c) ==
    /\ call[c].stage = "fetch"
    /\ entries' = Stored(Key(c), call[c].fresh)
    /\ call' = [call EXCEPT ![c] = Got(c, call[c].fresh)]
    /\ UNCHANGED <<world, names>>

\* The request fails, or its body is null: nothing is stored.
Fail(c) ==
    /\ Reading(c) \/ call[c].stage = "fetch"
    /\ Key(c) \in Watched => call[c].stage = "fetch"
    /\ \/ /\ Need(c) \in {"must", "round"}
          /\ call' = [call EXCEPT ![c] =
                [@ EXCEPT !.stage = "failed", !.fresh = None, !.asked = None]]
       \/ /\ Need(c) \in {"may", "round", "slate"}
          /\ call' = [call EXCEPT ![c] =
                [@ EXCEPT !.stage = "read", !.asked = None, !.fresh = None,
                          !.todo = IF Need(c) = "slate" THEN Tail(Tail(@)) ELSE Tail(@)]]
    /\ UNCHANGED <<world, entries, names>>

\* PlayersDump: the index is rebuilt by every call, a hit's too.
Index(c) ==
    /\ call[c].stage = "index"
    /\ names' = call[c].got["players"]
    /\ call' = [call EXCEPT ![c].stage = IF call[c].tool \in {"player", "drop_row"}
                                        THEN "resolve" ELSE "read"]
    /\ UNCHANGED <<world, entries>>

\* resolvePlayer: the index is looked up, the player taken from the call's dump.
Resolve(c) ==
    /\ call[c].stage = "resolve"
    /\ call' = [call EXCEPT ![c].stage = "read", ![c].index = names]
    /\ UNCHANGED <<world, entries, names>>

\* Mutant: a game is locked once Sleeper says it has begun.
LockedByStatus(status, start, now) == status

\* withKickoff: a start is as good as a status; without one, an unlocked game
\* is not known to be so.
Locked(status, start, now) ==
    IF start = None THEN (IF status THEN TRUE ELSE None) ELSE status \/ start <= now

Answer(c) ==
    /\ call[c].stage = "read" /\ call[c].todo = <<>>
    /\ LET got == call[c].got
       IN  call' = [call EXCEPT ![c].stage = "done",
              ![c].locked = IF got["schedule"] = None THEN None
                            ELSE Locked(got["schedule"], got["scores"], call[c].now),
              ![c].truth = [then |-> kickoff <= call[c].now, by_now |-> kickoff <= tick]]
    /\ UNCHANGED <<world, entries, names>>

-----------------------------------------------------------------------------
(* The world.                                                               *)

Tick ==
    /\ tick < MaxTicks
    /\ \A c \in Calls : call[c].asked # None => tick - call[c].asked < MaxFetch
    /\ tick' = tick + 1
    /\ UNCHANGED <<kickoff, started, players, moves, entries, names, call>>

\* The game is under way and Sleeper says so, then or later.
Starts ==
    /\ ~started /\ kickoff <= tick /\ started' = TRUE
    /\ UNCHANGED <<tick, kickoff, players, moves, entries, names, call>>

\* A kickoff is moved, well ahead of the old one and of the new.
Move ==
    /\ moves < MaxMoves /\ moves' = moves + 1
    /\ \E to \in Kickoffs \ {kickoff} :
          /\ tick + Notice <= to /\ tick + Notice <= kickoff
          /\ kickoff' = to
    /\ UNCHANGED <<tick, started, players, entries, names, call>>

\* A player is added to the dump, or dropped from it.
NewDump ==
    /\ moves < MaxMoves /\ moves' = moves + 1
    /\ players' = players + 1
    /\ UNCHANGED <<tick, kickoff, started, entries, names, call>>

Next ==
    \/ \E c \in Calls : \/ Begin(c) \/ Hit(c) \/ Ask(c) \/ Store(c) \/ Fail(c)
                        \/ Index(c) \/ Resolve(c) \/ Answer(c)
    \/ Tick \/ Starts \/ Move \/ NewDump

Spec == Init /\ [][Next]_vars

-----------------------------------------------------------------------------
(* Properties.                                                              *)

\* Whatever was cached by whom, a game shown as not locked had not kicked off at
\* the call's fetched_at, and one shown as locked has (tools_league.go 167).
LockIsHonest ==
    \A c \in Calls :
        /\ call[c].locked = FALSE => ~call[c].truth.then
        /\ call[c].locked = TRUE => call[c].truth.by_now

\* "the index never lags a dump refetched after its TTL" (client.go 193): the
\* name a call resolves is looked up in an index of no older dump than its own.
IndexFitsDump ==
    \A c \in Calls : call[c].index # None => call[c].index >= call[c].got["players"]

==============================================================================
