---------------------------- MODULE SmallMachines ----------------------------
(***************************************************************************)
(* The small machines of the two extensions, in one module.                *)
(*                                                                         *)
(* They share nothing: "which" says which of them this behaviour is of,    *)
(* and the variables of the others keep the value None.  Each property     *)
(* below is the one of that name in the module of its part.                *)
(***************************************************************************)
EXTENDS Naturals, Sequences, FiniteSets

CONSTANTS None, Bad, Prose, Calls, Requests,
          Parts  \* the machines there are

CONSTANTS Diffs, Given, MaxPushes                                  \* Findings
CONSTANTS MaxAttempts, Life, Skew, ClientTicks, ClientChanges      \* GitHubClient
CONSTANTS Docs, MaxPerSubmit, Forms, MaxDispatches, IngestCrashes,
          MaxSaveFailures                                          \* Ingest
CONSTANTS Leagues, LineupWeeks, Orders, BitWidth                   \* Lineup
CONSTANTS Tools, Ttl, MaxFetch, Notice, Kickoffs, ReadTicks,
          MaxMoves                                                 \* SleeperReads
CONSTANTS Weeks, Posts, Artifacts, MaxEnds                         \* SleeperRuns
CONSTANTS TrendPlayers, Facts, Zero, Window, LastDay, TrendChanges,
          TrendCrashes, MaxRot                                     \* Trends
CONSTANTS Reviews, Patches                                         \* DecisionRecords
CONSTANTS IsPR, CheckSHA, Bodies, Runs, Lists, Changing, Ordered,
          sanitizeCheckName(_), PageSize, Cap, ListChanges,
          MaxFailures                                              \* InputArtifacts
CONSTANTS Settings, Players, Position, Projection, PerPosition,
          Rounds                                                   \* Draft

VARIABLES which,
    diff, pushes, cached, phase, findings, read, inline, unanchored,
    installed, installs, noInstall, token, now, changes, denied, calls,
    up, st, disk, batch, runs, dispatched, sinceBoot, crashes, saveFailures,
    league, week, asked, answer,
    tick, kickoff, started, players, moves, entries, names, call,
    turns, due, artifact, running, req, deciding, advice, ends,
    day, fact, rostered, log, dump, dueTick, writer, files, reader, bounds,
    review, patch, diffRead, next, asks,
    lists, body, checks, listBounds, store, todo, got, page, since, manifest,
    settings, status, picks, draftCopy, picksCopy, caller

-----------------------------------------------------------------------------
F == INSTANCE Findings
G == INSTANCE GitHubClient WITH MaxTicks <- ClientTicks, MaxChanges <- ClientChanges
I == INSTANCE Ingest WITH MaxCrashes <- IngestCrashes
L == INSTANCE Lineup WITH Weeks <- LineupWeeks
S == INSTANCE SleeperReads WITH MaxTicks <- ReadTicks
B == INSTANCE SleeperRuns
T == INSTANCE Trends WITH Players <- TrendPlayers, MaxChanges <- TrendChanges,
                          MaxCrashes <- TrendCrashes, due <- dueTick
D == INSTANCE DecisionRecords WITH read <- diffRead
A == INSTANCE InputArtifacts WITH MaxChanges <- ListChanges, bounds <- listBounds
P == INSTANCE Draft

ASSUME PartsAssumption ==
    /\ F!FindingsAssumption /\ G!ClientAssumption /\ I!IngestAssumption
    /\ S!ReadsAssumption /\ S!EndpointsAssumption /\ B!RunsAssumption
    /\ T!TrendsAssumption /\ D!RecordsAssumption /\ A!ArtifactsAssumption
    /\ L!LineupAssumption /\ P!DraftAssumption

fVars == <<diff, pushes, cached, phase, findings, read, inline,
           unanchored>>
gVars == <<installed, installs, noInstall, token, now, changes, denied,
           calls>>
iVars == <<up, st, disk, batch, runs, dispatched, sinceBoot, crashes,
           saveFailures>>
lVars == <<league, week, asked, answer>>
sVars == <<tick, kickoff, started, players, moves, entries, names, call>>
bVars == <<turns, due, artifact, running, req, deciding, advice, ends>>
tVars == <<day, fact, rostered, log, dump, dueTick, writer, files,
           reader, bounds>>
dVars == <<review, patch, diffRead, next, asks>>
aVars == <<lists, body, checks, listBounds, store, todo, got, page,
           since, manifest>>
pVars == <<settings, status, picks, draftCopy, picksCopy, caller>>

\* The one that runs has its initial states, the others none.
Init ==
    /\ which \in Parts
    /\ IF which = "findings" THEN F!Init
       ELSE diff = None /\ pushes = None /\ cached = None /\ phase = None /\
            findings = None /\ read = None /\ inline = None /\
            unanchored = None
    /\ IF which = "client" THEN G!Init
       ELSE installed = None /\ installs = None /\ noInstall = None /\
            token = None /\ now = None /\ changes = None /\ denied = None /\
            calls = None
    /\ IF which = "ingest" THEN I!Init
       ELSE up = None /\ st = None /\ disk = None /\ batch = None /\
            runs = None /\ dispatched = None /\ sinceBoot = None /\
            crashes = None /\ saveFailures = None
    /\ IF which = "lineup" THEN L!Init
       ELSE league = None /\ week = None /\ asked = None /\ answer = None
    /\ IF which = "reads" THEN S!Init
       ELSE tick = None /\ kickoff = None /\ started = None /\ players = None
            /\ moves = None /\ entries = None /\ names = None /\ call = None
    /\ IF which = "runs" THEN B!Init
       ELSE turns = None /\ due = None /\ artifact = None /\ running = None /\
            req = None /\ deciding = None /\ advice = None /\ ends = None
    /\ IF which = "trends" THEN T!Init
       ELSE day = None /\ fact = None /\ rostered = None /\ log = None /\
            dump = None /\ dueTick = None /\ writer = None /\ files = None /\
            reader = None /\ bounds = None
    /\ IF which = "records" THEN D!Init
       ELSE review = None /\ patch = None /\ diffRead = None /\ next = None /\
            asks = None
    /\ IF which = "artifacts" THEN A!Init
       ELSE lists = None /\ body = None /\ checks = None /\ listBounds = None
            /\ store = None /\ todo = None /\ got = None /\ page = None /\
            since = None /\ manifest = None
    /\ IF which = "draft" THEN P!Init
       ELSE settings = None /\ status = None /\ picks = None /\
            draftCopy = None /\ picksCopy = None /\ caller = None

Next ==
    /\ UNCHANGED which
    /\ \/ /\ which = "findings" /\ F!Next
          /\ UNCHANGED <<gVars, iVars, lVars, sVars, bVars, tVars, dVars, aVars, pVars>>
       \/ /\ which = "client" /\ G!Next
          /\ UNCHANGED <<fVars, iVars, lVars, sVars, bVars, tVars, dVars, aVars, pVars>>
       \/ /\ which = "ingest" /\ I!Next
          /\ UNCHANGED <<fVars, gVars, lVars, sVars, bVars, tVars, dVars, aVars, pVars>>
       \/ /\ which = "lineup" /\ L!Next
          /\ UNCHANGED <<fVars, gVars, iVars, sVars, bVars, tVars, dVars, aVars, pVars>>
       \/ /\ which = "reads" /\ S!Next
          /\ UNCHANGED <<fVars, gVars, iVars, lVars, bVars, tVars, dVars, aVars, pVars>>
       \/ /\ which = "runs" /\ B!Next
          /\ UNCHANGED <<fVars, gVars, iVars, lVars, sVars, tVars, dVars, aVars, pVars>>
       \/ /\ which = "trends" /\ T!Next
          /\ UNCHANGED <<fVars, gVars, iVars, lVars, sVars, bVars, dVars, aVars, pVars>>
       \/ /\ which = "records" /\ D!Next
          /\ UNCHANGED <<fVars, gVars, iVars, lVars, sVars, bVars, tVars, aVars, pVars>>
       \/ /\ which = "artifacts" /\ A!Next
          /\ UNCHANGED <<fVars, gVars, iVars, lVars, sVars, bVars, tVars, dVars, pVars>>
       \/ /\ which = "draft" /\ P!Next
          /\ UNCHANGED <<fVars, gVars, iVars, lVars, sVars, bVars, tVars, dVars, aVars>>

vars == <<which, fVars, gVars, iVars, lVars, sVars, bVars, tVars, dVars, aVars, pVars>>

Spec == Init /\ [][Next]_vars

-----------------------------------------------------------------------------
(* What holds of each, whatever the order and the failures: see its module. *)

\* The findings a review comes with are all in it, inline or in its body (app.go 657).
FindingsReachTheReview == which = "findings" => F!FindingsReachTheReview

\* A request that changes state is not sent again once it arrived (transport.go 79).
ChangesLandOnce == which = "client" => G!ChangesLandOnce

\* A token refused for its age was held for longer than the skew, and no call is
\* refused for want of an installation unless GitHub denied one (app.go 26, 181).
CachesServeTheLiving == which = "client" => G!CachesServeTheLiving

\* What the status page is drawn from agrees with what was dispatched, across
\* saves that fail and restarts (documents.go 108, 159).
IngestKeepsBooks == which = "ingest" => I!IngestKeepsBooks

\* The lineup said to be best is (history_lineup.go 110).
LineupIsOptimal == which = "lineup" => L!LineupIsOptimal

\* A game said not to have begun had not when the call was answered, however old
\* the schedule and the scores in the cache (tools_league.go 369).
LockIsHonest == which = "reads" => S!LockIsHonest

\* Nothing is shown as running that has no run, no dispatch and no end to come
\* (run.go 105).
NoPhantomBadge == which = "runs" => B!NoPhantomBadge

\* A decision is asked about the advice its run gave (decisions.go 177).
AsksAreTheAdvice == which = "runs" => B!AsksAreTheAdvice

\* What is reported as a change did change (tools_trends.go 107).
TrendsHappened == which = "trends" => T!TrendsHappened

\* No crash and no write under way makes an answer miss a day that was listed
\* (snapshot.go 128).
AnswerSpansTheRange == which = "trends" => T!AnswerSpansTheRange

\* Every finding is asked about once, and the verdict's state counts them all (decisions.go 236).
RecordsCoverTheReview == which = "records" => D!RecordsCoverTheReview

\* A list handed to the agent holds what it held all the while it was read, or
\* says that it does not (artifactio.go 137).
ListsAreWhole == which = "artifacts" => A!ListsAreWhole

\* Who is said to be on the clock makes the next pick (draft.go 275).
ClockFollowsThePicks == which = "draft" => P!ClockFollowsThePicks

-----------------------------------------------------------------------------
(* What the repository says and its code does not do: each fails. *)

\* The note of a finding that could not be placed says why (tools.go 758).
NoteIsTrue == which = "findings" => F!NoteIsTrue

\* A document marked in flight has a run (state.go 20).
InFlightIsRunning == which = "ingest" => I!InFlightIsRunning

\* The swaps make up the points left on the bench (tools_matchup.go 225).
SwapsExplainTheLoss == which = "lineup" => L!SwapsExplainTheLoss

\* A swap gains (tools_matchup.go 62).
SwapsGain == which = "lineup" => L!SwapsGain

\* Every run that is under way is said to be (sleeper.go 98).
EveryRunHasItsBadge == which = "runs" => B!EveryRunHasItsBadge

\* What is reported as a change is one (tools_trends.go 53).
ChangesAreChanges == which = "trends" => T!ChangesAreChanges

\* The verdict's state fits its budget (decisions.go 31).
VerdictFits == which = "records" => D!VerdictFits

\* A list is read to exhaustion (artifactio.go 137).
ExhaustsTheList == which = "artifacts" => A!ExhaustsTheList

\* Each artifact has a name of its own (artifactio.go 61).
ManifestNamesEach == which = "artifacts" => A!ManifestNamesEach

\* A draft said to be complete has all its picks (draft.go 77).
CompleteIsWhole == which = "draft" => P!CompleteIsWhole

=============================================================================
