-------------------------------- MODULE Trends --------------------------------
(***************************************************************************)
(* The daily snapshots and sleeper_trends (src/sleeper/snapshot.go,        *)
(* tools_trends.go).                                                       *)
(*                                                                         *)
(* A ticker records once a day what is said of the league's players: it    *)
(* reads the rosters, the players dump (which the client keeps for a day)  *)
(* and the rest, dates the record, writes a temporary file and renames it. *)
(* The tool lists the dates there are, reads the first and the last file   *)
(* it can, and reports what changed.  The process may die and come back at *)
(* any point, and a file may become unreadable.                            *)
(*                                                                         *)
(* Of the five facts compared for a player one is kept: they are treated   *)
(* alike.                                                                  *)
(***************************************************************************)
EXTENDS Naturals

CONSTANTS None, Bad,        \* Bad: a file nobody can read
          Players, Facts,   \* what may be said of a player
          Zero,             \* the fact of whom nothing is said: Go's zero value
          Window,           \* the days asked for
          LastDay, MaxChanges, MaxCrashes, MaxRot

AllDays == 0 .. LastDay

\* What is said of some of the players; a snapshot.
Said == UNION {[them -> Facts] : them \in SUBSET Players}
Snap == [date : AllDays, players : Said]

TrendsAssumption ==
    /\ Zero \in Facts /\ Window \in Nat /\ LastDay \in Nat
    /\ MaxChanges \in Nat /\ MaxCrashes \in Nat /\ MaxRot \in Nat
    /\ None # Bad /\ None \notin Snap /\ Bad \notin Snap

VARIABLES
    day,
    fact, rostered, \* Sleeper: what it says of each player; who is on a roster
    log,            \* history: what it said of each player, each day
    dump,           \* the client's copy of the dump, [day, fact], or None
    due, writer,    \* the ticker, and snapshotOnce
    files,          \* a day's file: None, Bad, or [date, players]
    reader,         \* a call of the tool
    bounds          \* changes, crashes and files gone bad so far

world == <<day, fact, rostered, log>>
vars == <<world, dump, due, writer, files, reader, bounds>>

NotWriting == [stage |-> "idle", began |-> 0, rostered |-> {}, fact |-> None, snap |-> None]
NotReading == [stage |-> "idle", dates |-> {}, old |-> None, answer |-> None]

Init ==
    /\ day = 0 /\ fact \in [Players -> Facts] /\ rostered \in SUBSET Players
    /\ log = [d \in AllDays |-> [p \in Players |-> IF d = 0 THEN {fact[p]} ELSE {}]]
    /\ dump = None /\ due = TRUE /\ writer = NotWriting
    /\ files = [d \in AllDays |-> None] /\ reader = NotReading
    /\ bounds = [changes |-> 0, crashes |-> 0, rot |-> 0]

-----------------------------------------------------------------------------
(* snapshotOnce.                                                            *)

\* runSnapshotTicker: at the start, and a day later again.
Fire ==
    /\ due /\ writer.stage = "idle"
    /\ due' = FALSE
    /\ writer' = [NotWriting EXCEPT !.stage = "rosters", !.began = day]
    /\ UNCHANGED <<world, dump, files, reader, bounds>>

ReadRosters ==
    /\ writer.stage = "rosters"
    /\ writer' = [writer EXCEPT !.stage = "dump", !.rostered = rostered]
    /\ UNCHANGED <<world, dump, due, files, reader, bounds>>

\* Mutant: the client never lets go of its copy.
MayBeLiveForever(copy) == copy # None

\* A copy of yesterday's lives until this hour of today.
MayBeLive(copy) == copy # None /\ day <= copy.day + 1
MustBeLive(copy) == copy # None /\ day = copy.day

\* PlayersDump: the copy while it lives, or what Sleeper says now.
ReadDump ==
    /\ writer.stage = "dump"
    /\ \/ /\ MayBeLive(dump) /\ UNCHANGED dump
          /\ writer' = [writer EXCEPT !.stage = "stamp", !.fact = dump.fact]
       \/ /\ ~MustBeLive(dump) /\ dump' = [day |-> day, fact |-> fact]
          /\ writer' = [writer EXCEPT !.stage = "stamp", !.fact = fact]
    /\ UNCHANGED <<world, due, files, reader, bounds>>

\* buildSnapshot: dated once everything has been read; a rostered player the
\* dump does not have is left out.
Stamp ==
    /\ writer.stage = "stamp"
    /\ \E known \in SUBSET writer.rostered :
          writer' = [writer EXCEPT !.stage = "write",
             !.snap = [date |-> day, players |-> [p \in known |-> writer.fact[p]]]]
    /\ UNCHANGED <<world, dump, due, files, reader, bounds>>

\* Mutant: the day's own file is written, and is not whole meanwhile.
WrittenInPlace(snap) == [files EXCEPT ![snap.date] = Bad]

\* The temporary file: its name does not end in ".json", so nobody lists it.
Written(snap) == files

WriteTemp ==
    /\ writer.stage = "write"
    /\ files' = Written(writer.snap)
    /\ writer' = [writer EXCEPT !.stage = "rename"]
    /\ UNCHANGED <<world, dump, due, reader, bounds>>

Rename ==
    /\ writer.stage = "rename"
    /\ files' = [files EXCEPT ![writer.snap.date] = writer.snap]
    /\ writer' = NotWriting
    /\ UNCHANGED <<world, dump, due, reader, bounds>>

\* A read or a write fails: the day has no snapshot, or keeps the one it has.
Skip ==
    /\ writer.stage \in {"rosters", "dump", "stamp", "write", "rename"}
    /\ writer' = NotWriting
    /\ UNCHANGED <<world, dump, due, files, reader, bounds>>

-----------------------------------------------------------------------------
(* getTrends.                                                               *)

Several(dates) == \E d, e \in dates : d # e

\* snapshotDates and withinDays: the days that have a file.
List ==
    /\ reader.stage = "idle"
    /\ LET recent == {d \in AllDays : files[d] # None /\ d + Window >= day}
       IN  reader' = IF Several(recent)
                     THEN [NotReading EXCEPT !.stage = "old", !.dates = recent]
                     ELSE [NotReading EXCEPT !.stage = "noted", !.dates = recent]
    /\ UNCHANGED <<world, dump, due, writer, files, bounds>>

\* firstReadableSnapshot, from the oldest on or back from the newest; Bad if
\* there is none.
firstReadable(from, snap) ==
    LET good == {d \in reader.dates : files[d] # Bad}
    IN  \/ good = {} /\ snap = Bad
        \/ \E d \in good : /\ snap = files[d]
                            /\ \A e \in good : IF from = "oldest" THEN d <= e ELSE e <= d

ReadOld ==
    /\ reader.stage = "old"
    /\ \E old \in Snap \cup {Bad} :
          /\ firstReadable("oldest", old)
          /\ reader' = [reader EXCEPT !.stage = "new", !.old = old]
    /\ UNCHANGED <<world, dump, due, writer, files, bounds>>

\* Of a player the older snapshot does not have it says nothing.
Of(snap, p) == IF p \in DOMAIN snap.players THEN snap.players[p] ELSE Zero

Differing(old, new) == {p \in DOMAIN new.players : Of(old, p) # new.players[p]}

\* Mutant: the two are taken for each other.
diffBackwards(old, new) ==
    [p \in Differing(old, new) |-> Of(old, p)]

diffSnapshots(old, new) ==
    [p \in Differing(old, new) |-> new.players[p]]

ReadNew ==
    /\ reader.stage = "new"
    /\ \E new \in Snap \cup {Bad} :
          /\ firstReadable("newest", new)
          /\ LET old == reader.old
             IN  reader' =
                   IF Bad \in {old, new} \/ old.date = new.date
                   THEN [reader EXCEPT !.stage = "noted"]
                   ELSE [reader EXCEPT !.stage = "names",
                            !.answer = [from |-> old.date, to |-> new.date,
                                        trends |-> diffSnapshots(old, new)]]
    /\ UNCHANGED <<world, dump, due, writer, files, bounds>>

\* PlayersDump once more, for the players' names: without it there is no answer.
ReadNames ==
    /\ reader.stage = "names"
    /\ \/ /\ MayBeLive(dump) /\ UNCHANGED dump
          /\ reader' = [reader EXCEPT !.stage = "answered"]
       \/ /\ ~MustBeLive(dump) /\ dump' = [day |-> day, fact |-> fact]
          /\ reader' = [reader EXCEPT !.stage = "answered"]
       \/ /\ ~MustBeLive(dump) /\ UNCHANGED dump
          /\ reader' = [NotReading EXCEPT !.stage = "failed"]
    /\ UNCHANGED <<world, due, writer, files, bounds>>

-----------------------------------------------------------------------------
(* The world.                                                               *)

Within(b, max) == bounds[b] < max /\ bounds' = [bounds EXCEPT ![b] = @ + 1]

\* A snapshot takes less than a day.
NextDay ==
    /\ day < LastDay /\ (writer.stage # "idle" => writer.began = day)
    /\ day' = day + 1 /\ due' = TRUE
    /\ log' = [log EXCEPT ![day'] = [p \in Players |-> {fact[p]}]]
    /\ UNCHANGED <<fact, rostered, dump, writer, files, reader, bounds>>

Change ==
    /\ Within("changes", MaxChanges)
    /\ \/ \E p \in Players : \E f \in Facts \ {fact[p]} :
             /\ fact' = [fact EXCEPT ![p] = f]
             /\ log' = [log EXCEPT ![day][p] = @ \cup {f}]
             /\ UNCHANGED rostered
       \/ \E p \in Players :
             /\ rostered' = (rostered \ {p}) \cup ({p} \ rostered)
             /\ UNCHANGED <<fact, log>>
    /\ UNCHANGED <<day, dump, due, writer, files, reader>>

\* The process dies and is started again: the ticker fires at once.
Crash ==
    /\ Within("crashes", MaxCrashes)
    /\ dump' = None /\ due' = TRUE /\ writer' = NotWriting /\ reader' = NotReading
    /\ UNCHANGED <<world, files>>

Rot ==
    /\ Within("rot", MaxRot)
    /\ \E d \in AllDays : files[d] \notin {None, Bad} /\ files' = [files EXCEPT ![d] = Bad]
    /\ UNCHANGED <<world, dump, due, writer, reader>>

Next ==
    \/ Fire \/ ReadRosters \/ ReadDump \/ Stamp \/ WriteTemp \/ Rename \/ Skip
    \/ List \/ ReadOld \/ ReadNew \/ ReadNames
    \/ NextDay \/ Change \/ Crash \/ Rot

Spec == Init /\ [][Next]_vars

-----------------------------------------------------------------------------
(* Properties.                                                              *)

\* What was said of a player about day d: that day, the day before, whose dump
\* may still be kept, or the one before that if it was dated past midnight.
SaidAbout(p, d) == UNION {log[x][p] : x \in {y \in AllDays : y <= d /\ d <= y + 2}}

\* Every snapshot tells what was so about its date, and what is reported as a
\* change of a player both of them have did change, whatever was cached, dated,
\* replaced or lost in between (snapshot.go 41, tools_trends.go 107).
TrendsHappened ==
    /\ \A d \in AllDays : files[d] \notin {None, Bad} =>
          \A p \in DOMAIN files[d].players : files[d].players[p] \in SaidAbout(p, d)
    /\ reader.stage = "answered" =>
          LET a == reader.answer
          IN  /\ a.from < a.to
              /\ \A p \in DOMAIN a.trends : p \in DOMAIN reader.old.players =>
                    /\ a.trends[p] \in SaidAbout(p, a.to)
                    /\ \E f \in SaidAbout(p, a.from) : f # a.trends[p]

\* "so a reader or crash never sees a partial file" (snapshot.go 128): as long as
\* no file rots, the answer spans all the days that were listed.
AnswerSpansTheRange ==
    bounds.rot = 0 /\ reader.stage \in {"noted", "answered"} /\ Several(reader.dates) =>
        /\ reader.stage = "answered" /\ {reader.answer.from, reader.answer.to} \subseteq reader.dates
        /\ \A d \in reader.dates : reader.answer.from <= d /\ d <= reader.answer.to

\* "Diff ... injury/practice/depth-chart changes" (tools_trends.go 53): what is
\* reported as a change is one, also of a player who was not in the older snapshot.
ChangesAreChanges ==
    reader.stage = "answered" =>
        \A p \in DOMAIN reader.answer.trends :
            \E f \in SaidAbout(p, reader.answer.from) : f # reader.answer.trends[p]

==============================================================================
