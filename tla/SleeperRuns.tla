------------------------------ MODULE SleeperRuns ------------------------------
(***************************************************************************)
(* The Sleeper extension's runs (src/sleeper/run.go, ui.go, decisions.go). *)
(*                                                                         *)
(* The page posts jobs; each is dispatched into the chat its league, stop  *)
(* and job name.  A set of chats in memory is all that says which of them  *)
(* have a run: a chat is put in before Host.Dispatch and taken out when it *)
(* is refused or when RunEnded says so.  A finished lineup, waivers or     *)
(* trade run's artifact is read again and its advice asked about.          *)
(***************************************************************************)
EXTENDS Integers, Sequences, Functions, FiniteSets, Selection

CONSTANTS None, Prose, \* an artifact that holds no payload
          Requests,   \* POSTs of the page; each is used once
          Weeks,      \* the season's week stops
          Posts,      \* what they may ask: [stop, job, partner]
          Artifacts,  \* [job -> what its runs may write]
          MaxEnds     \* bound on runs that end

PriorityLevels == 5  \* "first claim" is the highest, 4

VARIABLES
    turns,    \* the host: turns of a chat that have not ended
    due,      \* the host: RunEnded calls to come, [chat, done]
    artifact, \* the host: a chat's latest artifact
    running,  \* e.running
    req,      \* the POSTs
    deciding, \* decideRun goroutines about to read their chat's artifact
    advice,   \* the last Decide requests, [chat, from, asks]
    ends

vars == <<turns, due, artifact, running, req, deciding, advice, ends>>

Jobs(stop) ==
    IF stop = "draft" THEN {"draft"}
    ELSE IF stop = "review" THEN {"history"}
    ELSE IF stop \in Weeks
    THEN {"lineup", "waivers", "digest", "trends", "retro", "trade-finder", "trade"}
    ELSE {}

\* localIDFor: trade talks have one chat for the whole season.
LocalID(p) == IF p.job = "trade" THEN <<"trade", p.partner>> ELSE <<p.stop, p.job>>
Notes == <<"season-notes", "season-notes">>
Chats == {LocalID(p) : p \in Posts} \cup {Notes}

\* parseJobChat: a week's lineup and waivers, and trade talks, are asked about.
AskedAbout(c) == c[1] = "trade" \/ c[2] \in {"lineup", "waivers"}

\* A player is a candidate once.
IsWaivers(a) ==
    /\ a.candidates \in Seq(Range(a.candidates)) /\ a.also_checked \in Seq(Range(a.also_checked))
    /\ \A c, o \in Range(a.candidates) : c.rank \in Int /\ (c.player = o.player => c = o)

\* An offer, whoever's side it is written from, has one of us give something
\* for what the other has; nobody is on both rosters.
IsTalk(a) ==
    /\ a.offers \in Seq(Range(a.offers)) /\ a.my_roster \cap a.partner_roster = {}
    /\ \A o \in Range(a.offers) :
          /\ o.give # {}
          /\ \/ o.give \subseteq a.my_roster /\ o.get \subseteq a.partner_roster
             \/ o.give \subseteq a.partner_roster /\ o.get \subseteq a.my_roster

\* What a run writes, if it is no prose, is what its job is to write.
RunsAssumption ==
    \A c \in {x \in Chats : AskedAbout(x)} : \A a \in Artifacts[c[2]] \ {None, Prose} :
        CASE c[2] = "lineup" -> a.starters \in Seq(Range(a.starters))
          [] c[2] = "waivers" -> IsWaivers(a)
          [] OTHER -> IsTalk(a)

\* chat: the dispatch under way; next: the chat dispatched after it.
Idle == [stage |-> "idle", chat |-> None, next |-> None]

Init ==
    /\ turns = [c \in Chats |-> 0] /\ due = <<>> /\ artifact = [c \in Chats |-> None]
    /\ running = {} /\ req = [r \in Requests |-> Idle]
    /\ deciding = {} /\ advice = None /\ ends = 0

-----------------------------------------------------------------------------
(* A POST.                                                                  *)

\* handleJobs, up to the dispatch; anything else is answered with an error.
Post(r) ==
    /\ req[r].stage = "idle"
    /\ \E p \in Posts :
          /\ p.job \in Jobs(p.stop) /\ (p.job = "trade" => p.partner # None)
          /\ req' = [req EXCEPT ![r] = [stage |-> "mark", chat |-> LocalID(p),
                                        next |-> IF p.job = "trends" THEN Notes ELSE None]]
    /\ UNCHANGED <<turns, due, artifact, running, deciding, advice, ends>>

\* dispatchTracked: the mark is set before the dispatch.
Mark(r) ==
    /\ req[r].stage = "mark"
    /\ running' = running \cup {req[r].chat}
    /\ req' = [req EXCEPT ![r].stage = "dispatch"]
    /\ UNCHANGED <<turns, due, artifact, deciding, advice, ends>>

\* A trends run that was dispatched is followed by the season notes' run.
After(q) ==
    IF q.next = None THEN [q EXCEPT !.stage = "done", !.chat = None]
    ELSE [stage |-> "mark", chat |-> q.next, next |-> None]

\* Host.Dispatch: a run is started; one in progress takes the turn in, or the
\* turn waits for its end.
Accept(r) ==
    /\ req[r].stage = "dispatch"
    /\ \E more \in {0, 1} :
          /\ turns[req[r].chat] = 0 => more = 1
          /\ turns' = [turns EXCEPT ![req[r].chat] = @ + more]
    /\ req' = [req EXCEPT ![r] = After(@)]
    /\ UNCHANGED <<due, artifact, running, deciding, advice, ends>>

\* Mutant: a refused dispatch leaves its mark.
RefusedKeepsMark(marks, chat) == marks

Refused(marks, chat) == marks \ {chat}

\* Host.Dispatch: an error; the POST fails, the season notes' is logged.
Refuse(r) ==
    /\ req[r].stage = "dispatch"
    /\ running' = Refused(running, req[r].chat)
    /\ req' = [req EXCEPT ![r] = [@ EXCEPT !.stage = "done", !.chat = None]]
    /\ UNCHANGED <<turns, due, artifact, deciding, advice, ends>>

-----------------------------------------------------------------------------
(* A run's end.                                                             *)

\* The host: a turn ends, having written its artifact or not.
End(c) ==
    /\ turns[c] > 0 /\ ends < MaxEnds
    /\ ends' = ends + 1
    /\ turns' = [turns EXCEPT ![c] = @ - 1]
    /\ \E done \in BOOLEAN, a \in Artifacts[c[2]] \cup {artifact[c]} :
          /\ artifact' = [artifact EXCEPT ![c] = a]
          /\ due' = Append(due, [chat |-> c, done |-> done])
    /\ UNCHANGED <<running, req, deciding, advice>>

\* RunEnded: the mark goes, and a finished job's advice will be asked about.
RunEnded(i) ==
    /\ i \in DOMAIN due
    /\ LET c == due[i].chat
       IN  /\ running' = running \ {c}
           /\ deciding' = IF due[i].done /\ AskedAbout(c)
                          THEN deciding \cup {c} ELSE deciding
    /\ due' = SubSeq(due, 1, i - 1) \o SubSeq(due, i + 1, Len(due))
    /\ UNCHANGED <<turns, artifact, req, advice, ends>>

-----------------------------------------------------------------------------
(* What is asked.                                                           *)

\* One per starter who replaces somebody.
lineupRequests(a) ==
    LET rows == SelectAt(a.starters, {i \in DOMAIN a.starters : a.starters[i].replaces # None})
    IN  [i \in DOMAIN rows |->
           [point |-> "lineup_change", baseline |-> TRUE,
            current |-> rows[i].replaces, proposed |-> rows[i].player]]

\* Where a rank stands among the levels: the first claim's is the highest.
Level(rank) == PriorityLevels - (IF rank < PriorityLevels THEN rank ELSE PriorityLevels)

\* Every add and every add passed on; and the order of the ranked ones, if two are.
waiverRequests(a) ==
    LET pickup(c, yes) == [point |-> "waiver_pickup", baseline |-> yes, add |-> c.player]
        ranked == SelectAt(a.candidates, {i \in DOMAIN a.candidates : a.candidates[i].rank > 0})
        others(c) == {o.player : o \in Range(ranked) \ {c}}
    IN  [i \in DOMAIN a.candidates |-> pickup(a.candidates[i], TRUE)]
        \o [i \in DOMAIN a.also_checked |-> pickup(a.also_checked[i], FALSE)]
        \o (IF Len(ranked) < 2 THEN <<>>
            ELSE [i \in DOMAIN ranked |->
                    [point |-> "waiver_priority", baseline |-> Level(ranked[i].rank),
                     add |-> ranked[i].player, others |-> others(ranked[i])]])

\* Mutant: who wrote the offer says whose side it is written from.
SideByAuthor(o, a) ==
    IF o.by = "me" THEN o ELSE [o EXCEPT !.give = o.get, !.get = o.give]

\* An offer written from the partner's side is turned around: the rosters say so.
userSide(o, a) ==
    IF o.give \cap a.partner_roster # {} /\ o.give \cap a.my_roster = {}
    THEN [o EXCEPT !.give = o.get, !.get = o.give] ELSE o

tradeRequests(a) ==
    LET judged == SelectAt(a.offers, {i \in DOMAIN a.offers :
                               a.offers[i].verdict \in {"send", "decline", "counter"}})
    IN  [i \in DOMAIN judged |->
           LET o == userSide(judged[i], a)
           IN  [point |-> "trade_accept", baseline |-> o.verdict = "send",
                give |-> o.give, get |-> o.get]]

\* decideRun reads the artifact whenever it comes to it; prose is not asked about.
DecideRun(c) ==
    /\ c \in deciding /\ deciding' = deciding \ {c}
    /\ LET a == artifact[c]
       IN  advice' = IF a = None \/ a = Prose THEN advice
                    ELSE [chat |-> c, from |-> a,
                          asks |-> CASE c[2] = "lineup" -> lineupRequests(a)
                                     [] c[2] = "waivers" -> waiverRequests(a)
                                     [] OTHER -> tradeRequests(a)]
    /\ UNCHANGED <<turns, due, artifact, running, req, ends>>

Next ==
    \/ \E r \in Requests : Post(r) \/ Mark(r) \/ Accept(r) \/ Refuse(r)
    \/ \E c \in Chats : End(c) \/ DecideRun(c)
    \/ \E i \in DOMAIN due : RunEnded(i)

Spec == Init /\ [][Next]_vars

-----------------------------------------------------------------------------
(* Properties.                                                              *)

InFlight(c) == \E r \in Requests : req[r].chat = c /\ req[r].stage = "dispatch"
Ending(c) == \E i \in DOMAIN due : due[i].chat = c

\* No phantom badge: a chat shown as running has a turn, is being dispatched, or
\* its end is about to be told, however dispatches and ends cross (run.go 98).
NoPhantomBadge == \A c \in running : turns[c] > 0 \/ InFlight(c) \/ Ending(c)

\* "running holds global chat ids dispatched here that haven't RunEnded"
\* (sleeper.go 98): a chat with a turn is shown as running.
EveryRunHasItsBadge == \A c \in Chats : turns[c] > 0 => c \in running

\* What is asked is what the artifact advises: a trade from my side of it, a
\* starter for the one he replaces, and a higher level for an earlier claim,
\* whichever of a chat's artifacts it was read from (decisions.go 336, 305).
AsksAreTheAdvice ==
    advice # None => \A i \in DOMAIN advice.asks :
        LET q == advice.asks[i]
        IN  /\ q.point = "trade_accept" =>
                  q.give \subseteq advice.from.my_roster /\ q.get \subseteq advice.from.partner_roster
            /\ q.point = "lineup_change" =>
                  \E s \in Range(advice.from.starters) :
                      q.current = s.replaces /\ q.proposed = s.player /\ s.replaces # None
            /\ q.point = "waiver_priority" => \A j \in DOMAIN advice.asks :
                  LET p == advice.asks[j]
                      rank(x) == (CHOOSE c \in Range(advice.from.candidates) : c.player = x).rank
                  IN  p.point = "waiver_priority" /\ rank(q.add) < rank(p.add)
                         => /\ q.baseline >= p.baseline
                            /\ rank(p.add) <= PriorityLevels => q.baseline > p.baseline

==============================================================================
