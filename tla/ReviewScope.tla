----------------------------- MODULE ReviewScope -----------------------------
(***************************************************************************)
(* What a run on a pull request is told about it, and what the extension   *)
(* remembers of that (src/github/snapshot.go, run.go, envelope.go).        *)
(*                                                                         *)
(* A dispatch fetches the thread (commits, comments), compares it with two *)
(* stored rows, and asks the run for the difference: the snapshot row says *)
(* which comments a finished run was shown, the baseline row which commits *)
(* a delivered review covered.  Neither row is written at dispatch: the    *)
(* context is held in memory and becomes the new row when the run ends     *)
(* well.  A restart loses it and RunEnded fetches a fresh one.             *)
(***************************************************************************)
EXTENDS Naturals, FiniteSets

CONSTANTS Patches,      \* commits, told apart by content (git patch-id)
          Comments,     \* comment ids of the thread
          None,         \* no row, no run, no scope
          MaxChanges,   \* bound on pushes and on writes of comments
          MaxRuns,      \* bound on dispatched runs
          MaxRestarts   \* bound on restarts of the process

ASSUME ScopeAssumption ==
    /\ None \notin Comments
    /\ MaxChanges \in Nat /\ MaxRuns \in Nat /\ MaxRestarts \in Nat

Versions == 0 .. 2      \* of a comment's body; 0: not there

NoComments == [c \in Comments |-> 0]

(***************************************************************************)
(* commits: the fetched list; ids: those of it whose patch-id is known.    *)
(***************************************************************************)
Snapshot == [commits: SUBSET Patches, ids: SUBSET Patches,
             comments: [Comments -> Versions]]

\* event: the webhook being handled; a trigger without a comment has id None.
Event == [review: BOOLEAN, id: Comments \cup {None}, version: Versions]

\* What became of the staged work, and how the run itself ended, which is
\* looked at only where nothing visible was delivered.
Outcome ==
    {o \in [delivery: {"none", "failed", "review", "push", "unchanged"},
            status: {"done", "failed", "cancelled", "input"}, timedOut: BOOLEAN] :
        /\ o.delivery \in {"failed", "review", "push"} => o.status = "done"
        /\ o.timedOut => o.status \in {"done", "failed"}
                         /\ o.delivery \in {"none", "unchanged"}}

VARIABLES
    commits,    \* GitHub: what is on the pull request
    comments,   \* GitHub: the version of every comment
    baseline,   \* row github_review_baseline
    watermark,  \* row github_snapshot: its comments
    event,      \* the trigger a spawned dispatch holds
    run,        \* the run under way: what it was asked, and its context
    read,       \* history: commits some delivered review was asked to read
    shown,      \* history: versions of comments some settled run was shown
    edited,     \* history: trigger comments edited before their dispatch
    rebuilt,    \* history: a context lost in a restart was fetched anew
    changes, runs, restarts

vars == <<commits, comments, baseline, watermark, event, run, read, shown,
          edited, rebuilt, changes, runs, restarts>>

github == <<commits, comments>>
rows == <<baseline, watermark>>
history == <<read, shown, edited, rebuilt>>
counters == <<changes, runs, restarts>>

\* ctx: the githubContext in memory, None when a restart lost it.
Run == [event: Event, asked: SUBSET Patches, told: SUBSET (Comments \X Versions),
        whole: BOOLEAN, found: SUBSET Patches, ctx: Snapshot \cup {None},
        usable: BOOLEAN]

TypeOK ==
    /\ commits \subseteq Patches
    /\ comments \in [Comments -> Versions]
    /\ baseline \in (SUBSET Patches) \cup {None}
    /\ watermark \in [Comments -> Versions] \cup {None}
    /\ event \in Event \cup {None}
    /\ run \in Run \cup {None}
    /\ read \subseteq Patches
    /\ shown \subseteq Comments \X Versions
    /\ edited \subseteq Comments
    /\ rebuilt \in BOOLEAN
    /\ changes \in 0 .. MaxChanges
    /\ runs \in 0 .. MaxRuns
    /\ restarts \in 0 .. MaxRestarts

Init ==
    /\ commits \in SUBSET Patches /\ comments = NoComments
    /\ baseline = None /\ watermark = None
    /\ event = None /\ run = None
    /\ read = {} /\ shown = {} /\ edited = {}
    /\ rebuilt = FALSE
    /\ changes = 0 /\ runs = 0 /\ restarts = 0

-----------------------------------------------------------------------------
(* The thread changes on GitHub.                                            *)

\* A push, a force-push or a revert: rebasing alone changes no patch-id.
Push(cs) ==
    /\ changes < MaxChanges
    /\ cs # commits
    /\ commits' = cs
    /\ changes' = changes + 1
    /\ UNCHANGED <<comments, rows, event, run, history, runs, restarts>>

\* A comment is posted or edited (version 1, then 2), or deleted.
Write(c) ==
    /\ changes < MaxChanges
    /\ \E v \in Versions : /\ v # comments[c]
                           /\ v = 0 \/ v = comments[c] + 1
                           /\ comments' = [comments EXCEPT ![c] = v]
    /\ edited' = IF event # None /\ event.id = c THEN edited \cup {c} ELSE edited
    /\ changes' = changes + 1
    /\ UNCHANGED <<commits, rows, event, run, read, shown, rebuilt,
                   runs, restarts>>

(* The webhook holds the comment as GitHub sent it; dispatch is spawned.    *)
Webhook(e) ==
    /\ event = None /\ run = None
    /\ runs < MaxRuns
    /\ e.id = None => e.version = 0
    /\ e.id # None => e.version = comments[e.id] /\ e.version # 0 /\ ~e.review
    /\ event' = e
    /\ runs' = runs + 1
    /\ UNCHANGED <<github, rows, run, history, changes, restarts>>

-----------------------------------------------------------------------------
(* dispatch: fetch, compare, ask.                                           *)

\* Past the required lookup every fetch is best effort: a list that fails is
\* empty, and a commit whose diff fails has no patch-id.
FetchSnapshot ==
    {[commits |-> cs, ids |-> is, comments |-> cm] :
        cs \in {commits, {}}, is \in SUBSET commits, cm \in {comments, NoComments}}

\* mutant of NewCommitsAgainstBaseline: a commit without a patch-id is skipped
NewCommitsAgainstBaseline_KnownOnly(snap, reviewed) ==
    {p \in snap.commits : p \in snap.ids /\ p \notin reviewed}

\* Commits a review has to look at; None: no baseline, so all of them.
NewCommitsAgainstBaseline(snap, reviewed) ==
    {p \in snap.commits : p \notin snap.ids \/ p \notin reviewed}

ReviewScopeOf(snap, row) ==
    IF row = None THEN None ELSE NewCommitsAgainstBaseline(snap, row)

\* mutant of CommentsBlock: an edited comment is not in the difference
CommentsBlock_AddedOnly(snap, prev, exclude) ==
    LET old == IF prev = None THEN NoComments ELSE prev
    IN  {<<c, snap.comments[c]>> : c \in {d \in Comments \ {exclude} :
            snap.comments[d] # 0 /\ old[d] = 0}}

\* The first load seeds every comment, a later one those added or edited; the
\* trigger's comment is left out, since the event quotes it.
CommentsBlock(snap, prev, exclude) ==
    LET old == IF prev = None THEN NoComments ELSE prev
    IN  {<<c, snap.comments[c]>> : c \in {d \in Comments \ {exclude} :
            snap.comments[d] # 0 /\ snap.comments[d] # old[d]}}

\* A label or a re-review starts a fresh session: it ignores the stored row.
LoadGithubContext(e, snap, prev, base) ==
    LET scope == ReviewScopeOf(snap, base)
    IN  [event  |-> e,
         whole  |-> scope = None,
         asked  |-> IF scope = None THEN commits ELSE scope,
         told   |-> CommentsBlock(snap, IF e.review THEN None ELSE prev, e.id)
                      \cup (IF e.id = None THEN {} ELSE {<<e.id, e.version>>}),
         found  |-> commits,
         ctx    |-> snap,
         usable |-> TRUE]

\* A row that cannot be read counts as absent.
Dispatch ==
    /\ event # None
    /\ \E snap \in FetchSnapshot, prev \in {watermark, None}, base \in {baseline, None} :
          /\ snap.ids \subseteq snap.commits
          /\ run' = LoadGithubContext(event, snap, prev, base)
    /\ event' = None
    /\ UNCHANGED <<github, rows, history, counters>>

\* The required lookup fails: a label's run is refused, a mention runs blind.
DispatchBlind ==
    /\ event # None
    /\ run' = IF event.review THEN None
              ELSE [event |-> event, whole |-> TRUE, asked |-> commits,
                    told |-> {<<event.id, event.version>>} \ {<<None, 0>>},
                    found |-> commits,
                    ctx |-> [commits |-> {}, ids |-> {}, comments |-> NoComments],
                    usable |-> FALSE]
    /\ event' = None
    /\ UNCHANGED <<github, rows, history, counters>>

-----------------------------------------------------------------------------
(* RunEnded, finalize, settleDelivery.                                      *)

\* rebuildPendingRun: the context is fetched when the run ends.
Rebuilt ==
    {[run EXCEPT !.ctx = snap] : snap \in {s \in FetchSnapshot : s.ids \subseteq s.commits}}
        \cup {[run EXCEPT !.ctx = [commits |-> {}, ids |-> {}, comments |-> NoComments],
                          !.usable = FALSE]}

Settled == IF run.ctx = None THEN Rebuilt ELSE {run}

Persists(o, posted) ==
    \/ o.delivery \in {"review", "push"}
    \/ /\ o.delivery \in {"none", "unchanged"}
       /\ \/ o.status = "cancelled"
          \/ o.status \in {"done", "failed"} /\ posted /\ ~o.timedOut

PersistGithubSnapshot(r, persists, ok) ==
    /\ watermark' = IF persists /\ r.usable /\ ok THEN r.ctx.comments ELSE watermark
    /\ shown' = IF persists THEN shown \cup run.told ELSE shown

\* mutant of AdvanceReviewBaseline: a pushed fix advances it too
AdvanceReviewBaseline_Push(r, o, ok) ==
    /\ baseline' = IF o.delivery \in {"review", "push"} /\ ok THEN r.ctx.ids ELSE baseline
    /\ read' = IF o.delivery = "review" THEN read \cup run.asked ELSE read

\* Only commits with a patch-id can be remembered.
AdvanceReviewBaseline(r, o, ok) ==
    /\ baseline' = IF o.delivery = "review" /\ ok THEN r.ctx.ids ELSE baseline
    /\ read' = IF o.delivery = "review" THEN read \cup run.asked ELSE read

\* A finished review that delivered none posts a note instead of its answer;
\* the flag that says so is not in the durable row.
PostsAnswer(o, posted) ==
    /\ o.delivery \in {"none", "unchanged"}
    /\ o.status \in {"done", "failed"}
    /\ posted
    /\ ~(run.event.review /\ run.ctx # None /\ o.status = "done" /\ ~o.timedOut)

\* A head that moved under an approving review is dispatched at once.
ReReview(o) ==
    IF o.delivery = "review" /\ commits # run.found /\ runs < MaxRuns
    THEN {None, [review |-> TRUE, id |-> None, version |-> 0]}
    ELSE {None}

RunEnded(o) ==
    /\ run # None
    /\ \E r \in Settled, posted \in BOOLEAN, wroteRow, wroteBase \in BOOLEAN, e \in ReReview(o) :
          /\ PersistGithubSnapshot(r, Persists(o, posted), wroteRow)
          /\ AdvanceReviewBaseline(r, o, wroteBase)
          /\ event' = e
          /\ runs' = IF e = None THEN runs ELSE runs + 1
    /\ rebuilt' = (rebuilt \/ run.ctx = None)
    /\ run' = None
    /\ UNCHANGED <<github, edited, changes, restarts>>

\* Closing the thread drops both rows, but not the run under way, which may
\* write them again.  The second delete is skipped when the first one fails.
ForgetChatHistory ==
    /\ watermark' = None
    /\ baseline' \in {None, baseline}
    /\ UNCHANGED <<github, event, run, history, counters>>

\* A restart: a run that was dispatched is resumed, its context is lost; a
\* trigger that was not yet dispatched is gone.
Restart ==
    /\ restarts < MaxRestarts
    /\ restarts' = restarts + 1
    /\ event' = None
    /\ run' = IF run = None THEN None ELSE [run EXCEPT !.ctx = None]
    /\ UNCHANGED <<github, rows, history, changes, runs>>

Next ==
    \/ \E cs \in SUBSET Patches : Push(cs)
    \/ \E c \in Comments : Write(c)
    \/ \E e \in Event : Webhook(e)
    \/ Dispatch
    \/ DispatchBlind
    \/ \E o \in Outcome : RunEnded(o)
    \/ ForgetChatHistory
    \/ Restart

Spec == Init /\ [][Next]_vars

-----------------------------------------------------------------------------
(***************************************************************************)
(* A commit counts as reviewed only if a delivered review was asked to     *)
(* read it (advanceReviewBaseline).  A context fetched anew after a        *)
(* restart is the exception: see BaselineIsReviewed.                        *)
(***************************************************************************)
BaselineWasRead == baseline # None /\ ~rebuilt => baseline \subseteq read

(***************************************************************************)
(* A comment the snapshot row holds was shown, in that version, to a run   *)
(* that settled; else no later run would ever see it (commentDelta).  Not  *)
(* so after a context was fetched anew, and for a trigger edited between   *)
(* its webhook and its dispatch.                                           *)
(***************************************************************************)
WatermarkWasShown ==
    watermark # None /\ ~rebuilt =>
        \A c \in Comments \ edited : watermark[c] # 0 => <<c, watermark[c]>> \in shown

(***************************************************************************)
(* A review that could list the commits leaves none unread: what it is not *)
(* asked to read, an earlier delivered review was (reviewScope).           *)
(***************************************************************************)
ListedReviewMissesNothing ==
    run # None /\ run.ctx # None /\ ~rebuilt /\ run.ctx.commits = run.found
        => run.found \subseteq read \cup run.asked

-----------------------------------------------------------------------------
(***************************************************************************)
(* What a comment says of the code, which it does not always do: the       *)
(* baseline is "the patch-id list quack last delivered a review at"        *)
(* (src/github/store.go:185).  A run resumed after a restart delivers its  *)
(* review and stores the commits that are there by then.                   *)
(***************************************************************************)
BaselineIsReviewed == baseline # None => baseline \subseteq read

=============================================================================
