------------------------------ MODULE MergeGate ------------------------------
(***************************************************************************)
(* github/merge.go: the standing merge authorization of ONE pull request.  *)
(* The merge label records an intent; every event re-evaluates tryMerge,   *)
(* which merges once quack has approved the current head, CI is green and  *)
(* no reviewer objects.  tryMerge reads GitHub one call at a time, so the  *)
(* pull request may change between any two of its reads.                   *)
(*                                                                         *)
(* Below, GitHub and its users are the environment.  A webhook is a task   *)
(* in todo from the moment GitHub has something to report until a          *)
(* goroutine of the extension acts on it: network, handler and spawn delay *)
(* are one delay, and no order is kept.  Two equal tasks are one: the code *)
(* reads everything it acts on anew.  mergeMu is the lock KeyedMutex       *)
(* specifies, for this one key.                                            *)
(***************************************************************************)
EXTENDS Naturals

CONSTANTS
    Head,       \* commit SHAs the branch may point to
    Worker,     \* goroutines that can be at work at a time
    None,       \* no intent row, no run, no lock holder
    MaxMoves,   \* how many things GitHub and its users do in a behaviour
    Moves       \* which of MoveKinds they may do

\* dismiss: a reviewer's objection is dismissed (its webhook has no handler);
\* refuse:  GitHub refuses the merge (a conflict, branch protection);
\* apifail: a GitHub lookup of an evaluation fails.
MoveKinds == {"dismiss", "refuse", "apifail"}

ASSUME MovesAssumption == Moves \subseteq MoveKinds /\ MaxMoves \in Nat
ASSUME NoneAssumption == None \notin Head \cup Worker

VARIABLES
    \* GitHub
    head,       \* the PR's head commit
    pr,         \* its state
    label,      \* the merge label: off, put on by an allowed human, or by another
    verdict,    \* quack's latest verdict and the commit GitHub has it pinned to
    objected,   \* heads whose latest human review is CHANGES_REQUESTED
    ci,         \* per head, what the check suites and runs say
    merged,     \* the head the extension merged
    moves,      \* how much the environment has done
    \* the extension
    intent,     \* the github_merge_intent row
    mu,         \* who holds mergeMu
    run,        \* the session's review run: the head its clone has, its phase
    todo,       \* tasks not begun yet
    pc,         \* where each goroutine is
    task,       \* what it works on
    meta,       \* its local prMeta: head and state as it read them
    \* history
    pinned,     \* heads an approval has been pinned to
    reviewed,   \* heads quack has read and approved
    passed,     \* heads whose CI has been seen done and green, or absent
    consented,  \* an allowed human has put the label on
    mishaps     \* which of Moves have happened

github == <<head, pr, label, verdict, objected, ci, merged, moves>>
history == <<pinned, reviewed, passed, consented, mishaps>>
vars == <<github, intent, mu, run, todo, pc, task, meta, history>>

\* queued: suites without a run; failed: a suite that failed without a run;
\* none: no suite that could ever post a run.
CIStates == {"queued", "running", "green", "red", "failed", "none"}
Passing == {"green", "none"}

Verdicts == [is : {"approve", "reject"}, at : Head] \cup {None}
Meta == [head : Head, pr : {"open", "closed", "merged"}]
Tasks == [job : {"label", "clear", "event", "push", "finish"}, at : Head \cup {None}]
Task(j) == [job |-> j, at |-> None]

Phases == {"idle", "setIntent", "lock", "getIntent", "adopt", "actor", "adoptIntent",
           "verdict", "meta", "blockers", "objections", "checks", "suites", "merge",
           "consume", "getPushed", "setPushed", "dispatch"}

TypeOK ==
    /\ head \in Head
    /\ pr \in {"open", "closed", "merged"}
    /\ label \in {"off", "human", "other"}
    /\ verdict \in Verdicts
    /\ objected \subseteq Head
    /\ ci \in [Head -> CIStates]
    /\ merged \in Head \cup {None}
    /\ moves \in 0..MaxMoves
    /\ intent \in [pushed : Head \cup {None}] \cup {None}
    /\ mu \in Worker \cup {None}
    /\ run \in [sees : Head, phase : {"reading", "ended", "settling"}] \cup {None}
    /\ todo \subseteq Tasks
    /\ pc \in [Worker -> Phases]
    /\ task \in [Worker -> Tasks \cup {None}]
    /\ meta \in [Worker -> Meta \cup {None}]
    /\ pinned \subseteq Head /\ reviewed \subseteq Head /\ passed \subseteq Head
    /\ consented \in BOOLEAN /\ mishaps \subseteq Moves

\* An open pull request nobody has reviewed or labelled yet, whatever its CI says.
Init ==
    /\ head \in Head
    /\ pr = "open"
    /\ label = "off"
    /\ verdict = None
    /\ objected = {}
    /\ ci \in [Head -> {"queued", "green", "none"}]
    /\ merged = None
    /\ moves = 0
    /\ intent = None
    /\ mu = None
    /\ run = None
    /\ todo = {}
    /\ pc = [w \in Worker |-> "idle"]
    /\ task = [w \in Worker |-> None]
    /\ meta = [w \in Worker |-> None]
    /\ pinned = {} /\ reviewed = {} /\ passed = {h \in Head : ci[h] \in Passing}
    /\ consented = FALSE /\ mishaps = {}

-----------------------------------------------------------------------------
(* GitHub and its users *)

Move == moves < MaxMoves /\ moves' = moves + 1
Mishap(kind) == kind \in Moves /\ Move /\ mishaps' = mishaps \cup {kind}
Report(tasks) == todo' = todo \cup tasks

\* extension state, for the steps the environment takes
ext == <<intent, mu, pc, task, meta>>

\* A synchronize webhook: mergeOnEvent and reviewOnMovedHeadUnderIntent are spawned.
Push(h) ==
    /\ pr = "open" /\ h # head /\ Move
    /\ head' = h
    /\ Report({Task("event"), [job |-> "push", at |-> h]})
    /\ UNCHANGED <<pr, label, verdict, objected, ci, merged, run, ext, history>>

\* Only an allowed human's labeled event has a handler.
Label(who) ==
    /\ label = "off" /\ Move
    /\ label' = who
    /\ Report(IF who = "human" THEN {Task("label")} ELSE {})
    /\ consented' = (consented \/ who = "human")
    /\ UNCHANGED <<head, pr, verdict, objected, ci, merged, run, ext,
                   pinned, reviewed, passed, mishaps>>

Unlabel ==
    /\ label # "off" /\ Move
    /\ label' = "off"
    /\ Report({Task("clear")})
    /\ UNCHANGED <<head, pr, verdict, objected, ci, merged, run, ext, history>>

Close ==
    /\ pr = "open" /\ Move
    /\ pr' = "closed"
    /\ Report({Task("clear")})
    /\ UNCHANGED <<head, label, verdict, objected, ci, merged, run, ext, history>>

\* mutant of HumanReview: the handler returns early unless changes are requested
HumanReview_ObjectionsOnly ==
    /\ pr = "open" /\ Move
    /\ objected' = IF head \in objected THEN objected \ {head} ELSE objected \cup {head}
    /\ Report(IF head \in objected THEN {} ELSE {Task("event")})
    /\ UNCHANGED <<head, pr, label, verdict, ci, merged, run, ext, history>>

\* A human reviews the head: requests changes, or approves and so lifts that.
HumanReview ==
    /\ pr = "open" /\ Move
    /\ objected' = IF head \in objected THEN objected \ {head} ELSE objected \cup {head}
    /\ Report({Task("event")})
    /\ UNCHANGED <<head, pr, label, verdict, ci, merged, run, ext, history>>

\* pull_request_review.dismissed: the handler acts on "submitted" alone.
Dismiss ==
    /\ head \in objected /\ Mishap("dismiss")
    /\ objected' = objected \ {head}
    /\ UNCHANGED <<head, pr, label, verdict, ci, merged, todo, run, ext,
                   pinned, reviewed, passed, consented>>

\* CI of the head starts, ends, or starts anew; an end is reported.
CI(state) ==
    /\ <<ci[head], state>> \in
          {<<"queued", "running">>, <<"queued", "failed">>, <<"running", "green">>,
           <<"running", "red">>, <<"red", "running">>, <<"failed", "queued">>}
    /\ Move
    /\ ci' = [ci EXCEPT ![head] = state]
    /\ Report(IF state \in {"green", "red", "failed"} THEN {Task("event")} ELSE {})
    /\ passed' = IF state = "green" THEN passed \cup {head} ELSE passed
    /\ UNCHANGED <<head, pr, label, verdict, objected, merged, run, ext,
                   pinned, reviewed, consented, mishaps>>

-----------------------------------------------------------------------------
(* The review run *)

\* A session without a run gets one for the head; a live claim drops the dispatch.
DispatchReview ==
    run' = IF run = None THEN [sees |-> head, phase |-> "reading"] ELSE run

\* Someone asks for the first review (an opened PR, the review label).
AskReview ==
    /\ pr = "open" /\ run = None /\ Move
    /\ DispatchReview
    /\ UNCHANGED <<head, pr, label, verdict, objected, ci, merged, todo, ext, history>>

\* InvalidateSetup: core may move the run's clone to the new head, or refuse.
RefreshClone ==
    /\ run # None /\ run.phase = "reading" /\ run.sees # head
    /\ run' = [run EXCEPT !.sees = head]
    /\ UNCHANGED <<github, todo, ext, history>>

\* deliverReview submits without a commit id, so GitHub pins the verdict to the
\* head of that moment (deliverSelfReview's head marker does the same).
RunDelivers(is) ==
    /\ run # None /\ run.phase = "reading" /\ Move
    /\ verdict' = [is |-> is, at |-> head]
    /\ run' = [run EXCEPT !.phase = "ended"]
    /\ pinned' = IF is = "approve" THEN pinned \cup {head} ELSE pinned
    /\ reviewed' = IF is = "approve" THEN reviewed \cup {run.sees} ELSE reviewed
    /\ Report({Task("event")})
    /\ UNCHANGED <<head, pr, label, objected, ci, merged, ext,
                   passed, consented, mishaps>>

\* The run ends with nothing delivered: finalize evaluates no merge.
RunFails ==
    /\ run # None /\ run.phase = "reading"
    /\ run' = None
    /\ UNCHANGED <<github, todo, ext, history>>

-----------------------------------------------------------------------------
(* The goroutines *)

Goto(w, phase) == pc' = [pc EXCEPT ![w] = phase]

\* The row is upserted: a head already sent for review is not forgotten.
SetMergeIntent == intent' = IF intent = None THEN [pushed |-> None] ELSE intent

\* A clearMergeIntent handler: one statement, outside mergeMu.
Clear ==
    /\ Task("clear") \in todo
    /\ todo' = todo \ {Task("clear")}
    /\ intent' = None
    /\ UNCHANGED <<github, mu, run, pc, task, meta, history>>

\* A spawned goroutine starts: mergeIfApproved records the label first, the
\* others begin with mergeMu.
Begin(w) ==
    /\ pc[w] = "idle"
    /\ \E t \in todo :
          /\ t.job # "clear"
          /\ todo' = todo \ {t}
          /\ task' = [task EXCEPT ![w] = t]
          /\ Goto(w, IF t.job = "label" THEN "setIntent" ELSE "lock")
    /\ UNCHANGED <<github, intent, mu, run, meta, history>>

\* settleDelivery of the run that delivered, with the session's claim still held.
Settle(w) ==
    /\ pc[w] = "idle"
    /\ run # None /\ run.phase = "ended"
    /\ run' = [run EXCEPT !.phase = "settling"]
    /\ task' = [task EXCEPT ![w] = Task("finish")]
    /\ Goto(w, "lock")
    /\ UNCHANGED <<github, intent, mu, todo, meta, history>>

RecordIntent(w) ==
    /\ pc[w] = "setIntent"
    /\ SetMergeIntent
    /\ Goto(w, "lock")
    /\ UNCHANGED <<github, mu, run, todo, task, meta, history>>

Lock(w) ==
    /\ pc[w] = "lock"
    /\ mu = None
    /\ mu' = w
    /\ Goto(w, IF task[w].job = "push" THEN "getPushed" ELSE "getIntent")
    /\ UNCHANGED <<github, intent, run, todo, task, meta, history>>

\* tryMerge returns and unlocks.  mergeIfApproved sends for a review when there
\* is none of this head; finish does when the head moved, once finalize has
\* released the session.
Return(w, outcome) ==
    /\ mu' = None
    /\ meta' = [meta EXCEPT ![w] = None]
    /\ run' = IF task[w].job = "finish" THEN None ELSE run
    /\ Goto(w, IF \/ task[w].job = "label" /\ outcome \in {"unreviewed", "stale"}
                  \/ task[w].job = "finish" /\ outcome = "stale"
               THEN "dispatch" ELSE "idle")
    /\ task' = [task EXCEPT ![w] = None]

\* What a lookup of tryMerge leaves alone.
Reads == UNCHANGED <<github, intent, todo, history>>
GoOn(w, phase) == Goto(w, phase) /\ UNCHANGED <<mu, run, task>>

GetIntent(w) ==
    /\ pc[w] = "getIntent"
    /\ GoOn(w, IF intent = None THEN "adopt" ELSE "verdict")
    /\ UNCHANGED meta
    /\ Reads

\* adoptMergeIntent: GET /pulls, whose answer is kept for later, ...
ReadMeta(w) == meta' = [meta EXCEPT ![w] = [head |-> head, pr |-> pr]]

Adopt(w) ==
    /\ pc[w] = "adopt"
    /\ \/ label = "off" /\ Return(w, "noIntent")
       \/ label # "off" /\ ReadMeta(w) /\ GoOn(w, "actor")
    /\ Reads

\* mutant of Actor: whoever put the label on
Actor_AnyLabel(w) ==
    /\ pc[w] = "actor"
    /\ \/ label = "off" /\ Return(w, "noIntent")
       \/ label # "off" /\ GoOn(w, "adoptIntent") /\ UNCHANGED meta
    /\ Reads

\* ... then the timeline: who put the label on last, and is it still there.
Actor(w) ==
    /\ pc[w] = "actor"
    /\ \/ label # "human" /\ Return(w, "noIntent")
       \/ label = "human" /\ GoOn(w, "adoptIntent") /\ UNCHANGED meta
    /\ Reads

AdoptIntent(w) ==
    /\ pc[w] = "adoptIntent"
    /\ SetMergeIntent
    /\ Goto(w, "verdict")
    /\ UNCHANGED <<github, mu, run, todo, task, meta, history>>

\* latestQuackVerdict.  An approval is kept; its commit is compared at once,
\* below, with the prMeta read before (adopted) or after it.
ReadVerdict(w) ==
    /\ pc[w] = "verdict"
    /\ \/ verdict = None /\ Return(w, "unreviewed")
       \/ verdict # None /\ verdict.is = "reject" /\ Return(w, "notApproved")
       \/ /\ verdict # None /\ verdict.is = "approve"
          /\ task' = [task EXCEPT ![w].at = verdict.at]
          /\ Goto(w, IF meta[w] = None THEN "meta" ELSE "blockers")
          /\ UNCHANGED <<mu, run, meta>>
    /\ Reads

PullMeta(w) ==
    /\ pc[w] = "meta"
    /\ ReadMeta(w)
    /\ GoOn(w, "blockers")
    /\ Reads

\* mutant of Blockers: the approval of any commit counts
Blockers_AnyCommit(w) ==
    /\ pc[w] = "blockers"
    /\ \/ meta[w].pr # "open" /\ intent' = None /\ Return(w, "noIntent")
       \/ /\ meta[w].pr = "open"
          /\ UNCHANGED <<intent, meta>>
          /\ GoOn(w, "objections")
    /\ UNCHANGED <<github, todo, history>>

\* checkMergeBlockers: a closed PR consumes the intent, a moved head makes the
\* approval stale, ...
Blockers(w) ==
    /\ pc[w] = "blockers"
    /\ \/ meta[w].pr # "open" /\ intent' = None /\ Return(w, "noIntent")
       \/ /\ meta[w].pr = "open"
          /\ UNCHANGED intent
          /\ IF task[w].at # None /\ task[w].at # meta[w].head THEN Return(w, "stale")
             ELSE GoOn(w, "objections") /\ UNCHANGED meta
    /\ UNCHANGED <<github, todo, history>>

\* ... and a reviewer's objection to the head blocks.
Objections(w) ==
    /\ pc[w] = "objections"
    /\ \/ meta[w].head \in objected /\ Return(w, "humanBlocked")
       \/ meta[w].head \notin objected /\ GoOn(w, "checks") /\ UNCHANGED meta
    /\ Reads

\* mutant of Checks: an empty list of check runs is green
Checks_EmptyIsGreen(w) ==
    /\ pc[w] = "checks"
    /\ LET c == ci[meta[w].head]
       IN \/ c \in {"running", "red"} /\ Return(w, "pending")
          \/ c \notin {"running", "red"} /\ GoOn(w, "merge") /\ UNCHANGED meta
    /\ Reads

\* ciGate: the check runs, or, when there are none, the suites.
Checks(w) ==
    /\ pc[w] = "checks"
    /\ LET c == ci[meta[w].head]
       IN \/ c \in {"running", "red"} /\ Return(w, "pending")
          \/ /\ c \notin {"running", "red"}
             /\ GoOn(w, IF c = "green" THEN "merge" ELSE "suites")
             /\ UNCHANGED meta
    /\ Reads

Suites(w) ==
    /\ pc[w] = "suites"
    /\ LET c == ci[meta[w].head]
       IN \/ c \notin Passing
             /\ Return(w, IF c \in {"queued", "running"} THEN "pending" ELSE "failed")
          \/ c \in Passing /\ GoOn(w, "merge") /\ UNCHANGED meta
    /\ Reads

\* mergePR is pinned to the head the evaluation looked at.
MergePR(w) ==
    /\ pc[w] = "merge"
    /\ pr = "open" /\ head = meta[w].head
    /\ pr' = "merged" /\ merged' = head
    /\ Report({Task("clear")})
    /\ Goto(w, "consume")
    /\ UNCHANGED <<head, label, verdict, objected, ci, moves, intent, mu, run, task, meta, history>>

\* GitHub refuses: the head has moved, the pull request is closed, ...
NotMerged(w) ==
    /\ pc[w] = "merge"
    /\ \/ pr # "open" /\ Return(w, "failed")
       \/ pr = "open" /\ head # meta[w].head /\ Return(w, "stale")
    /\ Reads

\* ... it has a conflict, or branch protection wants more.
Refused(w) ==
    /\ pc[w] = "merge"
    /\ pr = "open" /\ head = meta[w].head /\ Mishap("refuse")
    /\ Return(w, "failed")
    /\ UNCHANGED <<head, pr, label, verdict, objected, ci, merged, intent, todo,
                   pinned, reviewed, passed, consented>>

Consume(w) ==
    /\ pc[w] = "consume"
    /\ intent' = None
    /\ Return(w, "done")
    /\ UNCHANGED <<github, todo, history>>

\* A lookup fails: the evaluation ends, and only a later event starts another.
\* (A failed check-run or suite lookup goes on to the merge instead.)
LookupFails(w) ==
    /\ Mishap("apifail")
    /\ \/ /\ pc[w] \in {"adopt", "actor", "verdict", "meta", "objections"}
          /\ Return(w, "noIntent")
       \/ /\ pc[w] \in {"checks", "suites"}
          /\ GoOn(w, "merge") /\ UNCHANGED meta
    /\ UNCHANGED <<head, pr, label, verdict, objected, ci, merged, intent, todo,
                   pinned, reviewed, passed, consented>>

\* reviewOnMovedHeadUnderIntent: one review per pushed head.
AlreadySent(w) == intent # None => intent.pushed = task[w].at

GetPushed(w) ==
    /\ pc[w] = "getPushed"
    /\ \/ AlreadySent(w) /\ Return(w, "seen")
       \/ ~ AlreadySent(w) /\ GoOn(w, "setPushed") /\ UNCHANGED meta
    /\ Reads

SetPushed(w) ==
    /\ pc[w] = "setPushed"
    /\ intent' = IF intent = None THEN None ELSE [intent EXCEPT !.pushed = task[w].at]
    /\ mu' = None
    /\ task' = [task EXCEPT ![w] = None]
    /\ Goto(w, "dispatch")
    /\ UNCHANGED <<github, run, todo, meta, history>>

Dispatch(w) ==
    /\ pc[w] = "dispatch"
    /\ DispatchReview
    /\ Goto(w, "idle")
    /\ UNCHANGED <<github, intent, mu, todo, task, meta, history>>

-----------------------------------------------------------------------------

User == \/ \E h \in Head : Push(h)
        \/ \E who \in {"human", "other"} : Label(who)
        \/ Unlabel \/ Close \/ HumanReview \/ Dismiss \/ AskReview
        \/ \E s \in CIStates : CI(s)

Run == RefreshClone \/ RunFails \/ \E v \in {"approve", "reject"} : RunDelivers(v)

Evaluate(w) ==
    \/ GetIntent(w) \/ Adopt(w) \/ Actor(w) \/ AdoptIntent(w) \/ ReadVerdict(w)
    \/ PullMeta(w) \/ Blockers(w) \/ Objections(w) \/ Checks(w) \/ Suites(w)
    \/ MergePR(w) \/ NotMerged(w) \/ Refused(w) \/ Consume(w) \/ LookupFails(w)

Goroutine(w) ==
    \/ Begin(w) \/ Settle(w) \/ RecordIntent(w) \/ Lock(w) \/ Evaluate(w)
    \/ GetPushed(w) \/ SetPushed(w) \/ Dispatch(w)

Next == User \/ Run \/ Clear \/ \E w \in Worker : Goroutine(w)

Spec == Init /\ [][Next]_vars

-----------------------------------------------------------------------------

\* Nothing is under way or waiting to be acted on.
Quiet == todo = {} /\ run = None /\ \A w \in Worker : pc[w] = "idle"

\* All that tryMerge asks for is there.
Mergeable ==
    /\ pr = "open"
    /\ verdict # None /\ verdict.is = "approve" /\ verdict.at = head
    /\ head \notin objected
    /\ ci[head] \in Passing

\* merge.go:313 "A push after the approval invalidates it": what is merged is a
\* commit to which GitHub pinned an approval of quack's, whatever was pushed
\* between two lookups, whichever of them failed.  (The exception of merge.go:313,
\* "a marker comment with no commit_id is trusted as-is", is in Blockers, but no
\* delivery of this program leaves such a comment, so no verdict here is without.)
MergesApprovedHead == merged # None => merged \in pinned

\* merge.go:261 "its checks are green": while the lookups answer, what is merged
\* is a commit whose CI had passed, whatever started between two of them.
MergesGreenHead == merged # None /\ "apifail" \notin mishaps => merged \in passed

\* merge.go:328 "failing closed on any doubt about who applied it": no intent and
\* no merge without an allowed human having put the label on.
OnlyConsentedMerges == merged # None \/ intent # None => consented

\* merge.go:262 "Re-run per event, no polling": no wake-up is lost.  When all is
\* quiet, and no lookup failed, no merge was refused and no review dismissed, a
\* standing intent is not left on a pull request that could be merged.
NoMergeForgotten == Quiet /\ intent # None /\ mishaps = {} => ~ Mergeable

\* merge.go:481 "re-evaluates the merge after a state-changing webhook": a review
\* that is dismissed is no excuse.
DismissalReevaluates ==
    Quiet /\ intent # None /\ mishaps \subseteq {"dismiss"} => ~ Mergeable

\* tools.go:901 "the synchronize re-review is the backstop": what is merged is a
\* commit that quack has read.
MergesOnlyReviewedHeads == merged # None => merged \in reviewed

\* webhook.go:251 "Removing the merge label withdraws the standing authorization".
WithdrawnStaysWithdrawn == Quiet /\ label = "off" => intent = None

\* merge.go:448 "re-reviews a pushed head under a standing merge intent": when all
\* is quiet, the head that was recorded as sent for review has a verdict.
PushedHeadIsReviewed ==
    (/\ Quiet /\ pr = "open"
     /\ intent # None /\ intent.pushed = head
     /\ verdict # None) => verdict.at = head

=============================================================================
