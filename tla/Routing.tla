-------------------------------- MODULE Routing --------------------------------
(***************************************************************************)
(* From a webhook to what a run is asked (src/github/webhook.go, intent.go,*)
(* envelope.go, grant.go).                                                 *)
(*                                                                         *)
(* An event names one issue or pull request.  Its handler decides who may  *)
(* wake quack and with which payload; the dispatch then reads GitHub,      *)
(* derives from the labels what may be delivered, and says what is asked - *)
(* three times: to the mark that collapses old plans, to the orchestrator  *)
(* and to its workers - with a model classifying comments, which may give  *)
(* another answer each time it is asked, or none.  Labels are changed by   *)
(* people meanwhile.  The session's claim is in RunLifecycle.              *)
(***************************************************************************)
EXTENDS Naturals

CONSTANTS None,
          Triggers,     \* the configured triggers
          MaxRelabels   \* bound on label changes during a dispatch

ASSUME RoutingAssumption ==
    /\ Triggers \subseteq {"pr_opened", "label", "mention", "explain", "merge",
                           "ci_fix", "issue_plan", "issue_implement"}
    /\ MaxRelabels \in Nat

Labels == {"review", "plan", "implement", "fix", "merge"}

\* allowed: a human in allowed_users; other: a human who is not.
Actors == {"bot", "allowed", "other"}

\* What a comment says, as far as the code's regular expressions tell.
Task == {t \in [plan : BOOLEAN, delivery : BOOLEAN, verb : BOOLEAN,
                review : BOOLEAN, directed : BOOLEAN, rerun : BOOLEAN] :
            /\ t.directed => t.verb
            /\ t.rerun => ~(t.plan \/ t.delivery \/ t.verb \/ t.review)}

AutoReviewTask == [plan |-> FALSE, delivery |-> TRUE, verb |-> FALSE,
                   review |-> TRUE, directed |-> FALSE, rerun |-> FALSE]

CommentEvents ==
    [type : {"comment"}, actor : Actors, action : {"created", "edited"},
     body : {"/review", "/explain", "prose"}, writer : BOOLEAN, task : {AutoReviewTask}]
    \cup [type : {"comment"}, actor : Actors, action : {"created"},
          body : {"mention"}, writer : {TRUE}, task : Task]

PREvents ==
    [type : {"pull_request"}, actor : Actors,
     action : {"opened", "closed", "reopened", "synchronize"}, label : {None}]
    \cup [type : {"pull_request"}, actor : Actors,
          action : {"labeled", "unlabeled"}, label : Labels]

ReviewEvents ==
    [type : {"review"}, actor : Actors, action : {"submitted", "dismissed"},
     state : {"changes_requested", "approved"}]

IssueEvents ==
    [type : {"issues"}, actor : Actors, action : {"closed", "reopened"}, label : {None}]
    \cup [type : {"issues"}, actor : Actors, action : {"labeled"}, label : Labels]

Events == CommentEvents \cup PREvents \cup ReviewEvents \cup IssueEvents

Payload == [planOnly : BOOLEAN, isLabelTrigger : BOOLEAN, hint : BOOLEAN,
            explain : BOOLEAN, comment : BOOLEAN, login : Actors \cup {"quack"},
            task : Task, carriesReview : BOOLEAN]

ASSUME NoneAssumption == None \notin Payload \cup {"none", "implement", "comment"}

\* What an event sets off besides a run of its own.
Effects == {"ack", "merge", "heal", "moved_head", "invalidate", "clear_intent",
            "forget", "origin", "abort", "explain_link"}

Kinds == {"plan", "pull_request", "review", "commit", "reply", "hint"}
Phases == {"received", "dispatch", "own_pr", "grant", "mark", "orchestrator",
           "worker", "head", "sent", "done"}

VARIABLES
    ev,        \* the event
    subject,   \* isPR, authored by quack, head in a fork
    labels,    \* GitHub: the labels now
    relabels,
    phase,
    woke,      \* the effects so far
    p,         \* the payload of the dispatch
    grant,     \* allowedKinds
    seen,      \* the labels of the snapshot; None: it could not be read
    cache,     \* issueDeliverableCache: None, or the answer it holds
    isPlan, asked, workerAsked

vars == <<ev, subject, labels, relabels, phase, woke, p, grant, seen, cache,
          isPlan, asked, workerAsked>>
github == <<ev, subject, labels, relabels>>
answers == <<cache, isPlan, asked, workerAsked>>

TypeOK ==
    /\ ev \in Events
    /\ subject \in [isPR : BOOLEAN, authored : BOOLEAN, fork : BOOLEAN]
    /\ labels \subseteq Labels
    /\ relabels \in 0 .. MaxRelabels
    /\ phase \in Phases
    /\ woke \subseteq Effects
    /\ p \in Payload \cup {None}
    /\ grant \subseteq {"review", "pull_request", "comment"}
    /\ seen \in (SUBSET Labels) \cup {None}
    /\ cache \in {None, "none", "implement", "comment"}
    /\ isPlan \in BOOLEAN
    /\ {asked, workerAsked} \subseteq Kinds \cup {None}
    /\ phase \notin {"received", "own_pr", "done"} => p # None

\* A labeled event's label is on the subject; quack opens what quack authored.
Init ==
    /\ ev \in Events
    /\ subject \in {s \in [isPR : BOOLEAN, authored : BOOLEAN, fork : BOOLEAN] :
                       (s.authored => s.isPR /\ ~s.fork) /\ (s.fork => s.isPR)}
    /\ labels \in SUBSET Labels
    /\ ev.type \in {"pull_request", "review"} => subject.isPR
    /\ ev.type = "issues" /\ ev.action # "labeled" => ~subject.isPR
    /\ ev.action = "labeled" => ev.label \in labels
    /\ ev.action = "unlabeled" => ev.label \notin labels
    /\ ev.type = "pull_request" /\ ev.action = "opened" =>
          (subject.authored <=> ev.actor = "bot")
    /\ relabels = 0 /\ phase = "received" /\ woke = {} /\ p = None
    /\ grant = {} /\ seen = None
    /\ cache = None /\ isPlan = FALSE /\ asked = None /\ workerAsked = None

-----------------------------------------------------------------------------
(* The handlers.                                                            *)

\* Mutant: an allowlist that lets everybody in.
isInvokerAllowedByDefault(login) == TRUE

\* An empty list denies.
isInvokerAllowed(login) == login = "allowed"

synthetic(login) ==
    [planOnly |-> FALSE, isLabelTrigger |-> FALSE, hint |-> FALSE, explain |-> FALSE,
     comment |-> FALSE, login |-> login, task |-> AutoReviewTask,
     carriesReview |-> FALSE]

autoReviewPayload == [synthetic("quack") EXCEPT !.isLabelTrigger = TRUE]

Ignore(effects) ==
    /\ phase' = "done" /\ woke' = woke \cup effects
    /\ UNCHANGED <<github, p, grant, seen, answers>>

Dispatch(payload, effects) ==
    /\ phase' = "dispatch" /\ woke' = woke \cup effects /\ p' = payload
    /\ UNCHANGED <<github, grant, seen, answers>>

\* A bare slash command of somebody with write access, on a pull request.
isPRCommand(trigger, cmd) ==
    /\ trigger \in Triggers
    /\ ev.action = "created" /\ subject.isPR
    /\ ev.body = cmd /\ ev.writer

prHasReviewLabel == "review" \in labels
isReviewCommand == isPRCommand("label", "/review") /\ prHasReviewLabel
isExplainCommand == isPRCommand("explain", "/explain")

\* A mention at the start of a line, with something after it.
triggerTask == "mention" \in Triggers /\ ev.action = "created" /\ ev.body = "mention"

commentPayload ==
    [synthetic(ev.actor) EXCEPT !.comment = TRUE, !.task = ev.task,
                                !.carriesReview = prHasReviewLabel]

handleIssueComment ==
    /\ phase = "received" /\ ev.type = "comment"
    /\ LET acts == isReviewCommand \/ isExplainCommand \/ triggerTask
       IN  IF ev.actor = "bot" \/ ~acts \/ ~isInvokerAllowed(ev.actor) THEN Ignore({})
           ELSE Dispatch(
                  [commentPayload EXCEPT !.isLabelTrigger = isReviewCommand,
                                         !.explain = isExplainCommand,
                                         !.hint = isExplainCommand], {"ack"})

labeledTrigger(trigger, label) ==
    /\ ev.action = "labeled" /\ trigger \in Triggers
    /\ ev.label = label /\ ev.actor # "bot"

firesReview ==
    \/ ev.action = "opened" /\ "pr_opened" \in Triggers
    \/ ev.action = "labeled" /\ "label" \in Triggers /\ ev.label = "review"

handlePullRequest ==
    /\ phase = "received" /\ ev.type = "pull_request"
    /\ CASE ev.action = "closed" -> Ignore({"origin", "clear_intent", "forget"})
         [] ev.action = "reopened" -> Ignore({"origin"})
         [] ev.action = "unlabeled" /\ ev.label = "merge" -> Ignore({"clear_intent"})
         [] labeledTrigger("merge", "merge") ->
               Ignore(IF isInvokerAllowed(ev.actor) THEN {"merge"} ELSE {})
         [] labeledTrigger("ci_fix", "fix") ->
               Ignore(IF isInvokerAllowed(ev.actor) THEN {"heal"} ELSE {})
         [] ev.action = "synchronize" -> Ignore({"invalidate", "merge", "moved_head"})
         [] firesReview -> Dispatch(autoReviewPayload, {})
         [] OTHER -> Ignore({})

handlePullRequestReview ==
    /\ phase = "received" /\ ev.type = "review"
    /\ LET effects == IF ev.action = "submitted" THEN {"merge"} ELSE {}
       IN  IF \/ ev.action # "submitted" \/ ev.state # "changes_requested"
              \/ "ci_fix" \notin Triggers
              \/ ev.actor = "bot" \/ ~isInvokerAllowed(ev.actor)
           THEN Ignore(effects)
           ELSE /\ phase' = "own_pr" /\ woke' = woke \cup effects
                /\ UNCHANGED <<github, p, grant, seen, answers>>

\* engageOwnPRReview: fix-the-findings on quack's own pull request; an
\* authorship check that fails is not engaged.
engageOwnPRReview ==
    /\ phase = "own_pr"
    /\ \/ subject.authored /\ Dispatch([synthetic(ev.actor) EXCEPT !.hint = TRUE], {})
       \/ Ignore({})

issuePayload(planOnly) ==
    [synthetic(ev.actor) EXCEPT !.isLabelTrigger = TRUE, !.planOnly = planOnly]

labeledIssue(trigger, label) ==
    /\ ev.action = "labeled" /\ ~subject.isPR
    /\ ev.actor # "bot" /\ isInvokerAllowed(ev.actor)
    /\ trigger \in Triggers /\ ev.label = label

handleIssues ==
    /\ phase = "received" /\ ev.type = "issues"
    /\ CASE ev.action = "closed" -> Ignore({"forget", "origin"})
         [] ev.action = "reopened" -> Ignore({"origin"})
         [] labeledIssue("issue_plan", "plan") -> Dispatch(issuePayload(TRUE), {"ack"})
         [] labeledIssue("issue_implement", "implement") ->
               Dispatch(issuePayload(FALSE), {"ack"})
         [] OTHER -> Ignore({})

\* People add and remove labels while quack works.
Relabel ==
    /\ phase = "dispatch" /\ relabels < MaxRelabels
    /\ \E l \in Labels :
          labels' = IF l \in labels THEN labels \ {l} ELSE labels \cup {l}
    /\ relabels' = relabels + 1
    /\ UNCHANGED <<ev, subject, phase, woke, p, grant, seen, answers>>

-----------------------------------------------------------------------------
(* The dispatch.                                                            *)

\* loadGithubContext and abortBlind: with GitHub unreachable, labels and
\* /explain are refused on the thread and a mention runs blind.
Load ==
    /\ phase = "dispatch"
    /\ \E ok \in BOOLEAN :
          /\ seen' = IF ok THEN labels ELSE None
          /\ IF ~ok /\ (p.isLabelTrigger \/ p.explain)
             THEN phase' = "done" /\ woke' = woke \cup {"abort"}
             ELSE phase' = "grant" /\ UNCHANGED woke
    /\ UNCHANGED <<github, p, grant, answers>>

computeGrant(ls, prScoped, authored, fork) ==
    LET openPR == "implement" \in ls
        postReview == "review" \in ls
        writer == openPR \/ "fix" \in ls \/ authored
    IN  {k \in {"review", "pull_request", "comment"} :
           CASE k = "review" -> postReview
             [] k = "pull_request" -> IF prScoped THEN writer /\ ~fork ELSE openPR
             [] k = "comment" -> IF prScoped THEN postReview \/ writer
                                 ELSE "plan" \in ls}

\* The authorship check may fail, which denies; a snapshot that could not be
\* read has no labels and no fork.
dispatchGrant ==
    /\ phase = "grant"
    /\ \E authored \in {subject.authored, FALSE} :
          grant' = IF p.explain THEN {}
                   ELSE IF seen = None THEN computeGrant({}, subject.isPR, authored, FALSE)
                   ELSE computeGrant(seen, subject.isPR, authored, subject.fork)
    /\ phase' = "mark"
    /\ UNCHANGED <<github, woke, p, seen, answers>>

ImplementationIntent(task) ==
    task.delivery /\ task.verb /\ (task.review => task.directed)

\* One call of classifyIssueDeliverable; "none": no or no usable answer.
classifyIssueDeliverable ==
    IF "pull_request" \in grant THEN {"implement", "comment", "none"} ELSE {"none"}

\* Mutant: every call asks the model again.
issueAnswersAskedAgain == classifyIssueDeliverable

\* classifyIssueDeliverableCached: the answers a dispatch can get now.
issueAnswers == IF cache = None THEN classifyIssueDeliverable ELSE {cache}

Implements(answer) ==
    \/ answer = "implement"
    \/ answer = "none" /\ "pull_request" \in grant /\ ImplementationIntent(p.task)

\* deliverableIsPlan: whether the answer is marked and collapses earlier plans.
deliverableIsPlan ==
    /\ phase = "mark"
    /\ IF p.planOnly \/ subject.isPR \/ p.isLabelTrigger \/ ~p.task.plan
       THEN isPlan' = p.planOnly /\ UNCHANGED cache
       ELSE \E a \in issueAnswers : cache' = a /\ isPlan' = ~Implements(a)
    /\ phase' = "orchestrator"
    /\ UNCHANGED <<github, woke, p, grant, seen, asked, workerAsked>>

mentionIsWork == subject.isPR /\ ~p.isLabelTrigger /\ ~p.hint

\* Mutant: a review is taken as asked whatever is granted.
grantedPRKindsUngated == {"commit", "reply", "review"}

\* classifyGrantedPRDeliverable: a review that may not be posted is a reply.
grantedPRKinds ==
    {"commit", "reply"} \cup (IF "review" \in grant THEN {"review"} ELSE {})

\* isWorkRequest: without an answer, what the label or the words say.
workAnswers == {TRUE, FALSE, p.carriesReview \/ p.task.rerun}

\* Without a verdict on a mention: what grant and wording leave.
ReviewOrCommit ==
    IF (mentionIsWork /\ "review" \in grant) \/ ~ImplementationIntent(p.task)
    THEN "review" ELSE "commit"

\* What deliverable may say on a pull request.
prKinds ==
    IF ~mentionIsWork THEN {IF p.hint THEN "hint" ELSE ReviewOrCommit}
    ELSE IF "pull_request" \in grant THEN grantedPRKinds
    ELSE {IF work THEN ReviewOrCommit ELSE "reply" : work \in workAnswers}

\* deliverable: one classification of the run.
deliverable(kind, next) ==
    IF subject.isPR THEN kind \in prKinds /\ next = cache
    ELSE IF p.planOnly THEN kind = "plan" /\ next = cache
    ELSE IF p.isLabelTrigger THEN kind = "pull_request" /\ next = cache
    ELSE \E a \in issueAnswers :
            kind = (IF Implements(a) THEN "pull_request" ELSE "reply") /\ next = a

buildEnvelope ==
    /\ phase = "orchestrator"
    /\ \E k \in Kinds, c \in {None, "none", "implement", "comment"} :
          deliverable(k, c) /\ asked' = k /\ cache' = c
    /\ phase' = "worker"
    /\ UNCHANGED <<github, woke, p, grant, seen, isPlan, workerAsked>>

buildWorkerAsk ==
    /\ phase = "worker"
    /\ \E k \in Kinds, c \in {None, "none", "implement", "comment"} :
          deliverable(k, c) /\ workerAsked' = k /\ cache' = c
    /\ phase' = "head"
    /\ UNCHANGED <<github, woke, p, grant, seen, isPlan, asked>>

\* resolvePRHead: a pull request whose head cannot be named is not run.
Send ==
    /\ phase = "head"
    /\ \/ /\ phase' = "sent"
          /\ woke' = woke \cup (IF p.explain THEN {"explain_link"} ELSE {})
       \/ subject.isPR /\ phase' = "done" /\ woke' = woke \cup {"abort"}
    /\ UNCHANGED <<github, p, grant, seen, answers>>

Next ==
    \/ handleIssueComment \/ handlePullRequest \/ handlePullRequestReview
    \/ engageOwnPRReview \/ handleIssues
    \/ Relabel \/ Load \/ dispatchGrant \/ deliverableIsPlan
    \/ buildEnvelope \/ buildWorkerAsk \/ Send

Spec == Init /\ [][Next]_vars

-----------------------------------------------------------------------------
(* Properties.                                                              *)

\* Somebody outside allowed_users, or a bot, sets off no run but an automatic
\* review, no merge by label and no heal (extension.go 239, webhook.go 152).
OutsiderGetsReviewOnly ==
    ev.actor # "allowed" =>
        /\ phase = "sent" => {asked, workerAsked} = {"review"} /\ ~isPlan
        /\ "heal" \notin woke
        /\ ev.action = "labeled" => "merge" \notin woke

\* On an issue the orchestrator, its workers and the mark that collapses older
\* plans follow one reading of the request, whatever a second call of the model
\* would have said (intent.go 180).
OneReading ==
    phase = "sent" /\ ~subject.isPR =>
        /\ workerAsked = asked
        /\ isPlan => asked \in {"plan", "reply"}
        /\ p.task.plan /\ asked = "reply" => isPlan

\* A comment, unlike a label's own event, never asks for a pull request the
\* labels do not grant, and one that could push never for a review that could
\* not be posted (intent.go 152, 114).
CommentAsksWithinGrant ==
    phase = "sent" /\ ~p.isLabelTrigger /\ ~p.hint =>
        \A k \in {asked, workerAsked} :
            /\ k = "pull_request" => "pull_request" \in grant
            /\ k = "review" /\ "pull_request" \in grant => "review" \in grant

\* "Without push permission a PR mention can only be a review, which the grant
\* alone decides" (envelope.go 326): no commit is asked that cannot be pushed.
CommitIsPermitted ==
    phase = "sent" /\ p.comment /\ subject.isPR =>
        ("commit" \in {asked, workerAsked} => "pull_request" \in grant)

\* "a second live call could disagree" (intent.go 180): also on a pull request
\* the orchestrator and its workers are asked for the same thing.
PRAsksAgree == phase = "sent" /\ subject.isPR => workerAsked = asked

==============================================================================
