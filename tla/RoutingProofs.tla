----------------------------- MODULE RoutingProofs -----------------------------
(***************************************************************************)
(* Proofs about Routing, whatever triggers are configured and however      *)
(* often labels change: who may wake quack, that one request has one       *)
(* reading, and that what is asked stays within the grant.                 *)
(***************************************************************************)
EXTENDS Routing, TLAPS

\* The phases of a dispatch, by what has been decided so far.
Asking == {"worker", "head", "sent"}
Marked == {"orchestrator"} \cup Asking
Dispatched == {"dispatch", "grant", "mark"} \cup Marked

\* An outsider has set off nothing but an automatic review of a pull request.
OutsiderInv ==
    ev.actor # "allowed" =>
        /\ "heal" \notin woke
        /\ ev.action = "labeled" => "merge" \notin woke
        /\ phase # "own_pr"
        /\ phase \in Dispatched => p = autoReviewPayload /\ subject.isPR
        /\ phase \in Marked => ~isPlan
        /\ phase \in Asking => asked = "review"
        /\ phase \in {"head", "sent"} => workerAsked = "review"

\* A cached answer other than none was asked for within the grant.
CacheInv == cache \notin {None, "none"} => "pull_request" \in grant

\* An issue's request: what the mark, the orchestrator and the workers are told
\* is what the one answer in the cache says.
Unlabelled == p # None /\ ~p.planOnly /\ ~p.isLabelTrigger

ReadingInv ==
    ~subject.isPR =>
        /\ phase \in Marked =>
              /\ ~Unlabelled => isPlan = p.planOnly
              /\ Unlabelled /\ ~p.task.plan => ~isPlan
              /\ Unlabelled /\ p.task.plan => cache # None /\ isPlan = ~Implements(cache)
        /\ phase \in Asking => asked = (IF p.planOnly THEN "plan"
                                        ELSE IF p.isLabelTrigger THEN "pull_request"
                                        ELSE IF Implements(cache) THEN "pull_request"
                                        ELSE "reply")
        /\ phase \in Asking /\ Unlabelled => cache # None
        /\ phase \in {"head", "sent"} => workerAsked = asked
        /\ phase \in Dispatched /\ p.isLabelTrigger => ~p.task.plan

Allowed(k) == /\ k = "pull_request" => "pull_request" \in grant
              /\ k = "review" /\ "pull_request" \in grant => "review" \in grant

GrantInv ==
    p # None /\ ~p.isLabelTrigger /\ ~p.hint =>
        /\ phase \in Asking => Allowed(asked)
        /\ phase \in {"head", "sent"} => Allowed(workerAsked)

Inv == /\ ev \in Events
       /\ subject.isPR \in BOOLEAN
       /\ ev.type = "pull_request" => subject.isPR
       /\ cache \in {None, "none", "implement", "comment"}
       /\ phase \in {"received", "own_pr"} => p = None /\ cache = None /\ grant = {}
       /\ p \in Payload \cup {None}
       /\ phase \in Dispatched => p # None
       /\ phase \in {"dispatch", "grant", "mark"} => cache = None
       /\ isPlan \in BOOLEAN
       /\ OutsiderInv
       /\ CacheInv
       /\ ReadingInv
       /\ GrantInv

-----------------------------------------------------------------------------
(* The payloads.                                                            *)

\* An event carries a task only when it is a comment that mentions quack.
LEMMA CommentTask == ASSUME ev \in Events, ev.type = "comment" PROVE ev.task \in Task
<1>1. ev \in CommentEvents
      BY DEF Events, PREvents, ReviewEvents, IssueEvents, CommentEvents
<1>2. AutoReviewTask \in Task
      BY DEF AutoReviewTask, Task
<1> QED
      BY <1>1, <1>2 DEF CommentEvents

LEMMA EventActor == ASSUME ev \in Events PROVE ev.actor \in Actors
      BY DEF Events, PREvents, ReviewEvents, IssueEvents, CommentEvents

LEMMA SyntheticType == ASSUME NEW a \in Actors \cup {"quack"} PROVE synthetic(a) \in Payload
<1>1. AutoReviewTask \in Task
      BY DEF AutoReviewTask, Task
<1> QED
      BY <1>1 DEF synthetic, Payload

\* A label's own task never asks for a plan.
LEMMA SyntheticTask == ASSUME NEW a PROVE ~synthetic(a).task.plan
      BY DEF synthetic, AutoReviewTask

\* Without a comment's words a review is what is asked.
LEMMA AutoIsReview == ~ImplementationIntent(AutoReviewTask)
      BY DEF ImplementationIntent, AutoReviewTask

LEMMA InitInv == Init => Inv
<1> SUFFICES ASSUME Init PROVE Inv
    OBVIOUS
<1>1. subject.isPR \in BOOLEAN
      BY DEF Init
<1>2. OutsiderInv
      BY DEF Init, OutsiderInv, Dispatched, Marked, Asking
<1> QED
      BY <1>1, <1>2, NoneAssumption DEF Init, Inv, CacheInv, ReadingInv, GrantInv, Unlabelled,
         Dispatched, Marked, Asking

-----------------------------------------------------------------------------
(* The handlers: each ignores the event or dispatches.                      *)

\* An ignored event leaves nothing to prove but what it set off.
LEMMA IgnoreInv ==
    ASSUME Inv, NEW effects, Ignore(effects),
           ev.actor # "allowed" => "heal" \notin effects
                                   /\ (ev.action = "labeled" => "merge" \notin effects)
    PROVE  Inv'
<1>1. OutsiderInv'
      BY DEF Inv, OutsiderInv, Ignore, github, Dispatched, Marked, Asking
<1>2. CacheInv' /\ ReadingInv' /\ GrantInv'
      BY DEF Inv, CacheInv, ReadingInv, GrantInv, Ignore, github, answers, Dispatched, Marked, Asking
<1> QED
      BY <1>1, <1>2 DEF Inv, Ignore, github, answers, Dispatched, Marked, Asking

\* A dispatch of an outsider's event is an automatic review's.
LEMMA DispatchInv ==
    ASSUME Inv, phase \in {"received", "own_pr"},
           NEW payload \in Payload, NEW effects, Dispatch(payload, effects),
           payload.isLabelTrigger => ~payload.task.plan,
           ev.actor # "allowed" => payload = autoReviewPayload /\ subject.isPR
                                   /\ {"heal", "merge"} \cap effects = {}
    PROVE  Inv'
<1>1. OutsiderInv'
      BY DEF Inv, OutsiderInv, Dispatch, github, answers, Dispatched, Marked, Asking
<1>2. CacheInv' /\ ReadingInv' /\ GrantInv'
      BY DEF Inv, CacheInv, ReadingInv, GrantInv, Dispatch, github, answers, Dispatched, Marked, Asking
<1> QED
      BY <1>1, <1>2, NoneAssumption
      DEF Inv, Dispatch, github, answers, Dispatched, Marked, Asking

LEMMA CommentInv == ASSUME Inv, handleIssueComment PROVE Inv'
<1> DEFINE payload == [commentPayload EXCEPT !.isLabelTrigger = isReviewCommand,
                                             !.explain = isExplainCommand,
                                             !.hint = isExplainCommand]
<1>0. phase = "received" /\ ev.type = "comment" /\ ev \in Events
      BY DEF handleIssueComment, Inv
<1>1. CASE Ignore({})
      BY <1>1, IgnoreInv
<1>2. CASE isInvokerAllowed(ev.actor) /\ Dispatch(payload, {"ack"})
  <2>1. synthetic(ev.actor) \in Payload /\ ev.task \in Task
        BY <1>0, EventActor, SyntheticType, CommentTask
  <2>2. /\ isReviewCommand \in BOOLEAN /\ isExplainCommand \in BOOLEAN
        /\ prHasReviewLabel \in BOOLEAN
        BY DEF isReviewCommand, isExplainCommand, isPRCommand, prHasReviewLabel
  <2>3. payload \in Payload
        BY <2>1, <2>2 DEF commentPayload, Payload
  <2>4. payload.isLabelTrigger => ~payload.task.plan
    <3>1. payload.task = ev.task /\ payload.isLabelTrigger = isReviewCommand
          BY <2>1, <2>2 DEF commentPayload, Payload
    <3>2. isReviewCommand => ev.body = "/review"
          BY DEF isReviewCommand, isPRCommand
    <3>3. ev.body = "/review" => ev.task = AutoReviewTask
          BY <1>0 DEF Events, CommentEvents, PREvents, ReviewEvents, IssueEvents
    <3> QED
          BY <3>1, <3>2, <3>3 DEF AutoReviewTask
  <2>5. ev.actor = "allowed"
        BY <1>2 DEF isInvokerAllowed
  <2> HIDE DEF payload
  <2> QED
        BY <1>0, <1>2, <2>3, <2>4, <2>5, DispatchInv
<1> QED
      BY <1>1, <1>2 DEF handleIssueComment

LEMMA PullRequestInv == ASSUME Inv, handlePullRequest PROVE Inv'
<1>0. phase = "received" /\ ev.type = "pull_request" /\ subject.isPR
      BY DEF handlePullRequest, Inv
<1>1. CASE ev.action \in {"closed", "reopened", "unlabeled", "synchronize"} /\
           \E effects \in {{"origin", "clear_intent", "forget"}, {"origin"}, {"clear_intent"},
                           {"invalidate", "merge", "moved_head"}, {}} : Ignore(effects)
  <2>1. PICK effects \in {{"origin", "clear_intent", "forget"}, {"origin"}, {"clear_intent"},
                          {"invalidate", "merge", "moved_head"}, {}} : Ignore(effects)
        BY <1>1
  <2> QED
        BY <1>1, <2>1, IgnoreInv
<1>2. CASE \E effect \in {"merge", "heal"} :
              Ignore(IF isInvokerAllowed(ev.actor) THEN {effect} ELSE {})
  <2>1. PICK effect \in {"merge", "heal"} :
              Ignore(IF isInvokerAllowed(ev.actor) THEN {effect} ELSE {})
        BY <1>2
  <2> DEFINE effects == IF isInvokerAllowed(ev.actor) THEN {effect} ELSE {}
  <2>2. ev.actor # "allowed" => effects = {}
        BY DEF isInvokerAllowed
  <2>3. Ignore(effects)
        BY <2>1
  <2> HIDE DEF effects
  <2> QED
        BY <2>2, <2>3, IgnoreInv
<1>3. CASE Dispatch(autoReviewPayload, {})
  <2>1. autoReviewPayload \in Payload
    <3> DEFINE s == synthetic("quack")
    <3>1. s \in Payload
          BY SyntheticType
    <3> HIDE DEF s
    <3>2. autoReviewPayload = [s EXCEPT !.isLabelTrigger = TRUE]
          BY DEF autoReviewPayload, s
    <3> QED
          BY <3>1, <3>2 DEF Payload
  <2>2. ~autoReviewPayload.task.plan
        BY DEF autoReviewPayload, synthetic, AutoReviewTask
  <2> QED
        BY <1>0, <1>3, <2>1, <2>2, DispatchInv
<1>4. CASE Ignore({})
      BY <1>4, IgnoreInv
<1> QED
      BY <1>0, <1>1, <1>2, <1>3, <1>4 DEF handlePullRequest

LEMMA ReviewInv == ASSUME Inv, handlePullRequestReview PROVE Inv'
<1> DEFINE effects == IF ev.action = "submitted" THEN {"merge"} ELSE {}
<1>1. CASE Ignore(effects)
      BY <1>1, IgnoreInv
<1>2. CASE /\ isInvokerAllowed(ev.actor) /\ phase = "received"
           /\ phase' = "own_pr" /\ UNCHANGED <<github, p, grant, seen, answers>>
  <2>1. ev.actor = "allowed"
        BY <1>2 DEF isInvokerAllowed
  <2>2. OutsiderInv' /\ CacheInv' /\ ReadingInv' /\ GrantInv'
        BY <1>2, <2>1 DEF Inv, OutsiderInv, CacheInv, ReadingInv, GrantInv, github, answers,
                          Dispatched, Marked, Asking
  <2> QED
        BY <1>2, <2>2 DEF Inv, github, answers, Dispatched, Marked, Asking
<1> QED
      BY <1>1, <1>2 DEF handlePullRequestReview

LEMMA OwnPRInv == ASSUME Inv, engageOwnPRReview PROVE Inv'
<1> DEFINE payload == [synthetic(ev.actor) EXCEPT !.hint = TRUE]
<1>0. phase = "own_pr"
      BY DEF engageOwnPRReview
<1>1. CASE Ignore({})
      BY <1>1, IgnoreInv
<1>2. CASE Dispatch(payload, {})
  <2>1. payload \in Payload /\ ~payload.task.plan
        BY EventActor, SyntheticType DEF Inv, Payload, synthetic, AutoReviewTask
  <2>2. ev.actor = "allowed"
        BY <1>0 DEF Inv, OutsiderInv
  <2> HIDE DEF payload
  <2> QED
        BY <1>0, <1>2, <2>1, <2>2, DispatchInv
<1> QED
      BY <1>1, <1>2 DEF engageOwnPRReview

LEMMA IssuesInv == ASSUME Inv, handleIssues PROVE Inv'
<1>0. phase = "received"
      BY DEF handleIssues
<1>1. CASE \E effects \in {{"forget", "origin"}, {"origin"}, {}} : Ignore(effects)
  <2>1. PICK effects \in {{"forget", "origin"}, {"origin"}, {}} : Ignore(effects)
        BY <1>1
  <2> QED
        BY <2>1, IgnoreInv
<1>2. CASE /\ isInvokerAllowed(ev.actor)
           /\ \E planOnly \in BOOLEAN : Dispatch(issuePayload(planOnly), {"ack"})
  <2>1. PICK planOnly \in BOOLEAN : Dispatch(issuePayload(planOnly), {"ack"})
        BY <1>2
  <2>2. issuePayload(planOnly) \in Payload /\ ~issuePayload(planOnly).task.plan
    <3> DEFINE s == synthetic(ev.actor)
    <3>1. s \in Payload /\ ~s.task.plan
          BY EventActor, SyntheticType, SyntheticTask DEF Inv
    <3> HIDE DEF s
    <3>2. issuePayload(planOnly) = [s EXCEPT !.isLabelTrigger = TRUE, !.planOnly = planOnly]
          BY DEF issuePayload, s
    <3> QED
          BY <3>1, <3>2 DEF Payload
  <2>3. ev.actor = "allowed"
        BY <1>2 DEF isInvokerAllowed
  <2> QED
        BY <1>0, <2>1, <2>2, <2>3, DispatchInv
<1>3. \/ Ignore({"forget", "origin"}) \/ Ignore({"origin"}) \/ Ignore({})
      \/ isInvokerAllowed(ev.actor) /\ Dispatch(issuePayload(TRUE), {"ack"})
      \/ isInvokerAllowed(ev.actor) /\ Dispatch(issuePayload(FALSE), {"ack"})
      BY DEF handleIssues, labeledIssue
<1> QED
      BY <1>1, <1>2, <1>3

-----------------------------------------------------------------------------
(* The dispatch.                                                            *)

LEMMA RelabelInv == ASSUME Inv, Relabel PROVE Inv'
      BY DEF Relabel, Inv, OutsiderInv, CacheInv, ReadingInv, GrantInv, Unlabelled, Implements,
             Allowed, answers, Dispatched, Marked, Asking

LEMMA LoadInv == ASSUME Inv, Load PROVE Inv'
<1>1. PICK ok \in BOOLEAN :
         /\ phase = "dispatch"
         /\ \/ phase' = "done" /\ woke' = woke \cup {"abort"}
            \/ phase' = "grant" /\ woke' = woke
         /\ UNCHANGED <<github, p, grant, answers>>
      BY DEF Load
<1>2. OutsiderInv'
      BY <1>1 DEF Inv, OutsiderInv, github, answers, Dispatched, Marked, Asking
<1>3. CacheInv' /\ ReadingInv' /\ GrantInv'
      BY <1>1 DEF Inv, CacheInv, ReadingInv, GrantInv, github, answers, Dispatched, Marked, Asking
<1> QED
      BY <1>1, <1>2, <1>3 DEF Inv, github, answers, Dispatched, Marked, Asking

\* Whatever is granted, nothing has been asked yet.
LEMMA GrantStepInv == ASSUME Inv, dispatchGrant PROVE Inv'
<1>1. phase = "grant" /\ phase' = "mark" /\ UNCHANGED <<github, woke, p, seen, answers>>
      BY DEF dispatchGrant
<1>2. OutsiderInv'
      BY <1>1 DEF Inv, OutsiderInv, github, answers, Dispatched, Marked, Asking
<1>3. CacheInv' /\ ReadingInv' /\ GrantInv'
      BY <1>1 DEF Inv, CacheInv, ReadingInv, GrantInv, github, answers, Dispatched, Marked, Asking
<1> QED
      BY <1>1, <1>2, <1>3 DEF Inv, github, answers, Dispatched, Marked, Asking

\* An answer is one of three, and only with a grant other than none.
LEMMA AnswerType ==
    ASSUME Inv, NEW a \in issueAnswers
    PROVE  /\ a \in {"none", "implement", "comment"}
           /\ a # None
           /\ a # "none" => "pull_request" \in grant
           /\ cache # None => a = cache
      BY NoneAssumption DEF issueAnswers, classifyIssueDeliverable, Inv, CacheInv

LEMMA MarkInv == ASSUME Inv, deliverableIsPlan PROVE Inv'
<1>1. /\ phase = "mark" /\ phase' = "orchestrator" /\ cache = None
      /\ UNCHANGED <<github, woke, p, grant, seen, asked, workerAsked>>
      BY DEF deliverableIsPlan, Inv
<1>2. p \in Payload
      BY <1>1 DEF Inv, Dispatched
<1>3. CASE p.planOnly \/ subject.isPR \/ p.isLabelTrigger \/ ~p.task.plan
  <2>1. isPlan' = p.planOnly /\ cache' = cache
        BY <1>3 DEF deliverableIsPlan
  <2>2. OutsiderInv'
    <3>1. ~autoReviewPayload.planOnly
          BY DEF autoReviewPayload, synthetic
    <3> QED
          BY <1>1, <2>1, <3>1 DEF Inv, OutsiderInv, github, Dispatched, Marked, Asking
  <2>3. ReadingInv'
        BY <1>1, <1>3, <2>1 DEF Inv, ReadingInv, Unlabelled, Implements, github,
                                Dispatched, Marked, Asking
  <2>4. CacheInv' /\ GrantInv'
        BY <1>1, <2>1 DEF Inv, CacheInv, GrantInv, Marked, Asking
  <2>5. isPlan' \in BOOLEAN
        BY <1>2, <2>1 DEF Payload
  <2> QED
        BY <1>1, <2>1, <2>2, <2>3, <2>4, <2>5 DEF Inv, github, Dispatched, Marked, Asking
<1>4. CASE ~(p.planOnly \/ subject.isPR \/ p.isLabelTrigger \/ ~p.task.plan)
  <2>1. PICK a \in issueAnswers : cache' = a /\ isPlan' = ~Implements(a)
        BY <1>4 DEF deliverableIsPlan
  <2>2. OutsiderInv'
        BY <1>1, <1>4 DEF Inv, OutsiderInv, github, Dispatched, Marked, Asking
  <2>3. Implements(a)' = Implements(a)
        BY <1>1 DEF Implements
  <2>4. ReadingInv'
        BY <1>1, <1>4, <2>1, <2>3, AnswerType DEF Inv, ReadingInv, Unlabelled, Implements, github,
                                             Dispatched, Marked, Asking
  <2>5. CacheInv' /\ GrantInv'
        BY <1>1, <2>1, AnswerType DEF Inv, CacheInv, GrantInv, Marked, Asking
  <2>6. isPlan' \in BOOLEAN
        BY <2>1 DEF Implements
  <2> QED
        BY <1>1, <2>1, <2>2, <2>4, <2>5, <2>6, AnswerType
        DEF Inv, github, Dispatched, Marked, Asking
<1> QED
      BY <1>3, <1>4

-----------------------------------------------------------------------------
(* What is asked.                                                           *)

\* What deliverable says on an issue, given the one answer it leaves cached.
IssueAsk(c) == IF p.planOnly THEN "plan"
               ELSE IF p.isLabelTrigger THEN "pull_request"
               ELSE IF Implements(c) THEN "pull_request" ELSE "reply"

(* One classification keeps an answer that is cached and stays within what  *)
(* is granted to a comment; an outsider's request is classified as a review. *)
LEMMA Deliverable ==
    ASSUME Inv, phase \in Marked, NEW k, NEW c, deliverable(k, c)
    PROVE  /\ c \in {None, "none", "implement", "comment"}
           /\ c \notin {None, "none"} => "pull_request" \in grant
           /\ cache # None => c = cache
           /\ ~subject.isPR => k = IssueAsk(c)
           /\ ~subject.isPR /\ Unlabelled => c # None
           /\ ~p.isLabelTrigger /\ ~p.hint => Allowed(k)
           /\ ev.actor # "allowed" => k = "review"
<1>0. p \in Payload /\ p # None
      BY DEF Inv, Dispatched
<1>1. CASE ~subject.isPR /\ (p.planOnly \/ p.isLabelTrigger)
  <2>1. c = cache /\ k = IssueAsk(c) /\ ~Unlabelled
        BY <1>1 DEF deliverable, IssueAsk, Unlabelled
  <2>2. ~p.isLabelTrigger => k = "plan"
        BY <1>1 DEF deliverable
  <2> QED
        BY <1>1, <2>1, <2>2 DEF Inv, CacheInv, OutsiderInv, Dispatched, Allowed
<1>2. CASE ~subject.isPR /\ ~p.planOnly /\ ~p.isLabelTrigger
  <2>1. /\ c \in issueAnswers
        /\ k = (IF Implements(c) THEN "pull_request" ELSE "reply")
        BY <1>2 DEF deliverable
  <2>2. Implements(c) => "pull_request" \in grant
        BY <2>1, AnswerType DEF Implements
  <2> QED
        BY <1>0, <1>2, <2>1, <2>2, AnswerType
        DEF IssueAsk, Inv, OutsiderInv, Dispatched, Allowed
<1>3. CASE subject.isPR
  <2>1. k \in prKinds /\ c = cache
        BY <1>3 DEF deliverable
  <2>2. ASSUME ~p.isLabelTrigger, ~p.hint PROVE Allowed(k)
    <3>1. mentionIsWork
          BY <1>3, <2>2 DEF mentionIsWork
    <3>2. CASE "pull_request" \in grant
      <4>0. k \in grantedPRKinds
            BY <2>1, <3>1, <3>2 DEF prKinds
      <4>1. k \in {"commit", "reply"} \/ (k = "review" /\ "review" \in grant)
            BY <4>0 DEF grantedPRKinds
      <4>2. k # "pull_request" /\ (k = "review" => "review" \in grant)
            BY <4>1
      <4> QED
            BY <4>2 DEF Allowed
    <3>3. CASE "pull_request" \notin grant
      <4>1. k \in {"review", "commit", "reply"}
            BY <2>1, <3>1, <3>3 DEF prKinds, ReviewOrCommit
      <4> QED
            BY <3>3, <4>1 DEF Allowed
    <3> QED
          BY <3>2, <3>3
  <2>3. ASSUME ev.actor # "allowed" PROVE k = "review"
    <3>1. p = autoReviewPayload
          BY <2>3 DEF Inv, OutsiderInv, Dispatched
    <3>2. /\ autoReviewPayload.isLabelTrigger /\ ~autoReviewPayload.hint
          /\ autoReviewPayload.task = AutoReviewTask
          BY DEF autoReviewPayload, synthetic
    <3>3. ~mentionIsWork
          BY <3>1, <3>2 DEF mentionIsWork
    <3>4. ReviewOrCommit = "review"
          BY <3>1, <3>2, AutoIsReview DEF ReviewOrCommit
    <3> QED
          BY <2>1, <3>1, <3>2, <3>3, <3>4 DEF prKinds
  <2> QED
        BY <1>3, <2>1, <2>2, <2>3 DEF Inv, CacheInv
<1> QED
      BY <1>1, <1>2, <1>3

LEMMA EnvelopeInv == ASSUME Inv, buildEnvelope PROVE Inv'
<1>1. PICK k, c : deliverable(k, c) /\ asked' = k /\ cache' = c
      BY DEF buildEnvelope
<1>2. /\ phase = "orchestrator" /\ phase' = "worker"
      /\ UNCHANGED <<github, woke, p, grant, seen, isPlan, workerAsked>>
      BY DEF buildEnvelope
<1>3. phase \in Marked
      BY <1>2 DEF Marked
<1>4. IssueAsk(c)' = IssueAsk(c) /\ Implements(c)' = Implements(c) /\ Allowed(k)' = Allowed(k)
      /\ Unlabelled' = Unlabelled
      BY <1>2 DEF IssueAsk, Implements, Allowed, Unlabelled
<1>5. OutsiderInv'
      BY <1>1, <1>2, <1>3, Deliverable DEF Inv, OutsiderInv, github, Dispatched, Marked, Asking
<1>6. CacheInv'
      BY <1>1, <1>2, <1>3, Deliverable DEF CacheInv
<1>7. GrantInv'
      BY <1>1, <1>2, <1>3, <1>4, Deliverable DEF Inv, GrantInv, Asking
<1>8. ReadingInv'
  <2> SUFFICES ASSUME ~subject.isPR PROVE ReadingInv'
      BY <1>2 DEF ReadingInv, github
  <2>1. k = IssueAsk(c) /\ (Unlabelled => c # None) /\ (cache # None => c = cache)
        BY <1>1, <1>3, Deliverable
  <2> QED
        BY <1>1, <1>2, <1>3, <1>4, <2>1
        DEF Inv, ReadingInv, Unlabelled, IssueAsk, Implements, github, Dispatched, Marked, Asking
<1> QED
      BY <1>1, <1>2, <1>3, <1>5, <1>6, <1>7, <1>8, Deliverable
      DEF Inv, github, Dispatched, Marked, Asking

LEMMA WorkerInv == ASSUME Inv, buildWorkerAsk PROVE Inv'
<1>1. PICK k, c : deliverable(k, c) /\ workerAsked' = k /\ cache' = c
      BY DEF buildWorkerAsk
<1>2. /\ phase = "worker" /\ phase' = "head"
      /\ UNCHANGED <<github, woke, p, grant, seen, isPlan, asked>>
      BY DEF buildWorkerAsk
<1>3. phase \in Marked
      BY <1>2 DEF Marked, Asking
<1>4. IssueAsk(c)' = IssueAsk(c) /\ Implements(c)' = Implements(c) /\ Allowed(k)' = Allowed(k)
      /\ Allowed(asked)' = Allowed(asked) /\ Unlabelled' = Unlabelled
      BY <1>2 DEF IssueAsk, Implements, Allowed, Unlabelled
<1>5. OutsiderInv'
      BY <1>1, <1>2, <1>3, Deliverable DEF Inv, OutsiderInv, github, Dispatched, Marked, Asking
<1>6. CacheInv'
      BY <1>1, <1>2, <1>3, Deliverable DEF CacheInv
<1>7. GrantInv'
      BY <1>1, <1>2, <1>3, <1>4, Deliverable DEF Inv, GrantInv, Asking
<1>8. ReadingInv'
  <2> SUFFICES ASSUME ~subject.isPR PROVE ReadingInv'
      BY <1>2 DEF ReadingInv, github
  <2>1. k = IssueAsk(c) /\ (cache # None => c = cache)
        BY <1>1, <1>3, Deliverable
  <2>2. Unlabelled => cache # None
        BY <1>2 DEF Inv, ReadingInv, Asking
  <2>3. asked = IssueAsk(cache)
        BY <1>2 DEF Inv, ReadingInv, Asking, IssueAsk
  <2>4. k = asked
        BY <2>1, <2>2, <2>3, <1>2 DEF Unlabelled, IssueAsk, Inv, Dispatched, Marked, Asking
  <2> QED
        BY <1>1, <1>2, <1>3, <1>4, <2>1, <2>2, <2>3, <2>4
        DEF Inv, ReadingInv, Unlabelled, IssueAsk, Implements, github, Dispatched, Marked, Asking
<1> QED
      BY <1>1, <1>2, <1>3, <1>5, <1>6, <1>7, <1>8, Deliverable
      DEF Inv, github, Dispatched, Marked, Asking

LEMMA SendInv == ASSUME Inv, Send PROVE Inv'
<1>1. /\ phase = "head"
      /\ \/ phase' = "sent" /\ (woke' = woke \/ woke' = woke \cup {"explain_link"})
         \/ phase' = "done" /\ woke' = woke \cup {"abort"}
      /\ UNCHANGED <<github, p, grant, seen, answers>>
      BY DEF Send
<1>2. OutsiderInv'
      BY <1>1 DEF Inv, OutsiderInv, github, answers, Dispatched, Marked, Asking
<1>3. CacheInv' /\ GrantInv'
      BY <1>1 DEF Inv, CacheInv, GrantInv, Allowed, answers, Asking
<1>4. ReadingInv'
      BY <1>1 DEF Inv, ReadingInv, Unlabelled, Implements, github, answers, Dispatched, Marked, Asking
<1> QED
      BY <1>1, <1>2, <1>3, <1>4 DEF Inv, github, answers, Dispatched, Marked, Asking

LEMMA StepInv == ASSUME Inv, [Next]_vars PROVE Inv'
<1>1. CASE Next
      BY <1>1, CommentInv, PullRequestInv, ReviewInv, OwnPRInv, IssuesInv, RelabelInv, LoadInv,
         GrantStepInv, MarkInv, EnvelopeInv, WorkerInv, SendInv DEF Next
<1>2. CASE UNCHANGED vars
      BY <1>2 DEF vars, Inv, OutsiderInv, CacheInv, ReadingInv, GrantInv, Unlabelled, Implements,
                  Allowed
<1> QED
      BY <1>1, <1>2

LEMMA Invariance == Spec => []Inv
<1>1. Inv /\ [Next]_vars => Inv'
      BY StepInv
<1> QED
      BY InitInv, <1>1, PTL DEF Spec

-----------------------------------------------------------------------------
(* The types.                                                               *)

\* What the invariant says nothing of.
RestOK == /\ subject \in [isPR : BOOLEAN, authored : BOOLEAN, fork : BOOLEAN]
          /\ labels \subseteq Labels
          /\ relabels \in 0 .. MaxRelabels
          /\ phase \in Phases
          /\ woke \subseteq Effects
          /\ grant \subseteq {"review", "pull_request", "comment"}
          /\ seen \in (SUBSET Labels) \cup {None}
          /\ asked \in Kinds \cup {None}
          /\ workerAsked \in Kinds \cup {None}

LEMMA InitRest == Init => RestOK
      BY RoutingAssumption DEF Init, RestOK, Phases

LEMMA IgnoreRest ==
    ASSUME RestOK, NEW effects, Ignore(effects), effects \subseteq Effects PROVE RestOK'
      BY DEF RestOK, Ignore, github, answers, Phases

LEMMA DispatchRest ==
    ASSUME RestOK, NEW payload, NEW effects, Dispatch(payload, effects), effects \subseteq Effects
    PROVE  RestOK'
      BY DEF RestOK, Dispatch, github, answers, Phases

LEMMA CommentRest == ASSUME RestOK, handleIssueComment PROVE RestOK'
<1>1. \/ Ignore({})
      \/ \E payload : Dispatch(payload, {"ack"})
      BY DEF handleIssueComment
<1>2. {} \subseteq Effects /\ {"ack"} \subseteq Effects
      BY DEF Effects
<1> QED
      BY <1>1, <1>2, IgnoreRest, DispatchRest

\* What a pull request's event sets off besides a run.
PREffects == {{"origin", "clear_intent", "forget"}, {"origin"}, {"clear_intent"}, {"merge"},
              {"heal"}, {"invalidate", "merge", "moved_head"}, {}}

LEMMA PullRequestRest == ASSUME RestOK, handlePullRequest PROVE RestOK'
<1>1. \/ \E effects \in PREffects : Ignore(effects)
      \/ Dispatch(autoReviewPayload, {})
      BY DEF handlePullRequest, PREffects
<1>2. \A effects \in PREffects : effects \subseteq Effects
      BY DEF PREffects, Effects
<1> QED
      BY <1>1, <1>2, IgnoreRest, DispatchRest

LEMMA ReviewRest == ASSUME RestOK, handlePullRequestReview PROVE RestOK'
<1> DEFINE effects == IF ev.action = "submitted" THEN {"merge"} ELSE {}
<1>0. effects \subseteq Effects
      BY DEF Effects
<1>1. CASE Ignore(effects)
  <2> HIDE DEF effects
  <2> QED
        BY <1>0, <1>1, IgnoreRest
<1>2. CASE /\ phase' = "own_pr" /\ woke' = woke \cup effects
           /\ UNCHANGED <<github, p, grant, seen, answers>>
  <2> HIDE DEF effects
  <2> QED
        BY <1>0, <1>2 DEF RestOK, github, answers, Phases
<1> QED
      BY <1>1, <1>2 DEF handlePullRequestReview

LEMMA OwnPRRest == ASSUME RestOK, engageOwnPRReview PROVE RestOK'
<1>1. Ignore({}) \/ \E payload : Dispatch(payload, {})
      BY DEF engageOwnPRReview
<1> QED
      BY <1>1, IgnoreRest, DispatchRest

LEMMA IssuesRest == ASSUME RestOK, handleIssues PROVE RestOK'
<1>1. \/ \E effects \in {{"forget", "origin"}, {"origin"}, {}} : Ignore(effects)
      \/ \E payload : Dispatch(payload, {"ack"})
      BY DEF handleIssues
<1>2. /\ \A effects \in {{"forget", "origin"}, {"origin"}, {}} : effects \subseteq Effects
      /\ {"ack"} \subseteq Effects
      BY DEF Effects
<1> QED
      BY <1>1, <1>2, IgnoreRest, DispatchRest

\* Of what is granted there are three kinds.
LEMMA Grants ==
    ASSUME NEW ls, NEW prScoped, NEW authored, NEW fork
    PROVE  computeGrant(ls, prScoped, authored, fork) \subseteq {"review", "pull_request", "comment"}
      BY DEF computeGrant

\* A dispatch moves on through its phases, and asks for one of the kinds.
LEMMA RunRest ==
    ASSUME RestOK,
           \/ Relabel \/ Load \/ dispatchGrant \/ deliverableIsPlan
           \/ buildEnvelope \/ buildWorkerAsk \/ Send
    PROVE  RestOK'
<1>1. CASE Relabel
  <2>1. PICK l \in Labels : labels' = IF l \in labels THEN labels \ {l} ELSE labels \cup {l}
        BY <1>1 DEF Relabel
  <2>2. relabels' \in 0 .. MaxRelabels
        BY <1>1, RoutingAssumption DEF Relabel, RestOK
  <2> QED
        BY <1>1, <2>1, <2>2 DEF Relabel, RestOK, answers
<1>2. CASE Load
  <2>1. PICK ok \in BOOLEAN :
           /\ seen' = IF ok THEN labels ELSE None
           /\ \/ phase' = "done" /\ woke' = woke \cup {"abort"}
              \/ phase' = "grant" /\ woke' = woke
        BY <1>2 DEF Load
  <2> QED
        BY <1>2, <2>1 DEF Load, RestOK, github, answers, Phases, Effects
<1>3. CASE dispatchGrant
  <2>1. grant' \subseteq {"review", "pull_request", "comment"}
        BY <1>3, Grants DEF dispatchGrant
  <2> QED
        BY <1>3, <2>1 DEF dispatchGrant, RestOK, github, answers, Phases
<1>4. CASE deliverableIsPlan
      BY <1>4 DEF deliverableIsPlan, RestOK, github, Phases
<1>5. CASE buildEnvelope
      BY <1>5 DEF buildEnvelope, RestOK, github, Phases
<1>6. CASE buildWorkerAsk
      BY <1>6 DEF buildWorkerAsk, RestOK, github, Phases
<1>7. CASE Send
  <2>1. woke' \subseteq Effects
        BY <1>7 DEF Send, RestOK, Effects
  <2> QED
        BY <1>7, <2>1 DEF Send, RestOK, github, answers, Phases
<1> QED
      BY <1>1, <1>2, <1>3, <1>4, <1>5, <1>6, <1>7

LEMMA StepRest == ASSUME RestOK, [Next]_vars PROVE RestOK'
<1>1. CASE Next
      BY <1>1, CommentRest, PullRequestRest, ReviewRest, OwnPRRest, IssuesRest, RunRest DEF Next
<1>2. CASE UNCHANGED vars
      BY <1>2 DEF vars, RestOK
<1> QED
      BY <1>1, <1>2

-----------------------------------------------------------------------------
(* The theorems.                                                            *)

(* The state is of its types, and from the dispatch on there is a payload,  *)
(* which the grant and every classification read (webhook.go 691).          *)
THEOREM TypeCorrect == Spec => []TypeOK
<1>1. RestOK /\ [Next]_vars => RestOK'
      BY StepRest
<1>2. Inv /\ RestOK => TypeOK
      BY DEF Inv, RestOK, TypeOK, Phases, Dispatched, Marked, Asking
<1> QED
      BY Invariance, InitRest, <1>1, <1>2, PTL DEF Spec

(* Nobody outside allowed_users sets off a run but an automatic review, a   *)
(* merge by label, or a heal, whichever triggers are configured             *)
(* (isInvokerAllowed at every handler that acts on somebody's word).        *)
THEOREM OutsidersReviewOnly == Spec => []OutsiderGetsReviewOnly
<1>1. Inv => OutsiderGetsReviewOnly
      BY DEF Inv, OutsiderInv, OutsiderGetsReviewOnly, Dispatched, Marked, Asking
<1> QED
      BY Invariance, <1>1, PTL

(* On an issue the mark, the orchestrator and the workers follow the one    *)
(* answer the dispatch keeps (classifyIssueDeliverableCached).              *)
THEOREM OneAnswer == Spec => []OneReading
<1>1. Inv => OneReading
      BY DEF Inv, ReadingInv, OneReading, Unlabelled, Implements, Dispatched, Marked, Asking
<1> QED
      BY Invariance, <1>1, PTL

(* A comment asks for no pull request, and with push rights for no review,  *)
(* that the grant withholds (classifyGrantedPRDeliverable).                 *)
THEOREM AsksWithinGrant == Spec => []CommentAsksWithinGrant
<1>1. Inv => CommentAsksWithinGrant
      BY DEF Inv, GrantInv, CommentAsksWithinGrant, Allowed, Dispatched, Marked, Asking
<1> QED
      BY Invariance, <1>1, PTL
================================================================================
