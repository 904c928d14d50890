------------------------------- MODULE Delivery -------------------------------
(***************************************************************************)
(* What becomes of a run's staged work (src/github/tools.go, app.go).      *)
(*                                                                         *)
(* quack hands Deliver the items of one revision of an artifact: a pull    *)
(* request, a review, a comment.  Each is posted on its own, past errors   *)
(* of the others, and nothing posted is ever taken back.  What stops a     *)
(* second delivery from posting twice is only what can be found on GitHub: *)
(* a key in a review, a marker in a comment, an open pull request; and a   *)
(* list call sees no more than its first page.                             *)
(***************************************************************************)
EXTENDS Naturals, Sequences, FiniteSets

CONSTANTS None,
          Page,          \* entries of a list's first page: 100 in the code
          MaxRevisions,  \* bound on the artifact's revisions
          MaxOthers,     \* bound on posts of other people
          MaxCrashes     \* bound on crashes of the process

ASSUME BoundsAssumption ==
    /\ Page \in Nat /\ MaxRevisions \in Nat
    /\ MaxOthers \in Nat /\ MaxCrashes \in Nat

Revisions == 1 .. MaxRevisions
Kinds == {"pr", "review", "comment"}
Places == {"issue", "pr"}

\* The staged items, in the order they are delivered.
ItemLists == {s \in UNION {[1 .. n -> Kinds] : n \in 0 .. 3} :
                 \A i, j \in DOMAIN s : i # j => s[i] # s[j]}

VARIABLES
    prOpen,    \* GitHub: the branch has an open pull request
    reviews,   \* GitHub: the reviews, oldest first; rev 0: somebody else's
    comments,  \* GitHub: the comments, oldest first; rev 0: somebody else's
    job,       \* the host's durable record of the delivery it owes
    call,      \* the Deliver under way
    record,    \* deliveryResults: what RunEnded will take
    recovered, \* history: revisions taken for delivered after a crash
    blind,     \* history: a comment was posted after its lookup failed
    others, crashes

vars == <<prOpen, reviews, comments, job, call, record, recovered, blind,
          others, crashes>>

github == <<prOpen, reviews, comments>>
history == <<recovered, blind>>

\* todo: the items not delivered yet; at: the number the session is about,
\* then the pull request this call opened; submit: the review's turn is half done.
Call == [todo : ItemLists, at : Places, err : BOOLEAN, review : BOOLEAN,
         submit : BOOLEAN]

Job == [rev : Revisions, items : ItemLists, at : Places, title : BOOLEAN,
        state : {"due", "running", "lost", "settled"}]

\* "No delivery owed" and "no call" are told apart from every one.
ASSUME NoneAssumption == None \notin Job \cup Call

TypeOK ==
    /\ prOpen \in BOOLEAN
    /\ \A i \in DOMAIN reviews :
          reviews[i] \in [rev : 0 .. MaxRevisions, hidden : BOOLEAN]
    /\ \A i \in DOMAIN comments :
          comments[i] \in [rev : 0 .. MaxRevisions, at : Places]
    /\ job \in Job \cup {None}
    /\ call \in Call \cup {None}
    /\ call # None <=> (job # None /\ job.state = "running")
    /\ record \in [rev : Revisions, err : BOOLEAN, review : BOOLEAN] \cup {None}
    /\ recovered \subseteq Revisions
    /\ blind \in BOOLEAN
    /\ others \in 0 .. MaxOthers
    /\ crashes \in 0 .. MaxCrashes

Init ==
    /\ prOpen \in BOOLEAN
    /\ reviews = <<>> /\ comments = <<>>
    /\ job = None /\ call = None /\ record = None
    /\ recovered = {} /\ blind = FALSE
    /\ others = 0 /\ crashes = 0

-----------------------------------------------------------------------------
(* Lists and posts.  A GET is retried by the transport and may still fail.   *)
(* A request that changes state is sent again only if it provably was not    *)
(* sent: it lands once or not at all, and the answer of one that landed may  *)
(* be lost, which the caller takes for a failure.                            *)

FirstPage(list) == SubSeq(list, 1, IF Len(list) < Page THEN Len(list) ELSE Page)

PostResults == {[landed |-> TRUE, ok |-> TRUE], [landed |-> TRUE, ok |-> FALSE],
                [landed |-> FALSE, ok |-> FALSE]}

\* Other people post too.
PostsOther ==
    /\ others < MaxOthers
    /\ others' = others + 1
    /\ \/ /\ prOpen
          /\ reviews' = Append(reviews, [rev |-> 0, hidden |-> FALSE])
          /\ UNCHANGED comments
       \/ /\ \E at \in Places :
                /\ at = "pr" => prOpen
                /\ comments' = Append(comments, [rev |-> 0, at |-> at])
          /\ UNCHANGED reviews
    /\ UNCHANGED <<prOpen, job, call, record, history, crashes>>

-----------------------------------------------------------------------------
(* The host.                                                                *)

\* A run is staged and gated: its items are the next revision of the artifact.
Stage(items, at, title) ==
    /\ job # None => job.state \in {"settled", "lost"}
    /\ LET rev == IF job = None THEN 1 ELSE job.rev + 1
       IN  /\ rev \in Revisions
           /\ job' = [rev |-> rev, items |-> items, at |-> at, title |-> title,
                      state |-> "due"]
    /\ at = "pr" => prOpen
    /\ record' = None     \* RunEnded of the run before has taken it
    /\ UNCHANGED <<github, call, history, others, crashes>>

\* The process dies: what Deliver had done stays, what it knew is gone.
Crash ==
    /\ crashes < MaxCrashes
    /\ crashes' = crashes + 1
    /\ call' = None /\ record' = None
    /\ job' = IF job # None /\ job.state = "running"
              THEN [job EXCEPT !.state = "lost"] ELSE job
    /\ UNCHANGED <<github, history, others>>

\* mutant of RecoverDelivery: the key is compared with the revision before
RecoverDelivery_OldKey ==
    /\ job # None /\ job.state = "lost" /\ job.at = "pr"
    /\ LET found == \E i \in DOMAIN FirstPage(reviews) : reviews[i].rev = job.rev - 1
       IN  /\ job' = [job EXCEPT !.state = IF found THEN "settled" ELSE "due"]
           /\ recovered' = IF found THEN recovered \cup {job.rev} ELSE recovered
    /\ UNCHANGED <<github, call, record, blind, others, crashes>>

\* RecoverDelivery: a review that carries the key settles the whole delivery;
\* without one it is delivered again.  A list that fails, as that of an issue's
\* reviews does, leaves it owed until a later revision takes its place.
RecoverDelivery ==
    /\ job # None /\ job.state = "lost" /\ job.at = "pr"
    /\ LET found == \E i \in DOMAIN FirstPage(reviews) : reviews[i].rev = job.rev
       IN  /\ job' = [job EXCEPT !.state = IF found THEN "settled" ELSE "due"]
           /\ recovered' = IF found THEN recovered \cup {job.rev} ELSE recovered
    /\ UNCHANGED <<github, call, record, blind, others, crashes>>

-----------------------------------------------------------------------------
(* Deliver.                                                                 *)

Settle(err, review) ==
    /\ job' = [job EXCEPT !.state = "settled"]
    /\ record' = [rev |-> job.rev, err |-> err, review |-> review]
    /\ call' = None

\* Nothing staged, or the push failed or is not on GitHub: no item is tried.
DeliverNothing ==
    /\ job # None /\ job.state = "due"
    /\ Settle(job.items # <<>>, FALSE)
    /\ UNCHANGED <<github, history, others, crashes>>

Deliver ==
    /\ job # None /\ job.state = "due"
    /\ job.items # <<>>
    /\ job' = [job EXCEPT !.state = "running"]
    /\ call' = [todo |-> job.items, at |-> job.at, err |-> FALSE,
                review |-> FALSE, submit |-> FALSE]
    /\ UNCHANGED <<github, record, history, others, crashes>>

Turn(kind) == call # None /\ call.todo # <<>> /\ Head(call.todo) = kind

\* mutant of ItemDone: the last item's error replaces the ones before
ItemDone_LastError(kind, ok, at) ==
    call' = [call EXCEPT !.todo = Tail(@), !.err = ~ok, !.submit = FALSE,
                         !.at = at, !.review = @ \/ (ok /\ kind = "review")]

\* mutant of ItemDone: what follows the pull request still goes to the issue
ItemDone_Unrouted(kind, ok, at) ==
    call' = [call EXCEPT !.todo = Tail(@), !.err = @ \/ ~ok, !.submit = FALSE,
                         !.review = @ \/ (ok /\ kind = "review")]

\* An item's error is kept and the next item is tried.
ItemDone(kind, ok, at) ==
    call' = [call EXCEPT !.todo = Tail(@), !.err = @ \/ ~ok, !.submit = FALSE,
                         !.at = at, !.review = @ \/ (ok /\ kind = "review")]

\* openOrUpdatePullRequest: an open one is updated, and only if the lookup
\* fails or finds none is one opened; GitHub allows one per branch.
DeliverPR ==
    /\ Turn("pr")
    /\ \E lookup \in BOOLEAN, post \in PostResults :
          LET update == lookup /\ prOpen
              opens  == ~update /\ job.title /\ ~prOpen /\ post.landed
              ok     == post.ok /\ (update \/ opens)
          IN  /\ prOpen' = (prOpen \/ opens)
              /\ ItemDone("pr", ok, IF ok THEN "pr" ELSE call.at)
    /\ UNCHANGED <<reviews, comments, job, record, recovered, blind, others, crashes>>

\* collapsePriorReviews: each review of quack's on the page is hidden, if that
\* succeeds, before the new one is submitted.
CollapsePriorReviews ==
    /\ Turn("review") /\ ~call.submit
    /\ call.at = "pr"
    /\ \E S \in SUBSET {i \in DOMAIN FirstPage(reviews) : reviews[i].rev # 0} :
          reviews' = [i \in DOMAIN reviews |->
                         IF i \in S THEN [reviews[i] EXCEPT !.hidden = TRUE]
                                    ELSE reviews[i]]
    /\ call' = [call EXCEPT !.submit = TRUE]
    /\ UNCHANGED <<prOpen, comments, job, record, history, others, crashes>>

\* submitReview: a review refused for its anchors is submitted again without.
SubmitReview ==
    /\ Turn("review")
    /\ call.submit \/ call.at = "issue"
    /\ \E post \in PostResults :
          LET lands == call.at = "pr" /\ post.landed
          IN  /\ reviews' = IF lands
                            THEN Append(reviews, [rev |-> job.rev, hidden |-> FALSE])
                            ELSE reviews
              /\ ItemDone("review", lands /\ post.ok, call.at)
    /\ UNCHANGED <<prOpen, comments, job, record, recovered, blind, others, crashes>>

CommentsAt(at) == {i \in DOMAIN comments : comments[i].at = at}

\* findQuackComment: those on the first page that carry the slot's marker.
FindQuackComment(at) ==
    {i \in CommentsAt(at) : /\ comments[i].rev # 0
                            /\ Cardinality({j \in CommentsAt(at) : j <= i}) <= Page}

\* deliverStagedComment: the slot's comment is edited; a lookup that finds none,
\* or fails, posts a new one.
DeliverComment ==
    /\ Turn("comment")
    /\ \E lookup \in BOOLEAN, post \in PostResults :
          LET found == IF lookup THEN FindQuackComment(call.at) ELSE {}
              new   == [rev |-> job.rev, at |-> call.at]
          IN  /\ \/ ~post.landed /\ comments' = comments
                 \/ /\ post.landed /\ found = {}
                    /\ comments' = Append(comments, new)
                 \/ /\ post.landed /\ found # {}
                    /\ LET i == CHOOSE i \in found : \A j \in found : i <= j
                       IN  comments' = [comments EXCEPT ![i] = new]
              /\ blind' = (blind \/ (~lookup /\ post.landed))
              /\ ItemDone("comment", post.ok, call.at)
    /\ UNCHANGED <<prOpen, reviews, job, record, recovered, others, crashes>>

\* recordDelivery: the errors joined, and whether a review was delivered.
RecordDelivery ==
    /\ call # None /\ call.todo = <<>>
    /\ Settle(call.err, call.review)
    /\ UNCHANGED <<github, history, others, crashes>>

Next ==
    \/ PostsOther
    \/ \E items \in ItemLists, at \in Places, title \in BOOLEAN : Stage(items, at, title)
    \/ Crash
    \/ RecoverDelivery
    \/ DeliverNothing
    \/ Deliver
    \/ DeliverPR
    \/ CollapsePriorReviews
    \/ SubmitReview
    \/ DeliverComment
    \/ RecordDelivery

Spec == Init /\ [][Next]_vars

-----------------------------------------------------------------------------
Posted(rev, kind) ==
    CASE kind = "pr"      -> prOpen
      [] kind = "review"  -> \E i \in DOMAIN reviews : reviews[i].rev = rev
      [] kind = "comment" -> \E i \in DOMAIN comments : comments[i].rev >= rev

(***************************************************************************)
(* A delivery recorded without an error left every item on GitHub, this    *)
(* revision's or a later one's, and one that is said to have delivered a   *)
(* review did so, whatever else failed (Deliver, RunEnded).                *)
(***************************************************************************)
OutcomeIsTrue ==
    record # None =>
        /\ ~record.err => \A i \in DOMAIN job.items : Posted(record.rev, job.items[i])
        /\ record.review => Posted(record.rev, "review")

\* A revision has one review, as long as the reviews fit a page.
OneReviewPerKey ==
    \A rev \in Revisions :
        Cardinality({i \in DOMAIN reviews : reviews[i].rev = rev}) > 1
            => Len(reviews) > Page

\* A slot has one comment in each place; a second one comes only of a lookup
\* that failed or did not reach past the first page.
OneCommentPerSlot ==
    \A at \in Places :
        Cardinality({i \in CommentsAt(at) : comments[i].rev # 0}) > 1
            => blind \/ Cardinality(CommentsAt(at)) > Page

(***************************************************************************)
(* Crashes, lost answers and retries notwithstanding, a revision's review  *)
(* is on the pull request once and revisions of a slot's comment edit the  *)
(* one there is, in the issue and in the pull request (RecoverDelivery,    *)
(* deliverStagedComment).                                                  *)
(***************************************************************************)
NothingPostedTwice == OneReviewPerKey /\ OneCommentPerSlot

(***************************************************************************)
(* What a delivery posts after its pull request goes to that pull request, *)
(* not to the issue the session is about (Deliver's dc.IssueNumber).       *)
(***************************************************************************)
FollowsItsPR ==
    record # None /\ ~record.err =>
        \A i, j \in DOMAIN job.items :
            i < j /\ job.items[i] = "pr" /\ job.items[j] = "comment"
                => \E k \in CommentsAt("pr") : comments[k].rev >= record.rev

-----------------------------------------------------------------------------
(***************************************************************************)
(* What comments of the code say, which it does not always do.             *)
(***************************************************************************)

\* "marker makes revise-before-post idempotent" (src/github/tools.go:449): it
\* does on the first page of comments only.
RevisesItsComment ==
    blind \/ \A at \in Places :
        Cardinality({i \in CommentsAt(at) : comments[i].rev # 0}) <= 1

\* "found=true, don't redeliver" (src/github/tools.go:314): the items after the
\* review are then never delivered.
NoItemForgotten ==
    job # None /\ job.state = "settled" /\ job.rev \in recovered
        => \A i \in DOMAIN job.items : Posted(job.rev, job.items[i])

=============================================================================
