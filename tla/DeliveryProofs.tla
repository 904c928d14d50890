--------------------------- MODULE DeliveryProofs ---------------------------
(***************************************************************************)
(* Proofs about Delivery.                                                  *)
(***************************************************************************)
EXTENDS Delivery, SequenceTheorems, FiniteSetTheorems, WellFoundedInduction, TLAPS

Review == [rev : 0 .. MaxRevisions, hidden : BOOLEAN]
Remark == [rev : 0 .. MaxRevisions, at : Places]

\* How many of the items have had their turn.
Tried == Len(job.items) - Len(call.todo)

\* What is left of the items are the last ones, in their order.
Suffix == call # None => /\ Len(call.todo) <= Len(job.items)
                         /\ call.todo = SubSeq(job.items, Tried + 1, Len(job.items))

TypeInv == /\ TypeOK
           /\ reviews \in Seq(Review)
           /\ comments \in Seq(Remark)
           /\ Suffix

\* The items of a delivery are a short list of different kinds.
LEMMA ItemsType ==
    ASSUME NEW s \in ItemLists
    PROVE  /\ s \in Seq(Kinds) /\ Len(s) \in 0 .. 3 /\ DOMAIN s = 1 .. Len(s)
           /\ \A i, j \in 1 .. Len(s) : i # j => s[i] # s[j]
<1>1. PICK n \in 0 .. 3 : s \in [1 .. n -> Kinds]
  BY DEF ItemLists
<1>2. s \in Seq(Kinds) /\ Len(s) = n
  BY <1>1
<1>3. QED
  BY <1>1, <1>2 DEF ItemLists

\* What is left of such a list is one.
LEMMA TailItems ==
    ASSUME NEW s \in ItemLists, s # <<>>
    PROVE  Tail(s) \in ItemLists
<1>1. PICK n \in 0 .. 3 : s \in [1 .. n -> Kinds]
  BY DEF ItemLists
<1>2. s \in Seq(Kinds) /\ Len(s) = n /\ n # 0
  BY <1>1, EmptySeq
<1>3. /\ Tail(s) \in Seq(Kinds) /\ Len(Tail(s)) = n - 1
      /\ \A i \in 1 .. Len(Tail(s)) : Tail(s)[i] = s[i + 1]
  BY <1>2, HeadTailProperties
<1>4. n - 1 \in 0 .. 3 /\ Tail(s) \in [1 .. n - 1 -> Kinds] /\ DOMAIN Tail(s) = 1 .. n - 1
  <2> DEFINE t == Tail(s)
             k == n - 1
  <2>1. k \in 0 .. 3
    BY <1>1, <1>2
  <2>2. t \in Seq(Kinds) /\ Len(t) = k
    BY <1>3
  <2> HIDE DEF t, k
  <2>3. t \in [1 .. k -> Kinds] /\ DOMAIN t = 1 .. k
    BY <2>2, LenProperties
  <2>4. QED
    BY <2>1, <2>3 DEF t, k
<1>5. \A i, j \in 1 .. n : i # j => s[i] # s[j]
  BY <1>1 DEF ItemLists
<1>6. \A i, j \in DOMAIN Tail(s) : i # j => Tail(s)[i] # Tail(s)[j]
  <2> TAKE i, j \in DOMAIN Tail(s)
  <2>1. /\ i + 1 \in 1 .. n /\ j + 1 \in 1 .. n
        /\ Tail(s)[i] = s[i + 1] /\ Tail(s)[j] = s[j + 1]
    <3>1. i \in 1 .. n - 1 /\ j \in 1 .. n - 1
      BY <1>4
    <3>2. i + 1 \in 1 .. n /\ j + 1 \in 1 .. n
      BY <1>1, <3>1
    <3>3. QED
      BY <1>3, <3>1, <3>2
  <2>2. i \in Int /\ j \in Int
    BY <1>4
  <2>3. QED
    BY <1>5, <2>1, <2>2
<1>7. QED
  BY <1>4, <1>6 DEF ItemLists

\* One turn takes the first item that is left and leaves the rest.
LEMMA TurnTakesHead ==
    ASSUME NEW s \in Seq(Kinds), NEW d \in 0 .. Len(s), NEW todo,
           todo = SubSeq(s, d + 1, Len(s))
    PROVE  /\ todo \in Seq(Kinds)
           /\ Len(todo) = Len(s) - d
           /\ todo # <<>> => /\ d < Len(s)
                             /\ Head(todo) = s[d + 1]
                             /\ Tail(todo) = SubSeq(s, d + 2, Len(s))
                             /\ Tail(todo) \in Seq(Kinds)
                             /\ Len(Tail(todo)) = Len(s) - (d + 1)
<1>1. Len(s) \in Nat /\ \A i \in (d + 1) .. Len(s) : s[i] \in Kinds
  OBVIOUS
<1>2. todo \in Seq(Kinds) /\ Len(todo) = Len(s) - d
  BY <1>1, SubSeqProperties
<1>3. ASSUME todo # <<>> PROVE d < Len(s)
  BY <1>1, <1>2, <1>3, EmptySeq
<1>4. ASSUME todo # <<>>
      PROVE  Head(todo) = s[d + 1] /\ Tail(todo) = SubSeq(s, d + 2, Len(s))
  <2>1. d + 1 \in 1 .. Len(s) /\ Len(s) \in (d + 1) .. Len(s) /\ (d + 1) + 1 = d + 2
    BY <1>1, <1>3, <1>4
  <2>2. QED
    BY <2>1, HeadTailOfSubSeq
<1>5. ASSUME todo # <<>> PROVE Tail(todo) \in Seq(Kinds) /\ Len(Tail(todo)) = Len(s) - (d + 1)
  BY <1>1, <1>2, <1>5, HeadTailProperties
<1>6. QED
  BY <1>2, <1>3, <1>4, <1>5

\* A set of which any two elements are one has one element at most.
LEMMA AtMostOne ==
    ASSUME NEW S, IsFiniteSet(S), Cardinality(S) > 1
    PROVE  \E x, y \in S : x # y
<1> SUFFICES ASSUME \A x, y \in S : x = y PROVE FALSE
  OBVIOUS
<1>1. CASE S = {}
  BY <1>1, FS_EmptySet
<1>2. ASSUME NEW x \in S PROVE FALSE
  <2>1. S = {x}
    OBVIOUS
  <2>2. QED
    BY <2>1, FS_Singleton
<1>3. QED
  BY <1>1, <1>2

\* What a turn does to the call, for each of the three kinds of items.
LEMMA TurnType ==
    ASSUME TypeInv, NEW kind \in Kinds, Turn(kind), NEW ok \in BOOLEAN, NEW at \in Places,
           ItemDone(kind, ok, at), job' = job
    PROVE  /\ call # None /\ job \in Job /\ job # None /\ job.state = "running"
           /\ Tried \in 0 .. (Len(job.items) - 1) /\ job.items[Tried + 1] = kind
           /\ call' \in Call /\ call' # None /\ Suffix' /\ Tried' = Tried + 1
           /\ call'.at = at /\ call'.err = (call.err \/ ~ok)
           /\ call'.review = (call.review \/ (ok /\ kind = "review"))
<1> DEFINE d == Tried
<1>1. call # None /\ call \in Call /\ job # None /\ job.state = "running" /\ job \in Job
  BY DEF TypeInv, TypeOK, Turn
<1>2. job.items \in ItemLists /\ call.todo # <<>> /\ Head(call.todo) = kind
  BY <1>1 DEF Job, Turn
<1>3. job.items \in Seq(Kinds) /\ Len(job.items) \in 0 .. 3
  BY <1>2, ItemsType
<1>4. Len(call.todo) \in Nat /\ d \in 0 .. Len(job.items)
      /\ call.todo = SubSeq(job.items, d + 1, Len(job.items))
  <2>1. Len(call.todo) <= Len(job.items)
        /\ call.todo = SubSeq(job.items, d + 1, Len(job.items))
    BY <1>1 DEF TypeInv, Suffix
  <2>2. Len(call.todo) \in Nat
    BY <1>1, ItemsType DEF Call
  <2>3. Len(call.todo) <= Len(job.items)
    BY <2>1
  <2>4. d \in 0 .. Len(job.items)
    <3>1. \A m \in Nat, n \in Nat : n <= m => m - n \in 0 .. m
      OBVIOUS
    <3>2. Len(job.items) \in Nat
      BY <1>3
    <3>3. QED
      BY <2>2, <2>3, <3>1, <3>2 DEF Tried
  <2>5. QED
    BY <2>1, <2>2, <2>4
<1>5. /\ d < Len(job.items) /\ kind = job.items[d + 1]
      /\ Tail(call.todo) = SubSeq(job.items, d + 2, Len(job.items))
      /\ Len(Tail(call.todo)) = Len(job.items) - (d + 1)
  <2> HIDE DEF d
  <2>1. QED
    BY <1>2, <1>3, <1>4, TurnTakesHead
<1>6. call' = [call EXCEPT !.todo = Tail(call.todo), !.err = call.err \/ ~ok, !.submit = FALSE,
                           !.at = at, !.review = call.review \/ (ok /\ kind = "review")]
  BY DEF ItemDone
<1>7. /\ call'.todo = Tail(call.todo) /\ call'.at = at /\ call'.err = (call.err \/ ~ok)
      /\ call'.review = (call.review \/ (ok /\ kind = "review")) /\ call' \in Call
  <2>1. Tail(call.todo) \in ItemLists
    BY <1>1, <1>2, TailItems DEF Call
  <2>2. QED
    BY <1>1, <1>6, <2>1 DEF Call
<1>8. call' # None
  BY <1>7, NoneAssumption
<1>9. Tried' = d + 1
  <2>1. job'.items = job.items /\ Len(call'.todo) = Len(job.items) - (d + 1)
    BY <1>5, <1>7
  <2>2. QED
    BY <1>3, <1>4, <2>1 DEF Tried
<1>10. Suffix'
  <2>1. Tried' + 1 = d + 2 /\ job'.items = job.items
    BY <1>3, <1>4, <1>9
  <2>2. Len(call'.todo) <= Len(job'.items)
    BY <1>3, <1>4, <1>5, <1>7, <2>1
  <2>3. QED
    BY <1>5, <1>7, <2>1, <2>2 DEF Suffix
<1>11. QED
  BY <1>1, <1>3, <1>4, <1>5, <1>7, <1>8, <1>9, <1>10

\* One more entry at the end of a list.
LEMMA Longer ==
    ASSUME NEW S, NEW list \in Seq(S), NEW e \in S
    PROVE  /\ Append(list, e) \in Seq(S)
           /\ DOMAIN list = 1 .. Len(list)
           /\ DOMAIN Append(list, e) = 1 .. (Len(list) + 1)
           /\ Len(Append(list, e)) = Len(list) + 1
           /\ \A i \in 1 .. Len(list) : Append(list, e)[i] = list[i]
           /\ Append(list, e)[Len(list) + 1] = e
  BY AppendProperties, LenProperties

\* The list of reviews after each hidden one is marked.
LEMMA Collapsed ==
    ASSUME reviews \in Seq(Review), NEW S,
           reviews' = [i \in DOMAIN reviews |-> IF i \in S THEN [reviews[i] EXCEPT !.hidden = TRUE]
                                                ELSE reviews[i]]
    PROVE  /\ reviews' \in Seq(Review)
           /\ DOMAIN reviews' = DOMAIN reviews /\ Len(reviews') = Len(reviews)
           /\ \A i \in DOMAIN reviews : reviews'[i].rev = reviews[i].rev
<1>1. Len(reviews) \in Nat /\ DOMAIN reviews = 1 .. Len(reviews)
      /\ \A i \in DOMAIN reviews : reviews[i] \in Review
  BY LenProperties, ElementOfSeq
<1>2. \A i \in DOMAIN reviews : reviews'[i] \in Review /\ reviews'[i].rev = reviews[i].rev
  BY <1>1 DEF Review
<1>3. reviews' \in [1 .. Len(reviews) -> Review]
  BY <1>1, <1>2
<1>4. reviews' \in Seq(Review) /\ Len(reviews') = Len(reviews)
  BY <1>1, <1>3, SeqDef, LenProperties
<1>5. QED
  BY <1>1, <1>2, <1>4

-----------------------------------------------------------------------------

\* An entry of a list is an entry.
LEMMA Entries ==
    ASSUME TypeInv
    PROVE  /\ DOMAIN reviews = 1 .. Len(reviews) /\ Len(reviews) \in Nat
           /\ \A i \in DOMAIN reviews : reviews[i] \in Review
           /\ DOMAIN comments = 1 .. Len(comments) /\ Len(comments) \in Nat
           /\ \A i \in DOMAIN comments : comments[i] \in Remark
  BY LenProperties, ElementOfSeq DEF TypeInv

\* An element of a typed list is typed.
LEMMA ListsTyped ==
    ASSUME NEW s \in Seq(Review), NEW t \in Seq(Remark)
    PROVE  /\ \A i \in DOMAIN s : s[i] \in [rev : 0 .. MaxRevisions, hidden : BOOLEAN]
           /\ \A i \in DOMAIN t : t[i] \in [rev : 0 .. MaxRevisions, at : Places]
  BY LenProperties, ElementOfSeq DEF Review, Remark

\* An answer that says a post succeeded is of one that landed.
LEMMA PostType ==
    \A post \in PostResults :
        post.ok \in BOOLEAN /\ post.landed \in BOOLEAN /\ (post.ok => post.landed)
<1> TAKE post \in PostResults
<1>1. CASE post = [landed |-> TRUE, ok |-> TRUE]
  BY <1>1
<1>2. CASE post = [landed |-> TRUE, ok |-> FALSE]
  BY <1>2
<1>3. CASE post = [landed |-> FALSE, ok |-> FALSE]
  BY <1>3
<1>4. QED
  BY <1>1, <1>2, <1>3 DEF PostResults

\* What a step does to the lists on GitHub: it may mark reviews, edit a comment
\* of quack's in its place, and add one entry at an end.
Marked == /\ DOMAIN reviews' = DOMAIN reviews /\ Len(reviews') = Len(reviews)
          /\ \A i \in DOMAIN reviews : reviews'[i].rev = reviews[i].rev
Added(list, next, e) ==
    /\ DOMAIN next = 1 .. (Len(list) + 1) /\ Len(next) = Len(list) + 1
    /\ DOMAIN list = 1 .. Len(list)
    /\ \A i \in DOMAIN list : next[i] = list[i]
    /\ next[Len(list) + 1] = e
Edited(e) ==
    /\ DOMAIN comments' = DOMAIN comments
    /\ \E i \in DOMAIN comments :
          /\ comments[i].at = e.at /\ comments[i].rev # 0 /\ comments'[i] = e
          /\ \A k \in DOMAIN comments : k # i => comments'[k] = comments[k]

\* A set of numbers that is not empty has a least one.
LEMMA LeastExists ==
    ASSUME NEW S \in SUBSET Nat, S # {}
    PROVE  \E m \in S : \A j \in S : m <= j
<1>1. PICK m \in S : \A y \in S : ~ (<<y, m>> \in OpToRel(<, Nat))
  BY NatLessThanWellFounded, WFMin
<1>2. \A y \in S : y \in Nat /\ m \in Nat /\ ~ (y < m)
  BY <1>1 DEF OpToRel
<1>3. \A y \in S : m <= y
  BY <1>2
<1>4. QED
  BY <1>3

\* The delivery under way posts its own revision, to the place it has got to.
LEMMA CommentTurn ==
    ASSUME TypeInv, DeliverComment
    PROVE  LET new == [rev |-> job.rev, at |-> call.at]
           IN  /\ comments' \in Seq(Remark)
               /\ \E lookup \in BOOLEAN, post \in PostResults :
                     /\ \/ ~post.landed /\ comments' = comments
                        \/ post.landed /\ Added(comments, comments', new)
                             /\ (lookup => FindQuackComment(call.at) = {})
                        \/ post.landed /\ Edited(new)
                     /\ blind' = (blind \/ (~lookup /\ post.landed))
                     /\ ItemDone("comment", post.ok, call.at)
<1> DEFINE new == [rev |-> job.rev, at |-> call.at]
<1>1. PICK lookup \in BOOLEAN, post \in PostResults :
         LET found == IF lookup THEN FindQuackComment(call.at) ELSE {}
         IN  /\ \/ ~post.landed /\ comments' = comments
                \/ /\ post.landed /\ found = {}
                   /\ comments' = Append(comments, new)
                \/ /\ post.landed /\ found # {}
                   /\ LET i == CHOOSE i \in found : \A j \in found : i <= j
                      IN  comments' = [comments EXCEPT ![i] = new]
             /\ blind' = (blind \/ (~lookup /\ post.landed))
             /\ ItemDone("comment", post.ok, call.at)
  BY DEF DeliverComment
<1>2. call # None /\ job \in Job /\ call \in Call /\ comments \in Seq(Remark)
  BY DEF DeliverComment, Turn, TypeInv, TypeOK
<1>3. new \in Remark
  BY <1>2 DEF Job, Call, Remark, Revisions
<1> DEFINE found == IF lookup THEN FindQuackComment(call.at) ELSE {}
<1> HIDE DEF new
<1>4. CASE ~post.landed /\ comments' = comments
  BY <1>1, <1>2, <1>4 DEF new
<1>5. CASE post.landed /\ found = {} /\ comments' = Append(comments, new)
  <2>1. comments' \in Seq(Remark) /\ Added(comments, comments', new)
    BY <1>2, <1>3, <1>5, Longer DEF Added
  <2>2. QED
    BY <1>1, <1>5, <2>1 DEF new
<1>6. ASSUME post.landed, found # {},
             comments' = [comments EXCEPT ![CHOOSE i \in found : \A j \in found : i <= j] = new]
      PROVE  comments' \in Seq(Remark) /\ Edited(new)
  <2>1. found \subseteq {i \in DOMAIN comments : comments[i].at = call.at /\ comments[i].rev # 0}
    BY DEF FindQuackComment, CommentsAt
  <2>2. DOMAIN comments = 1 .. Len(comments) /\ Len(comments) \in Nat
    BY Entries
  <2>3. found \subseteq Nat /\ found # {}
    BY <1>6, <2>1, <2>2
  <2>4. \E m \in found : \A j \in found : m <= j
    BY <2>3, LeastExists
  <2>5. PICK k \in found : k = CHOOSE i \in found : \A j \in found : i <= j
    BY <2>4
  <2>6. k \in DOMAIN comments /\ comments[k].at = call.at /\ comments[k].rev # 0
    BY <2>1
  <2>7. comments' = [comments EXCEPT ![k] = new]
    BY <1>6, <2>5
  <2>8. /\ comments' \in Seq(Remark) /\ DOMAIN comments' = DOMAIN comments
        /\ comments'[k] = new
        /\ \A j \in DOMAIN comments : j # k => comments'[j] = comments[j]
    BY <1>2, <1>3, <2>2, <2>6, <2>7, ExceptSeq, LenProperties
  <2>9. QED
    BY <2>6, <2>8 DEF Edited, new
<1>7. CASE post.landed /\ Edited(new) /\ comments' \in Seq(Remark)
  BY <1>1, <1>7 DEF new
<1>8. QED
  BY <1>1, <1>4, <1>5, <1>6, <1>7

\* Every step keeps the types and the lists.
LEMMA TypeStep == ASSUME TypeInv, [Next]_vars PROVE TypeInv'
<1> USE BoundsAssumption, NoneAssumption
<1>0. /\ DOMAIN reviews = 1 .. Len(reviews) /\ DOMAIN comments = 1 .. Len(comments)
      /\ reviews \in Seq(Review) /\ comments \in Seq(Remark)
  BY Entries DEF TypeInv
<1>1. CASE PostsOther
  <2>1. [rev |-> 0, hidden |-> FALSE] \in Review /\ \A at \in Places : [rev |-> 0, at |-> at] \in Remark
    BY DEF Review, Remark
  <2>2. reviews' \in Seq(Review) /\ comments' \in Seq(Remark)
    <3>1. CASE reviews' = Append(reviews, [rev |-> 0, hidden |-> FALSE]) /\ comments' = comments
      BY <1>0, <2>1, <3>1, AppendProperties
    <3>2. ASSUME NEW at \in Places, comments' = Append(comments, [rev |-> 0, at |-> at]),
                 reviews' = reviews
          PROVE  reviews' \in Seq(Review) /\ comments' \in Seq(Remark)
      BY <1>0, <2>1, <3>2, AppendProperties
    <3>3. QED
      BY <1>1, <3>1, <3>2 DEF PostsOther
  <2>3. UNCHANGED <<prOpen, job, call, record, recovered, blind, crashes>> /\ others' \in 0 .. MaxOthers
    BY <1>1 DEF PostsOther, history, TypeInv, TypeOK
  <2>4. QED
    BY <2>2, <2>3, ListsTyped DEF TypeInv, TypeOK, Suffix, Tried
<1>2. ASSUME NEW items \in ItemLists, NEW at \in Places, NEW title \in BOOLEAN, Stage(items, at, title)
      PROVE  TypeInv'
  <2>1. job' \in Job /\ job'.state = "due" /\ call' = call /\ call = None
    BY <1>2 DEF Stage, Job, Revisions, TypeInv, TypeOK
  <2>2. QED
    BY <1>2, <2>1 DEF Stage, TypeInv, TypeOK, Suffix, github, history
<1>3. CASE Crash
  <2>1. /\ job' \in Job \cup {None} /\ ~ (job' # None /\ job'.state = "running")
        /\ call' = None /\ record' = None
    BY <1>3 DEF Crash, TypeInv, TypeOK, Job
  <2>2. crashes' \in 0 .. MaxCrashes
    BY <1>3 DEF Crash, TypeInv, TypeOK
  <2>3. QED
    BY <1>3, <2>1, <2>2 DEF Crash, TypeInv, TypeOK, Suffix, github, history
<1>4. CASE RecoverDelivery
  <2>1. job' \in Job /\ job'.state \in {"settled", "due"} /\ call = None /\ job \in Job
    BY <1>4 DEF RecoverDelivery, TypeInv, TypeOK, Job
  <2>2. recovered' \subseteq Revisions
    BY <1>4, <2>1 DEF RecoverDelivery, TypeInv, TypeOK, Job
  <2>3. QED
    BY <1>4, <2>1, <2>2 DEF RecoverDelivery, TypeInv, TypeOK, Suffix, github
<1>5. CASE DeliverNothing \/ RecordDelivery
  <2>1. /\ job \in Job /\ job # None
        /\ \E err, review \in BOOLEAN : Settle(err, review)
        /\ UNCHANGED <<prOpen, reviews, comments, recovered, blind, others, crashes>>
    BY <1>5 DEF DeliverNothing, RecordDelivery, TypeInv, TypeOK, Call, github, history
  <2>2. /\ job' \in Job /\ job'.state = "settled" /\ call' = None
        /\ record' \in [rev : Revisions, err : BOOLEAN, review : BOOLEAN]
    BY <2>1 DEF Settle, Job
  <2>3. QED
    BY <2>1, <2>2 DEF TypeInv, TypeOK, Suffix
<1>6. CASE Deliver
  <2>1. /\ job \in Job /\ job.items \in ItemLists /\ job' = [job EXCEPT !.state = "running"]
        /\ call' = [todo |-> job.items, at |-> job.at, err |-> FALSE,
                    review |-> FALSE, submit |-> FALSE]
    BY <1>6 DEF Deliver, TypeInv, TypeOK, Job
  <2>2. job' \in Job /\ job'.state = "running" /\ job'.items = job.items /\ call' \in Call
    BY <2>1 DEF Job, Call
  <2>3. call' # None /\ job' # None
    BY <2>2
  <2>4. Suffix'
    <3>1. job.items \in Seq(Kinds) /\ Len(job.items) \in Nat
      BY <2>1, ItemsType
    <3>2. Len(job.items) - Len(job.items) + 1 = 1 /\ job.items = SubSeq(job.items, 1, Len(job.items))
      BY <3>1, SubSeqFull
    <3>3. QED
      BY <2>1, <2>2, <3>1, <3>2 DEF Suffix, Tried
  <2>5. QED
    BY <1>6, <2>2, <2>3, <2>4 DEF Deliver, TypeInv, TypeOK, github, history
<1>7. CASE DeliverPR
  <2>1. PICK ok \in BOOLEAN, at \in Places : ItemDone("pr", ok, at) /\ prOpen' \in BOOLEAN
    BY <1>7 DEF DeliverPR, PostResults, TypeInv, TypeOK, Turn, Call, Places
  <2>2. call' \in Call /\ call' # None /\ Suffix' /\ job # None /\ job.state = "running"
    BY <1>7, <2>1, TurnType DEF DeliverPR, Kinds
  <2>3. QED
    BY <1>7, <2>1, <2>2 DEF DeliverPR, TypeInv, TypeOK
<1>8. CASE CollapsePriorReviews
  <2>1. reviews' \in Seq(Review)
    BY <1>0, <1>8, Collapsed DEF CollapsePriorReviews
  <2>2. call # None /\ job # None /\ call' \in Call /\ call' # None /\ call'.todo = call.todo
    BY <1>8 DEF CollapsePriorReviews, Turn, TypeInv, TypeOK, Call
  <2>3. QED
    BY <1>8, <2>1, <2>2, ListsTyped
       DEF CollapsePriorReviews, TypeInv, TypeOK, Suffix, Tried, history
<1>9. CASE SubmitReview
  <2>1. PICK ok \in BOOLEAN : ItemDone("review", ok, call.at)
    BY <1>9 DEF SubmitReview, PostResults
  <2>2. call.at \in Places /\ job \in Job
    BY <1>9 DEF SubmitReview, Turn, TypeInv, TypeOK, Call
  <2>3. call' \in Call /\ call' # None /\ Suffix' /\ job # None /\ job.state = "running"
    BY <1>9, <2>1, <2>2, TurnType DEF SubmitReview, Kinds
  <2>4. [rev |-> job.rev, hidden |-> FALSE] \in Review
    BY <2>2 DEF Job, Review, Revisions
  <2>5. reviews' \in Seq(Review)
    BY <1>0, <1>9, <2>4, AppendProperties DEF SubmitReview
  <2>6. QED
    BY <1>9, <2>3, <2>5, ListsTyped DEF SubmitReview, TypeInv, TypeOK
<1>10. CASE DeliverComment
  <2>1. comments' \in Seq(Remark)
    BY <1>10, CommentTurn
  <2>2. PICK lookup \in BOOLEAN, post \in PostResults :
             /\ blind' = (blind \/ (~lookup /\ post.landed))
             /\ ItemDone("comment", post.ok, call.at)
    BY <1>10, CommentTurn
  <2>3. post.ok \in BOOLEAN /\ call.at \in Places /\ blind' \in BOOLEAN
    BY <1>10, <2>2, PostType DEF DeliverComment, Turn, TypeInv, TypeOK, Call
  <2>4. call' \in Call /\ call' # None /\ Suffix' /\ job # None /\ job.state = "running"
    BY <1>10, <2>2, <2>3, TurnType DEF DeliverComment, Kinds
  <2>5. QED
    BY <1>10, <2>1, <2>3, <2>4, ListsTyped DEF DeliverComment, TypeInv, TypeOK
<1>11. CASE UNCHANGED vars
  BY <1>11 DEF vars, TypeInv, TypeOK, Suffix, Tried
<1>12. QED
  BY <1>1, <1>2, <1>3, <1>4, <1>5, <1>6, <1>7, <1>8, <1>9, <1>10, <1>11 DEF Next

\* Types are kept, and a list on GitHub is a list, for any number of revisions,
\* posts and crashes and any page.
THEOREM TypeCorrect == Spec => []TypeOK
<1>1. Init => TypeInv
  <2>1. /\ <<>> \in Seq(Review) /\ <<>> \in Seq(Remark) /\ DOMAIN <<>> = {}
        /\ 0 \in 0 .. MaxOthers /\ 0 \in 0 .. MaxCrashes
    BY BoundsAssumption, EmptySeq
  <2>2. QED
    BY <2>1 DEF Init, TypeInv, TypeOK, Suffix
<1>2. TypeInv /\ [Next]_vars => TypeInv'
  BY TypeStep
<1>3. TypeInv => TypeOK
  BY DEF TypeInv
<1>4. QED
  BY <1>1, <1>2, <1>3, PTL DEF Spec

-----------------------------------------------------------------------------
(***************************************************************************)
(* What is on GitHub stays there, so what is said of one item of a         *)
(* delivery when it is posted can be said of all of them at the end.  The  *)
(* invariant says it of the items that have had their turn.                *)
(***************************************************************************)

\* The revision the artifact is at.
Current == IF job = None THEN 0 ELSE job.rev

\* Nothing of a revision to come is on GitHub.
NotAhead == /\ \A i \in DOMAIN reviews : reviews[i].rev <= Current
            /\ \A i \in DOMAIN comments : comments[i].rev <= Current

\* The revision's comment, or a later one's, is in the pull request.
InPR(rev) == \E k \in CommentsAt("pr") : comments[k].rev >= rev

\* What the call under way has achieved so far, as far as it reports it.
Achieved ==
    call # None =>
        /\ call.review => Posted(job.rev, "review")
        /\ ~ call.err =>
              /\ \A i \in 1 .. Tried : Posted(job.rev, job.items[i])
              /\ \A i \in 1 .. Tried : job.items[i] = "pr" => call.at = "pr"
              /\ \A i, j \in 1 .. Tried :
                    i < j /\ job.items[i] = "pr" /\ job.items[j] = "comment" => InPR(job.rev)

\* A record is of the delivery that has been settled last.
Recorded ==
    record # None =>
        /\ job # None /\ job.state = "settled" /\ record.rev = job.rev
        /\ record.review => Posted(job.rev, "review")
        /\ ~ record.err =>
              /\ \A i \in DOMAIN job.items : Posted(job.rev, job.items[i])
              /\ \A i, j \in DOMAIN job.items :
                    i < j /\ job.items[i] = "pr" /\ job.items[j] = "comment" => InPR(job.rev)

OutcomeInv == TypeInv /\ NotAhead /\ Achieved /\ Recorded

\* Nothing on GitHub is closed, removed or replaced by something older.
Grows == /\ prOpen => prOpen'
         /\ Len(reviews) <= Len(reviews')
         /\ \A i \in DOMAIN reviews : i \in DOMAIN reviews' /\ reviews'[i].rev = reviews[i].rev
         /\ \A i \in DOMAIN comments : /\ i \in DOMAIN comments'
                                       /\ comments'[i].at = comments[i].at
                                       /\ comments'[i].rev >= comments[i].rev

\* No step but a review's turn and other people's posts adds a review, none but
\* a comment's turn and theirs a comment.
LEMMA OnlyTurnsPost ==
    ASSUME TypeInv, [Next]_vars
    PROVE  /\ reviews' = reviews \/ PostsOther \/ CollapsePriorReviews \/ SubmitReview
           /\ comments' = comments \/ PostsOther \/ DeliverComment
           /\ prOpen' = prOpen \/ DeliverPR
  BY DEF Next, vars, Stage, Crash, RecoverDelivery, DeliverNothing, Deliver, DeliverPR,
     CollapsePriorReviews, SubmitReview, DeliverComment, RecordDelivery, PostsOther, github

\* One step marks reviews, or adds one: the delivery's own or somebody else's.
LEMMA ReviewsStep ==
    ASSUME TypeInv, [Next]_vars
    PROVE  \/ Marked
           \/ \E e \in Review : /\ Added(reviews, reviews', e)
                                /\ \/ e.rev = 0
                                   \/ SubmitReview /\ e.rev = job.rev
<1>1. reviews \in Seq(Review) /\ DOMAIN reviews = 1 .. Len(reviews)
  BY Entries DEF TypeInv
<1>2. \A e \in Review : reviews' = Append(reviews, e) => Added(reviews, reviews', e)
  BY <1>1, Longer DEF Added
<1>3. CASE reviews' = reviews
  BY <1>3 DEF Marked
<1>4. CASE CollapsePriorReviews
  BY <1>1, <1>4, Collapsed DEF CollapsePriorReviews, Marked
<1>5. CASE PostsOther
  <2>1. [rev |-> 0, hidden |-> FALSE] \in Review
    BY BoundsAssumption DEF Review
  <2>2. QED
    BY <1>2, <1>3, <1>5, <2>1 DEF PostsOther
<1>6. CASE SubmitReview
  <2>1. [rev |-> job.rev, hidden |-> FALSE] \in Review
    BY <1>6 DEF SubmitReview, Turn, TypeInv, TypeOK, Job, Review, Revisions
  <2>2. QED
    BY <1>2, <1>3, <1>6, <2>1 DEF SubmitReview
<1>7. QED
  BY <1>3, <1>4, <1>5, <1>6, OnlyTurnsPost

\* One step adds a comment or edits one of quack's; it adds one in a place that
\* has one only if the lookup failed or did not find it.
LEMMA CommentsStep ==
    ASSUME TypeInv, [Next]_vars
    PROVE  \/ comments' = comments
           \/ \E e \in Remark :
                 /\ Added(comments, comments', e)
                 /\ \/ e.rev = 0
                    \/ DeliverComment /\ e.rev = job.rev /\ (blind' \/ FindQuackComment(e.at) = {})
           \/ \E e \in Remark : Edited(e) /\ DeliverComment /\ e.rev = job.rev
<1>1. comments \in Seq(Remark) /\ DOMAIN comments = 1 .. Len(comments)
  BY Entries DEF TypeInv
<1>2. CASE PostsOther
  <2>1. \A at \in Places : [rev |-> 0, at |-> at] \in Remark
    BY BoundsAssumption DEF Remark
  <2>2. ASSUME NEW at \in Places, comments' = Append(comments, [rev |-> 0, at |-> at])
        PROVE  Added(comments, comments', [rev |-> 0, at |-> at])
    BY <1>1, <2>1, <2>2, Longer DEF Added
  <2>3. QED
    BY <1>2, <2>1, <2>2 DEF PostsOther
<1>3. CASE DeliverComment
  <2> DEFINE new == [rev |-> job.rev, at |-> call.at]
  <2>1. new \in Remark /\ new.rev = job.rev /\ new.at = call.at
    BY <1>3 DEF DeliverComment, Turn, TypeInv, TypeOK, Job, Call, Remark, Revisions
  <2>2. \/ comments' = comments
        \/ Added(comments, comments', new) /\ (blind' \/ FindQuackComment(call.at) = {})
        \/ Edited(new)
    BY <1>3, CommentTurn
  <2>3. QED
    BY <1>3, <2>1, <2>2
<1>4. QED
  BY <1>2, <1>3, OnlyTurnsPost

\* No step takes anything off GitHub.
LEMMA GitHubGrows ==
    ASSUME TypeInv, NotAhead, [Next]_vars
    PROVE  Grows
<1>1. prOpen => prOpen'
  BY OnlyTurnsPost DEF DeliverPR
<1>2. /\ DOMAIN reviews = 1 .. Len(reviews) /\ Len(reviews) \in Nat
      /\ DOMAIN comments = 1 .. Len(comments) /\ Len(comments) \in Nat
      /\ \A i \in DOMAIN comments : comments[i].rev \in Nat
  BY Entries, BoundsAssumption DEF Remark
<1>3. /\ Len(reviews) <= Len(reviews')
      /\ \A i \in DOMAIN reviews : i \in DOMAIN reviews' /\ reviews'[i].rev = reviews[i].rev
  BY <1>2, ReviewsStep DEF Marked, Added
<1>4. \A i \in DOMAIN comments : /\ i \in DOMAIN comments'
                                 /\ comments'[i].at = comments[i].at
                                 /\ comments'[i].rev >= comments[i].rev
  <2>1. CASE comments' = comments
    BY <1>2, <2>1
  <2>2. ASSUME NEW e, Added(comments, comments', e)
        PROVE  \A i \in DOMAIN comments : i \in DOMAIN comments' /\ comments'[i] = comments[i]
    BY <1>2, <2>2 DEF Added
  <2>3. ASSUME NEW e \in Remark, Edited(e), DeliverComment, e.rev = job.rev
        PROVE  \A i \in DOMAIN comments : /\ i \in DOMAIN comments'
                                          /\ comments'[i].at = comments[i].at
                                          /\ comments'[i].rev >= comments[i].rev
    <3>1. Current = e.rev
      BY <2>3 DEF DeliverComment, Turn, TypeInv, TypeOK, Current
    <3>2. QED
      BY <1>2, <2>3, <3>1 DEF Edited, NotAhead
  <2>4. ASSUME NEW e, Added(comments, comments', e)
        PROVE  \A i \in DOMAIN comments : /\ i \in DOMAIN comments'
                                          /\ comments'[i].at = comments[i].at
                                          /\ comments'[i].rev >= comments[i].rev
    BY <1>2, <2>2, <2>4
  <2>5. QED
    BY <2>1, <2>3, <2>4, CommentsStep
<1>5. QED
  BY <1>1, <1>3, <1>4 DEF Grows

\* So what is posted stays posted, and in its place.
LEMMA PostedStays ==
    ASSUME TypeInv, TypeInv', Grows, NEW rev \in Nat
    PROVE  /\ \A kind \in Kinds : Posted(rev, kind) => Posted(rev, kind)'
           /\ InPR(rev) => InPR(rev)'
<1>1. /\ \A i \in DOMAIN comments : comments[i].rev \in Nat
      /\ \A i \in DOMAIN comments' : comments'[i].rev \in Nat
  <2>1. comments \in Seq(Remark) /\ comments' \in Seq(Remark)
    BY DEF TypeInv
  <2>2. \A s \in Seq(Remark) : \A i \in DOMAIN s : s[i].rev \in Nat
    <3> TAKE s \in Seq(Remark)
    <3>1. \A i \in DOMAIN s : s[i] \in Remark
      BY LenProperties, ElementOfSeq
    <3>2. \A e \in Remark : e.rev \in Nat
      BY BoundsAssumption DEF Remark
    <3>3. QED
      BY <3>1, <3>2
  <2>3. QED
    BY <2>1, <2>2
<1>2. ASSUME NEW kind \in Kinds, Posted(rev, kind) PROVE Posted(rev, kind)'
  <2>1. CASE kind = "pr"
    BY <1>2, <2>1 DEF Posted, Grows
  <2>2. CASE kind = "review"
    BY <1>2, <2>2 DEF Posted, Grows
  <2>3. CASE kind = "comment"
    BY <1>1, <1>2, <2>3 DEF Posted, Grows
  <2>4. QED
    BY <2>1, <2>2, <2>3 DEF Kinds
<1>3. ASSUME InPR(rev) PROVE InPR(rev)'
  BY <1>1, <1>3 DEF InPR, Grows, CommentsAt
<1>4. QED
  BY <1>2, <1>3

\* A turn of a delivery adds to what has been achieved, if it reports success
\* only of what it has posted, and where the item belongs.
LEMMA AchievedTurn ==
    ASSUME TypeInv, TypeInv', Grows, Achieved, NEW kind \in Kinds, Turn(kind),
           NEW ok \in BOOLEAN, NEW at \in Places, ItemDone(kind, ok, at), job' = job,
           NEW rev \in Nat, rev = job.rev,
           ok => Posted(rev, kind)',
           ok /\ kind = "pr" => at = "pr",
           kind # "pr" => at = call.at,
           ok /\ kind = "comment" /\ at = "pr" => InPR(rev)'
    PROVE  Achieved'
<1> DEFINE d == Tried
           items == job.items
<1>1. /\ call # None /\ job \in Job
      /\ d \in 0 .. (Len(items) - 1) /\ items[d + 1] = kind
      /\ Tried' = d + 1 /\ call'.at = at /\ call'.err = (call.err \/ ~ok)
      /\ call'.review = (call.review \/ (ok /\ kind = "review"))
  BY TurnType
<1>2. /\ Len(items) \in Nat /\ \A i \in 1 .. Len(items) : items[i] \in Kinds
      /\ \A i, j \in 1 .. Len(items) : i # j => items[i] # items[j]
  <2>1. items \in ItemLists
    BY <1>1 DEF Job
  <2>2. items \in Seq(Kinds) /\ Len(items) \in 0 .. 3
        /\ \A i, j \in 1 .. Len(items) : i # j => items[i] # items[j]
    BY <2>1, ItemsType
  <2>3. \A i \in 1 .. Len(items) : items[i] \in Kinds
    BY <2>2, ElementOfSeq
  <2>4. QED
    BY <2>2, <2>3
<1>3. /\ \A k \in Kinds : Posted(rev, k) => Posted(rev, k)'
      /\ InPR(rev) => InPR(rev)'
  BY PostedStays
<1>4. /\ call.review => Posted(rev, "review")
      /\ ~ call.err =>
            /\ \A i \in 1 .. d : Posted(rev, items[i])
            /\ \A i \in 1 .. d : items[i] = "pr" => call.at = "pr"
            /\ \A i, j \in 1 .. d :
                  i < j /\ items[i] = "pr" /\ items[j] = "comment" => InPR(rev)
  BY <1>1 DEF Achieved
<1>5. /\ d \in Nat /\ (d + 1) \in 1 .. Len(items)
      /\ \A i \in 1 .. (d + 1) : i \in 1 .. Len(items) /\ (i \in 1 .. d \/ i = d + 1)
      /\ \A i \in 1 .. d : i # d + 1
      /\ \A i, j \in 1 .. (d + 1) : i < j => i \in 1 .. d
  <2>1. \A n \in Nat : \A m \in 0 .. (n - 1) :
             /\ m \in Nat /\ (m + 1) \in 1 .. n
             /\ \A i \in 1 .. (m + 1) : i \in 1 .. n /\ (i \in 1 .. m \/ i = m + 1)
             /\ \A i \in 1 .. m : i # m + 1
             /\ \A i, j \in 1 .. (m + 1) : i < j => i \in 1 .. m
    OBVIOUS
  <2> HIDE DEF d, items
  <2>2. QED
    BY <1>1, <1>2, <2>1
<1> HIDE DEF d, items
<1>6. call'.review => Posted(rev, "review")'
  BY <1>1, <1>3, <1>4 DEF Kinds
<1>7. ~ call'.err =>
             /\ \A i \in 1 .. (d + 1), k \in Kinds : k = items[i] => Posted(rev, k)'
             /\ \A i \in 1 .. (d + 1) : items[i] = "pr" => call'.at = "pr"
             /\ \A i, j \in 1 .. (d + 1) :
                   i < j /\ items[i] = "pr" /\ items[j] = "comment" => InPR(rev)'
  <2> HAVE ~ call'.err
  <2>1. ok /\ ~ call.err
    BY <1>1
  <2>2. ASSUME NEW i \in 1 .. (d + 1), NEW k \in Kinds, k = items[i]
        PROVE  Posted(rev, k)'
    BY <1>1, <1>3, <1>4, <1>5, <2>1, <2>2
  <2>3. ASSUME NEW i \in 1 .. (d + 1), items[i] = "pr" PROVE call'.at = "pr"
    BY <1>1, <1>2, <1>4, <1>5, <2>1, <2>3
  <2>4. ASSUME NEW i \in 1 .. (d + 1), NEW j \in 1 .. (d + 1), i < j,
               items[i] = "pr", items[j] = "comment"
        PROVE  InPR(rev)'
    BY <1>1, <1>2, <1>3, <1>4, <1>5, <2>1, <2>4
  <2>5. QED
    BY <2>2, <2>3, <2>4
<1>8. /\ job'.items = items /\ job'.rev = rev
      /\ \A i \in 1 .. (d + 1) : items[i] \in Kinds
  BY <1>2, <1>5 DEF items
<1>9. QED
  BY <1>1, <1>6, <1>7, <1>8 DEF Achieved, Posted, InPR, CommentsAt


\* What has been achieved by a call that a step leaves alone.
LEMMA AchievedKept ==
    ASSUME TypeInv, TypeInv', Grows, Achieved, job' = job, call # None => call' # None,
           call' # None => /\ call # None /\ call'.todo = call.todo /\ call'.at = call.at
                           /\ call'.err = call.err /\ call'.review = call.review
    PROVE  Achieved'
<1> SUFFICES ASSUME call' # None PROVE Achieved'
  BY DEF Achieved
<1>1. call # None /\ job \in Job /\ job.rev \in Nat
  BY BoundsAssumption DEF TypeInv, TypeOK, Job, Revisions
<1>2. PICK rev \in Nat : rev = job.rev
  BY <1>1
<1>3. Tried' = Tried
  BY DEF Tried
<1>4. /\ \A k \in Kinds : Posted(rev, k) => Posted(rev, k)'
      /\ InPR(rev) => InPR(rev)'
  BY PostedStays
<1>5. \A i \in 1 .. Tried : job.items[i] \in Kinds
  <2>1. job.items \in Seq(Kinds) /\ Len(job.items) \in Nat /\ Len(call.todo) \in Nat
    BY <1>1, ItemsType DEF Job, TypeInv, TypeOK, Call
  <2>2. \A n \in Nat, m \in Nat : \A i \in 1 .. (n - m) : i \in 1 .. n
    OBVIOUS
  <2>3. \A i \in 1 .. Tried : i \in 1 .. Len(job.items)
    BY <2>1, <2>2 DEF Tried
  <2>4. QED
    BY <2>1, <2>3, ElementOfSeq
<1> DEFINE d == Tried
<1> HIDE DEF d
<1>6. /\ call.review => Posted(rev, "review")
      /\ ~ call.err =>
            /\ \A i \in 1 .. d : Posted(rev, job.items[i])
            /\ \A i \in 1 .. d : job.items[i] = "pr" => call.at = "pr"
            /\ \A i, j \in 1 .. d :
                  i < j /\ job.items[i] = "pr" /\ job.items[j] = "comment" => InPR(rev)
  BY <1>1, <1>2 DEF Achieved, d
<1>7. d = Tried' /\ \A i \in 1 .. d : job.items[i] \in Kinds
  BY <1>3, <1>5 DEF d
<1>8. /\ call'.review => Posted(rev, "review")'
      /\ ~ call'.err =>
            /\ \A i \in 1 .. d, k \in Kinds : k = job.items[i] => Posted(rev, k)'
            /\ \A i \in 1 .. d : job.items[i] = "pr" => call'.at = "pr"
            /\ \A i, j \in 1 .. d :
                  i < j /\ job.items[i] = "pr" /\ job.items[j] = "comment" => InPR(rev)'
  BY <1>1, <1>4, <1>6, <1>7 DEF Kinds
<1>9. QED
  BY <1>2, <1>7, <1>8 DEF Achieved, Posted, InPR, CommentsAt

\* What a call has achieved it keeps, and the next item adds to it.
LEMMA AchievedStep ==
    ASSUME OutcomeInv, TypeInv', Grows, [Next]_vars
    PROVE  Achieved'
<1> USE DEF OutcomeInv
<1>1. CASE PostsOther \/ UNCHANGED vars
  BY <1>1, AchievedKept DEF PostsOther, vars
<1>2. CASE CollapsePriorReviews
  <2>1. /\ job' = job /\ call # None /\ call' # None
        /\ call'.todo = call.todo /\ call'.at = call.at
        /\ call'.err = call.err /\ call'.review = call.review
    BY <1>2, NoneAssumption DEF CollapsePriorReviews, Turn, TypeInv, TypeOK, Call
  <2>2. QED
    BY <2>1, AchievedKept
<1>3. ASSUME NEW items \in ItemLists, NEW at \in Places, NEW title \in BOOLEAN, Stage(items, at, title)
      PROVE  Achieved'
  BY <1>3 DEF Stage, TypeInv, TypeOK, Achieved
<1>4. CASE Crash \/ RecoverDelivery \/ DeliverNothing \/ RecordDelivery
  <2>1. call' = None
    BY <1>4 DEF Crash, RecoverDelivery, DeliverNothing, RecordDelivery, Settle, TypeInv, TypeOK
  <2>2. QED
    BY <2>1 DEF Achieved
<1>5. CASE Deliver
  <2>1. job \in Job /\ job' = [job EXCEPT !.state = "running"]
        /\ call' = [todo |-> job.items, at |-> job.at, err |-> FALSE,
                    review |-> FALSE, submit |-> FALSE]
    BY <1>5 DEF Deliver, TypeInv, TypeOK
  <2>2. job'.items = job.items /\ call'.todo = job.items /\ ~ call'.review
    BY <2>1 DEF Job
  <2>3. Len(job.items) \in Nat
    BY <2>1, ItemsType DEF Job
  <2>4. Tried' = 0
    BY <2>2, <2>3 DEF Tried
  <2>5. \A i \in 1 .. Tried' : FALSE
    BY <2>4
  <2>6. QED
    BY <2>2, <2>5 DEF Achieved
<1>6. ASSUME call # None PROVE job \in Job /\ call \in Call /\ job.rev \in Nat /\ call.at \in Places
  BY <1>6, BoundsAssumption DEF TypeInv, TypeOK, Job, Call, Revisions
<1>7. CASE DeliverPR
  <2>1. PICK lookup \in BOOLEAN, post \in PostResults :
           LET update == lookup /\ prOpen
               opens  == ~update /\ job.title /\ ~prOpen /\ post.landed
               ok     == post.ok /\ (update \/ opens)
           IN  /\ prOpen' = (prOpen \/ opens)
               /\ ItemDone("pr", ok, IF ok THEN "pr" ELSE call.at)
    BY <1>7 DEF DeliverPR
  <2>2. PICK ok \in BOOLEAN, at \in Places :
             /\ ItemDone("pr", ok, at) /\ (ok => at = "pr") /\ (ok => prOpen')
    BY <1>6, <1>7, <2>1, PostType DEF DeliverPR, Turn, Places
  <2>3. Turn("pr") /\ job' = job /\ job.rev \in Nat
    BY <1>6, <1>7 DEF DeliverPR, Turn
  <2>4. PICK rev \in Nat : rev = job.rev
    BY <2>3
  <2>5. ok => Posted(rev, "pr")'
    BY <2>2 DEF Posted
  <2>6. QED
    BY <2>2, <2>3, <2>4, <2>5, AchievedTurn DEF Kinds
<1>8. CASE SubmitReview
  <2>1. PICK post \in PostResults :
           LET lands == call.at = "pr" /\ post.landed
           IN  /\ reviews' = IF lands THEN Append(reviews, [rev |-> job.rev, hidden |-> FALSE])
                                      ELSE reviews
               /\ ItemDone("review", lands /\ post.ok, call.at)
    BY <1>8 DEF SubmitReview
  <2>2. /\ Turn("review") /\ job' = job /\ job.rev \in Nat /\ call.at \in Places /\ job \in Job
        /\ reviews \in Seq(Review)
    BY <1>6, <1>8 DEF SubmitReview, Turn, TypeInv
  <2>3. [rev |-> job.rev, hidden |-> FALSE] \in Review
    BY <2>2 DEF Job, Review, Revisions
  <2>4. PICK ok \in BOOLEAN : /\ ItemDone("review", ok, call.at)
                              /\ ok => \E i \in DOMAIN reviews' : reviews'[i].rev = job.rev
    <3>1. ASSUME reviews' = Append(reviews, [rev |-> job.rev, hidden |-> FALSE])
          PROVE  \E i \in DOMAIN reviews' : reviews'[i].rev = job.rev
      <4>1. /\ DOMAIN reviews' = 1 .. (Len(reviews) + 1) /\ Len(reviews) \in Nat
            /\ reviews'[Len(reviews) + 1].rev = job.rev
        BY <2>2, <2>3, <3>1, Longer, LenProperties
      <4>2. Len(reviews) + 1 \in DOMAIN reviews'
        BY <4>1
      <4>3. QED
        BY <4>1, <4>2
    <3>2. QED
      BY <2>1, <3>1, PostType
  <2>5. PICK rev \in Nat : rev = job.rev
    BY <2>2
  <2>6. ok => Posted(rev, "review")'
    BY <2>4, <2>5 DEF Posted
  <2>7. QED
    BY <2>2, <2>4, <2>5, <2>6, AchievedTurn DEF Kinds
<1>9. CASE DeliverComment
  <2>1. PICK lookup \in BOOLEAN, post \in PostResults :
           /\ \/ ~post.landed /\ comments' = comments
              \/ post.landed /\ Added(comments, comments', [rev |-> job.rev, at |-> call.at])
              \/ post.landed /\ Edited([rev |-> job.rev, at |-> call.at])
           /\ ItemDone("comment", post.ok, call.at)
    BY <1>9, CommentTurn
  <2>2. /\ Turn("comment") /\ job' = job /\ job.rev \in Nat /\ call.at \in Places
        /\ Len(comments) \in Nat
    BY <1>6, <1>9, Entries DEF DeliverComment, Turn
  <2>3. PICK rev \in Nat : rev = job.rev
    BY <2>2
  <2>4. post.ok => \E i \in DOMAIN comments' : comments'[i] = [rev |-> rev, at |-> call.at]
    <3>1. CASE Added(comments, comments', [rev |-> job.rev, at |-> call.at])
      <4>1. Len(comments) + 1 \in DOMAIN comments'
        BY <2>2, <3>1 DEF Added
      <4>2. QED
        BY <2>3, <3>1, <4>1 DEF Added
    <3>2. CASE Edited([rev |-> job.rev, at |-> call.at])
      BY <2>3, <3>2 DEF Edited
    <3>3. QED
      BY <2>1, <3>1, <3>2, PostType
  <2>5. post.ok => /\ Posted(rev, "comment")'
                   /\ call.at = "pr" => InPR(rev)'
    BY <2>4 DEF Posted, InPR, CommentsAt
  <2>6. post.ok \in BOOLEAN
    BY PostType
  <2>7. QED
    BY <2>1, <2>2, <2>3, <2>5, <2>6, AchievedTurn DEF Kinds
<1>10. QED
  BY <1>1, <1>2, <1>3, <1>4, <1>5, <1>7, <1>8, <1>9 DEF Next

\* Nothing of a revision to come gets on GitHub.
LEMMA NotAheadStep ==
    ASSUME OutcomeInv, TypeInv', [Next]_vars
    PROVE  NotAhead'
<1> USE DEF OutcomeInv
<1>1. /\ Current \in Nat /\ Current' \in Nat /\ Current <= Current'
      /\ (job # None => Current = job.rev)
  <2>1. job # None => job \in Job /\ job.rev \in Nat
    BY BoundsAssumption DEF TypeInv, TypeOK, Job, Revisions
  <2>2. CASE job' = job
    BY <2>1, <2>2 DEF Current
  <2>3. ASSUME NEW items \in ItemLists, NEW at \in Places, NEW title \in BOOLEAN, Stage(items, at, title)
        PROVE  job' # None /\ job'.rev = Current + 1
    <3> DEFINE rev == IF job = None THEN 1 ELSE job.rev + 1
    <3>1. rev = Current + 1 /\ rev \in Revisions
      BY <2>1, <2>3 DEF Stage, Current
    <3>2. job' = [rev |-> rev, items |-> items, at |-> at, title |-> title, state |-> "due"]
      BY <2>3 DEF Stage
    <3> HIDE DEF rev
    <3>3. job' \in Job /\ job'.rev = rev
      BY <3>1, <3>2 DEF Job
    <3>4. QED
      BY <3>1, <3>3, NoneAssumption
  <2>4. ASSUME job # None, NEW state \in {"due", "running", "lost", "settled"},
               job' = [job EXCEPT !.state = state]
        PROVE  job' # None /\ job'.rev = job.rev
    <3>1. job \in Job
      BY <2>1, <2>4
    <3>2. job' \in Job /\ job'.rev = job.rev
      BY <2>4, <3>1 DEF Job
    <3>3. QED
      BY <3>2, NoneAssumption
  <2>5. CASE Crash \/ RecoverDelivery \/ Deliver \/ DeliverNothing \/ RecordDelivery
    <3>1. job' = job \/ (job # None /\ \E state \in {"due", "running", "lost", "settled"} :
                                           job' = [job EXCEPT !.state = state])
      BY <2>5 DEF Crash, RecoverDelivery, Deliver, DeliverNothing, RecordDelivery, Settle,
                  TypeInv, TypeOK
    <3>2. QED
      BY <2>1, <2>2, <2>4, <3>1 DEF Current
  <2>6. CASE PostsOther \/ DeliverPR \/ CollapsePriorReviews \/ SubmitReview \/ DeliverComment
             \/ UNCHANGED vars
    BY <2>2, <2>6 DEF PostsOther, DeliverPR, CollapsePriorReviews, SubmitReview, DeliverComment, vars
  <2>7. QED
    BY <2>1, <2>3, <2>5, <2>6 DEF Next, Current
<1>2. /\ \A i \in DOMAIN reviews : reviews[i].rev \in Nat
      /\ \A i \in DOMAIN comments : comments[i].rev \in Nat
      /\ DOMAIN reviews = 1 .. Len(reviews) /\ DOMAIN comments = 1 .. Len(comments)
      /\ Len(reviews) \in Nat /\ Len(comments) \in Nat
  BY Entries, BoundsAssumption DEF Review, Remark
<1>3. /\ \A i \in DOMAIN reviews : reviews[i].rev <= Current'
      /\ \A i \in DOMAIN comments : comments[i].rev <= Current'
  BY <1>1, <1>2 DEF NotAhead
<1>4. SubmitReview \/ DeliverComment => job # None
  BY DEF SubmitReview, DeliverComment, Turn, TypeInv, TypeOK
<1>5. ASSUME NEW list, NEW next, NEW e, Added(list, next, e), Len(list) \in Nat,
             e.rev = 0 \/ (job # None /\ e.rev = job.rev),
             \A i \in DOMAIN list : list[i].rev <= Current'
      PROVE  \A i \in DOMAIN next : next[i].rev <= Current'
  <2>1. \A i \in DOMAIN next : i \in DOMAIN list \/ i = Len(list) + 1
    BY <1>5 DEF Added
  <2>2. e.rev <= Current'
    BY <1>1, <1>5
  <2>3. QED
    BY <1>5, <2>1, <2>2 DEF Added
<1>6. \A i \in DOMAIN reviews' : reviews'[i].rev <= Current'
  BY <1>2, <1>3, <1>4, <1>5, ReviewsStep DEF Marked
<1>7. \A i \in DOMAIN comments' : comments'[i].rev <= Current'
  <2>1. ASSUME NEW e, Edited(e), DeliverComment, e.rev = job.rev
        PROVE  \A i \in DOMAIN comments' : comments'[i].rev <= Current'
    BY <1>1, <1>3, <1>4, <2>1 DEF Edited
  <2>2. QED
    BY <1>2, <1>3, <1>4, <1>5, <2>1, CommentsStep
<1>8. QED
  BY <1>6, <1>7 DEF NotAhead

\* A record is kept until the next delivery is staged, and what it says with it.
LEMMA RecordedStep ==
    ASSUME OutcomeInv, TypeInv', Grows, [Next]_vars
    PROVE  Recorded'
<1> USE DEF OutcomeInv
<1>1. record # None => /\ job \in Job /\ job.rev \in Nat
                       /\ \A i \in DOMAIN job.items : job.items[i] \in Kinds
  BY BoundsAssumption, ItemsType, ElementOfSeq DEF TypeInv, TypeOK, Recorded, Job, Revisions
<1>2. CASE record' = None
  BY <1>2 DEF Recorded
<1>3. ASSUME record # None, record' = record, job' = job PROVE Recorded'
  <2>1. PICK rev \in Nat : rev = job.rev
    BY <1>1, <1>3
  <2>2. /\ \A k \in Kinds : Posted(rev, k) => Posted(rev, k)'
        /\ InPR(rev) => InPR(rev)'
    BY PostedStays
  <2>3. /\ job # None /\ job.state = "settled" /\ record.rev = rev
        /\ record.review => Posted(rev, "review")
        /\ ~ record.err =>
              /\ \A i \in DOMAIN job.items : Posted(rev, job.items[i])
              /\ \A i, j \in DOMAIN job.items :
                    i < j /\ job.items[i] = "pr" /\ job.items[j] = "comment" => InPR(rev)
    BY <1>3, <2>1 DEF Recorded
  <2>4. /\ record.review => Posted(rev, "review")'
        /\ ~ record.err =>
              /\ \A i \in DOMAIN job.items, k \in Kinds : k = job.items[i] => Posted(rev, k)'
              /\ \A i, j \in DOMAIN job.items :
                    i < j /\ job.items[i] = "pr" /\ job.items[j] = "comment" => InPR(rev)'
    BY <1>1, <1>3, <2>2, <2>3 DEF Kinds
  <2>5. QED
    BY <1>1, <1>3, <2>1, <2>3, <2>4 DEF Recorded, Posted, InPR, CommentsAt
<1>4. CASE PostsOther \/ UNCHANGED vars
  BY <1>2, <1>3, <1>4 DEF PostsOther, vars
<1>5. ASSUME NEW items \in ItemLists, NEW at \in Places, NEW title \in BOOLEAN, Stage(items, at, title)
      PROVE  Recorded'
  BY <1>2, <1>5 DEF Stage
<1>6. CASE Crash
  BY <1>2, <1>6 DEF Crash
<1>7. CASE RecoverDelivery \/ Deliver \/ DeliverPR \/ CollapsePriorReviews \/ SubmitReview
           \/ DeliverComment
  <2>1. job # None /\ job.state \in {"lost", "due", "running"}
    BY <1>7 DEF RecoverDelivery, Deliver, DeliverPR, CollapsePriorReviews, SubmitReview,
                DeliverComment, Turn, TypeInv, TypeOK
  <2>2. record' = record
    BY <1>7 DEF RecoverDelivery, Deliver, DeliverPR, CollapsePriorReviews, SubmitReview,
                DeliverComment
  <2>3. QED
    BY <1>2, <2>1, <2>2 DEF Recorded
<1>8. CASE DeliverNothing
  <2>1. job \in Job /\ job.rev \in Nat /\ job' = [job EXCEPT !.state = "settled"]
        /\ record' = [rev |-> job.rev, err |-> job.items # <<>>, review |-> FALSE]
    BY <1>8, BoundsAssumption DEF DeliverNothing, Settle, TypeInv, TypeOK, Job, Revisions
  <2>2. job' # None /\ job'.state = "settled" /\ job'.rev = job.rev /\ job'.items = job.items
    BY <2>1, NoneAssumption DEF Job
  <2>3. record'.rev = job.rev /\ ~ record'.review
    BY <2>1
  <2>4. ~ record'.err => DOMAIN job.items = {}
    <3>1. DOMAIN <<>> = {}
      BY EmptySeq
    <3>2. record'.err <=> job.items # <<>>
      BY <2>1
    <3>3. QED
      BY <3>1, <3>2
  <2>5. QED
    BY <2>2, <2>3, <2>4 DEF Recorded
<1>9. CASE RecordDelivery
  <2>1. /\ job \in Job /\ job' = [job EXCEPT !.state = "settled"] /\ call # None
        /\ record' = [rev |-> job.rev, err |-> call.err, review |-> call.review]
        /\ UNCHANGED <<prOpen, reviews, comments>>
    BY <1>9 DEF RecordDelivery, Settle, TypeInv, TypeOK, github
  <2>2. job' # None /\ job'.state = "settled" /\ job'.rev = job.rev /\ job'.items = job.items
    BY <2>1, NoneAssumption DEF Job
  <2>3. Tried = Len(job.items) /\ DOMAIN job.items = 1 .. Tried
    <3>1. Len(call.todo) = 0
      BY <1>9 DEF RecordDelivery
    <3>2. Len(job.items) \in Nat /\ DOMAIN job.items = 1 .. Len(job.items)
      BY <2>1, ItemsType DEF Job
    <3>3. QED
      BY <3>1, <3>2 DEF Tried
  <2>4. /\ call.review => Posted(job.rev, "review")
        /\ ~ call.err =>
              /\ \A i \in DOMAIN job.items : Posted(job.rev, job.items[i])
              /\ \A i, j \in DOMAIN job.items :
                    i < j /\ job.items[i] = "pr" /\ job.items[j] = "comment" => InPR(job.rev)
    BY <2>1, <2>3 DEF Achieved
  <2>5. QED
    BY <2>1, <2>2, <2>4 DEF Recorded, Posted, InPR, CommentsAt
<1>10. QED
  BY <1>4, <1>5, <1>6, <1>7, <1>8, <1>9 DEF Next

\* The invariant of what is reported as delivered.
LEMMA OutcomeInvariant == Spec => []OutcomeInv
<1>1. Init => OutcomeInv
  <2>1. /\ <<>> \in Seq(Review) /\ <<>> \in Seq(Remark) /\ DOMAIN <<>> = {}
        /\ 0 \in 0 .. MaxOthers /\ 0 \in 0 .. MaxCrashes
    BY BoundsAssumption, EmptySeq
  <2>2. QED
    BY <2>1 DEF Init, OutcomeInv, NotAhead, Achieved, Recorded, TypeInv, TypeOK, Suffix
<1>2. OutcomeInv /\ [Next]_vars => OutcomeInv'
  <2> SUFFICES ASSUME OutcomeInv, [Next]_vars PROVE OutcomeInv'
    OBVIOUS
  <2>1. TypeInv'
    BY TypeStep DEF OutcomeInv
  <2>2. Grows
    BY GitHubGrows DEF OutcomeInv
  <2>3. QED
    BY <2>1, <2>2, NotAheadStep, AchievedStep, RecordedStep DEF OutcomeInv
<1>3. QED
  BY <1>1, <1>2, PTL DEF Spec

\* Deliver, RunEnded: whatever is lost, crashes or fails, what is recorded as
\* delivered is on GitHub, in this revision or in a later one.
THEOREM OutcomeHolds == Spec => []OutcomeIsTrue
<1>1. OutcomeInv => OutcomeIsTrue
  BY DEF OutcomeInv, Recorded, OutcomeIsTrue
<1>2. QED
  BY <1>1, OutcomeInvariant, PTL

\* Deliver's dc.IssueNumber: a comment that follows the pull request it comes
\* with in the list is in that pull request.
THEOREM CommentFollows == Spec => []FollowsItsPR
<1>1. OutcomeInv => FollowsItsPR
  BY DEF OutcomeInv, Recorded, FollowsItsPR, InPR
<1>2. QED
  BY <1>1, OutcomeInvariant, PTL

-----------------------------------------------------------------------------
(***************************************************************************)
(* A revision's review is not posted twice because it is not there yet as  *)
(* long as its turn is to come, also after a crash; a slot's comment is    *)
(* not because a lookup that reaches all comments finds the one there is.  *)
(***************************************************************************)

\* The delivery that is owed or under way has its review still to come.
ToReview ==
    /\ job # None
    /\ \/ job.state = "due"
       \/ call # None /\ \E i \in (Tried + 1) .. Len(job.items) : job.items[i] = "review"

\* ... and then, if the page holds all reviews, it is not among them.
Unposted ==
    ToReview /\ Len(reviews) <= Page => \A i \in DOMAIN reviews : reviews[i].rev # job.rev

OneReview ==
    Len(reviews) <= Page =>
        \A i, j \in DOMAIN reviews : reviews[i].rev = reviews[j].rev /\ reviews[i].rev # 0 => i = j

OneComment ==
    \A at \in Places :
        ~ blind /\ Cardinality(CommentsAt(at)) <= Page =>
            \A i, j \in CommentsAt(at) : comments[i].rev # 0 /\ comments[j].rev # 0 => i = j

PostingInv == OutcomeInv /\ Unposted /\ OneReview /\ OneComment

\* Places in a list are finitely many.
LEMMA PlacesFinite == \A n \in Nat : \A S : S \subseteq 1 .. n => IsFiniteSet(S)
<1> SUFFICES ASSUME NEW n \in Nat, NEW S, S \subseteq 1 .. n PROVE IsFiniteSet(S)
  OBVIOUS
<1>1. IsFiniteSet(1 .. n)
  BY FS_Interval
<1>2. QED
  BY <1>1, FS_Subset

\* A list that has got longer has its places, and one more.
LEMMA Added1 ==
    ASSUME NEW list, NEW next, NEW e, Added(list, next, e), Len(list) \in Nat
    PROVE  \A i \in DOMAIN next : i \in DOMAIN list \/ i = Len(list) + 1
  BY DEF Added


\* A review that is still to come was so before, unless its delivery is newly
\* staged, or owed again because the review was not found.
LEMMA ToReviewStep ==
    ASSUME OutcomeInv, TypeInv', [Next]_vars, ToReview'
    PROVE  \/ ToReview /\ job'.rev = job.rev
           \/ reviews' = reviews /\ job'.rev = Current + 1
           \/ RecoverDelivery /\ job'.rev = job.rev /\ job'.state = "due"
<1> USE DEF OutcomeInv
<1>1. ASSUME job # None
      PROVE  /\ job \in Job /\ job.items \in ItemLists /\ Len(job.items) \in Nat
             /\ call # None => Len(call.todo) \in Nat
  BY <1>1, ItemsType DEF TypeInv, TypeOK, Job, Call
<1>2. ASSUME job' = job, call' # None => call # None, call' # None => call'.todo = call.todo
      PROVE  ToReview /\ job'.rev = job.rev
  BY <1>2 DEF ToReview, Tried
<1>3. CASE PostsOther \/ CollapsePriorReviews \/ UNCHANGED vars
  <2>1. /\ job' = job /\ (call' # None => call # None) /\ (call' # None => call'.todo = call.todo)
    BY <1>3 DEF PostsOther, CollapsePriorReviews, Turn, vars, TypeInv, TypeOK, Call
  <2>2. QED
    BY <1>2, <2>1
<1>4. ASSUME NEW kind \in Kinds, Turn(kind), NEW ok \in BOOLEAN, NEW at \in Places,
             ItemDone(kind, ok, at), job' = job
      PROVE  ToReview /\ job'.rev = job.rev
  <2>1. call # None /\ job # None /\ job.state = "running" /\ Tried' = Tried + 1
        /\ Tried \in 0 .. (Len(job.items) - 1)
    BY <1>4, TurnType
  <2> DEFINE d == Tried
             n == Len(job.items)
  <2>2. PICK i \in (d + 2) .. n : job.items[i] = "review"
    BY <1>1, <1>4, <2>1 DEF ToReview
  <2>3. i \in (d + 1) .. n
    <3>1. d \in Nat /\ n \in Nat
      BY <1>1, <2>1
    <3> HIDE DEF d, n
    <3>2. QED
      BY <3>1
  <2>4. QED
    BY <1>4, <2>1, <2>2, <2>3 DEF ToReview
<1>5. ASSUME call # None PROVE call.at \in Places
  BY <1>5 DEF TypeInv, TypeOK, Call
<1>6. CASE DeliverPR
  <2>1. \E ok \in BOOLEAN, at \in Places : ItemDone("pr", ok, at)
    BY <1>5, <1>6, PostType DEF DeliverPR, Turn, Places
  <2>2. QED
    BY <1>4, <1>6, <2>1 DEF DeliverPR, Kinds
<1>7. CASE SubmitReview
  <2>1. \E ok \in BOOLEAN, at \in Places : ItemDone("review", ok, at)
    BY <1>5, <1>7, PostType DEF SubmitReview, Turn
  <2>2. QED
    BY <1>4, <1>7, <2>1 DEF SubmitReview, Kinds
<1>8. CASE DeliverComment
  <2>1. \E ok \in BOOLEAN, at \in Places : ItemDone("comment", ok, at)
    BY <1>5, <1>8, CommentTurn, PostType DEF DeliverComment, Turn
  <2>2. QED
    BY <1>4, <1>8, <2>1 DEF DeliverComment, Kinds
<1>9. ASSUME NEW items \in ItemLists, NEW at \in Places, NEW title \in BOOLEAN, Stage(items, at, title)
      PROVE  reviews' = reviews /\ job'.rev = Current + 1
  BY <1>1, <1>9 DEF Stage, Current, github, Job, Revisions
<1>10. CASE DeliverNothing \/ RecordDelivery
  <2>1. job \in Job /\ job' = [job EXCEPT !.state = "settled"] /\ call' = None
    BY <1>1, <1>10 DEF DeliverNothing, RecordDelivery, Settle, TypeInv, TypeOK
  <2>2. job'.state = "settled"
    BY <2>1 DEF Job
  <2>3. QED
    BY <2>1, <2>2 DEF ToReview
<1>11. CASE Crash
  <2>1. job' = job /\ call' = None
    <3>1. CASE job # None /\ job.state = "running"
      <4>1. job \in Job /\ job' = [job EXCEPT !.state = "lost"] /\ call' = None
        BY <1>1, <1>11, <3>1 DEF Crash
      <4>2. job'.state = "lost"
        BY <4>1 DEF Job
      <4>3. QED
        BY <4>1, <4>2 DEF ToReview
    <3>2. QED
      BY <1>11, <3>1 DEF Crash
  <2>2. QED
    BY <1>2, <2>1
<1>12. CASE Deliver
  <2>1. job # None /\ job.state = "due" /\ job \in Job /\ job' = [job EXCEPT !.state = "running"]
    BY <1>1, <1>12 DEF Deliver
  <2>2. job'.rev = job.rev
    BY <2>1 DEF Job
  <2>3. QED
    BY <2>1, <2>2 DEF ToReview
<1>13. CASE RecoverDelivery
  <2>1. PICK state \in {"settled", "due"} : job' = [job EXCEPT !.state = state]
    BY <1>13 DEF RecoverDelivery
  <2>2. job \in Job /\ job.state = "lost" /\ call' = None
    BY <1>1, <1>13 DEF RecoverDelivery, TypeInv, TypeOK
  <2>3. job'.rev = job.rev /\ job'.state = state
    BY <2>1, <2>2 DEF Job
  <2>4. QED
    BY <1>13, <2>2, <2>3 DEF ToReview
<1>14. QED
  BY <1>3, <1>6, <1>7, <1>8, <1>9, <1>10, <1>11, <1>12, <1>13 DEF Next

\* The review's turn is its only one.
LEMMA ReviewedOnce ==
    ASSUME TypeInv, SubmitReview
    PROVE  ToReview /\ ~ ToReview'
<1>1. /\ Turn("review") /\ job' = job /\ call.at \in Places
      /\ \E ok \in BOOLEAN : ItemDone("review", ok, call.at)
  BY PostType DEF SubmitReview, Turn, TypeInv, TypeOK, Call
<1>2. /\ call # None /\ job # None /\ job.state = "running" /\ Tried' = Tried + 1 /\ job \in Job
      /\ Tried \in 0 .. (Len(job.items) - 1) /\ job.items[Tried + 1] = "review"
  BY <1>1, TurnType DEF Kinds
<1> DEFINE d == Tried
           n == Len(job.items)
<1>3. /\ d \in Nat /\ n \in Nat /\ d < n
      /\ \A i, j \in 1 .. n : i # j => job.items[i] # job.items[j]
  BY <1>2, ItemsType DEF Job
<1> HIDE DEF d, n
<1>4. /\ d + 1 \in 1 .. n /\ d + 1 \in (d + 1) .. n
      /\ \A i \in (d + 2) .. n : i \in 1 .. n /\ i # d + 1
  BY <1>3
<1>5. \A i \in (d + 2) .. n : job.items[i] # "review"
  BY <1>2, <1>3, <1>4 DEF d
<1>6. ToReview
  BY <1>2, <1>4 DEF ToReview, d, n
<1>7. (Tried + 1)' = d + 2
  BY <1>2, <1>3 DEF d
<1>8. QED
  BY <1>1, <1>2, <1>5, <1>6, <1>7 DEF ToReview, n

\* A review still to come stays off GitHub until its turn.
LEMMA UnpostedStep ==
    ASSUME PostingInv, TypeInv', Grows, [Next]_vars
    PROVE  Unposted'
<1> USE DEF PostingInv
<1> SUFFICES ASSUME ToReview', Len(reviews') <= Page
             PROVE  \A i \in DOMAIN reviews' : reviews'[i].rev # job'.rev
  BY DEF Unposted
<1>1. /\ DOMAIN reviews = 1 .. Len(reviews) /\ Len(reviews) \in Nat /\ Len(reviews') \in Nat
      /\ Page \in Nat /\ Len(reviews) <= Page
      /\ \A i \in DOMAIN reviews : reviews[i].rev \in Nat
  <2>1. Len(reviews') \in Nat
    BY DEF TypeInv
  <2>2. QED
    BY <2>1, Entries, BoundsAssumption DEF Grows, OutcomeInv, Review
<1>2. OutcomeInv /\ TypeInv
  BY DEF OutcomeInv
<1>3. CASE ToReview /\ job'.rev = job.rev
  <2>1. \A i \in DOMAIN reviews : reviews[i].rev # job'.rev
    BY <1>1, <1>3 DEF Unposted
  <2>2. ~ SubmitReview
    BY <1>2, ReviewedOnce
  <2>3. CASE Marked
    BY <2>1, <2>3 DEF Marked
  <2>4. ASSUME NEW e \in Review, Added(reviews, reviews', e), e.rev = 0
        PROVE  \A i \in DOMAIN reviews' : reviews'[i].rev # job'.rev
    <3>1. job'.rev # 0
      BY <1>2, <1>3 DEF ToReview, TypeInv, TypeOK, Job, Revisions
    <3>2. \A i \in DOMAIN reviews' : i \in DOMAIN reviews \/ i = Len(reviews) + 1
      BY <1>1, <2>4, Added1
    <3>3. QED
      BY <2>1, <2>4, <3>1, <3>2 DEF Added
  <2>5. QED
    BY <1>2, <2>2, <2>3, <2>4, ReviewsStep
<1>4. CASE reviews' = reviews /\ job'.rev = Current + 1
  <2>1. Current \in Nat
    BY <1>2, BoundsAssumption DEF Current, TypeInv, TypeOK, Job, Revisions
  <2>2. QED
    BY <1>1, <1>2, <1>4, <2>1 DEF OutcomeInv, NotAhead
<1>5. CASE RecoverDelivery /\ job'.rev = job.rev /\ job'.state = "due"
  <2>1. job \in Job /\ reviews' = reviews
    BY <1>2, <1>5 DEF RecoverDelivery, TypeInv, TypeOK, github
  <2>2. FirstPage(reviews) = reviews
    <3>1. (IF Len(reviews) < Page THEN Len(reviews) ELSE Page) = Len(reviews)
      <4>1. \A m, n \in Nat : m <= n => (IF m < n THEN m ELSE n) = m
        OBVIOUS
      <4>2. QED
        BY <1>1, <4>1
    <3>2. reviews \in Seq(Review)
      BY <1>2 DEF TypeInv
    <3>3. QED
      BY <3>1, <3>2, SubSeqFull DEF FirstPage
  <2> DEFINE found == \E i \in DOMAIN FirstPage(reviews) : reviews[i].rev = job.rev
  <2>3. job' = [job EXCEPT !.state = IF found THEN "settled" ELSE "due"]
    BY <1>5 DEF RecoverDelivery
  <2> HIDE DEF found
  <2>4. ~ found
    BY <1>5, <2>1, <2>3 DEF Job
  <2>5. QED
    BY <1>5, <2>1, <2>2, <2>4 DEF found
<1>6. QED
  BY <1>2, <1>3, <1>4, <1>5, ToReviewStep

\* So the review that is posted is the first of its revision.
LEMMA OneReviewStep ==
    ASSUME PostingInv, TypeInv', Grows, [Next]_vars
    PROVE  OneReview'
<1> USE DEF PostingInv
<1> SUFFICES ASSUME Len(reviews') <= Page
             PROVE  \A i, j \in DOMAIN reviews' :
                        reviews'[i].rev = reviews'[j].rev /\ reviews'[i].rev # 0 => i = j
  BY DEF OneReview
<1>1. /\ DOMAIN reviews = 1 .. Len(reviews) /\ Len(reviews) \in Nat /\ Len(reviews') \in Nat
      /\ Page \in Nat /\ Len(reviews) <= Page
  <2>1. Len(reviews') \in Nat
    BY DEF TypeInv
  <2>2. QED
    BY <2>1, Entries, BoundsAssumption DEF Grows, OutcomeInv
<1>2. TypeInv
  BY DEF OutcomeInv
<1>3. \A i, j \in DOMAIN reviews : reviews[i].rev = reviews[j].rev /\ reviews[i].rev # 0 => i = j
  BY <1>1 DEF OneReview
<1>4. CASE Marked
  BY <1>3, <1>4 DEF Marked
<1>5. ASSUME NEW e \in Review, Added(reviews, reviews', e),
             e.rev # 0 => \A i \in DOMAIN reviews : reviews[i].rev # e.rev
      PROVE  \A i, j \in DOMAIN reviews' :
                 reviews'[i].rev = reviews'[j].rev /\ reviews'[i].rev # 0 => i = j
  <2>1. \A i \in DOMAIN reviews' : i \in DOMAIN reviews \/ i = Len(reviews) + 1
    BY <1>1, <1>5, Added1
  <2>2. QED
    BY <1>3, <1>5, <2>1 DEF Added
<1>6. SubmitReview => \A i \in DOMAIN reviews : reviews[i].rev # job.rev
  BY <1>1, <1>2, ReviewedOnce DEF Unposted
<1>7. QED
  BY <1>2, <1>4, <1>5, <1>6, ReviewsStep

\* A lookup that gets an answer and reaches all comments of a place finds each
\* of quack's.
LEMMA LookupFinds ==
    ASSUME TypeInv, NEW at \in Places, Cardinality(CommentsAt(at)) <= Page,
           NEW i \in CommentsAt(at), comments[i].rev # 0
    PROVE  i \in FindQuackComment(at)
<1> DEFINE upto == {j \in CommentsAt(at) : j <= i}
<1>1. IsFiniteSet(CommentsAt(at))
  <2>1. CommentsAt(at) \subseteq 1 .. Len(comments) /\ Len(comments) \in Nat
    BY Entries DEF CommentsAt
  <2>2. QED
    BY <2>1, PlacesFinite
<1>2. Cardinality(upto) <= Cardinality(CommentsAt(at)) /\ IsFiniteSet(upto)
  BY <1>1, FS_Subset
<1>3. Cardinality(upto) \in Nat /\ Cardinality(CommentsAt(at)) \in Nat /\ Page \in Nat
  BY <1>1, <1>2, FS_CardinalityType, BoundsAssumption
<1> HIDE DEF upto
<1>4. Cardinality(upto) <= Page
  BY <1>2, <1>3
<1>5. QED
  BY <1>4 DEF FindQuackComment, upto

\* A comment is posted where the lookup found none.
LEMMA OneCommentStep ==
    ASSUME PostingInv, TypeInv', Grows, [Next]_vars
    PROVE  OneComment'
<1> USE DEF PostingInv
<1>1. /\ DOMAIN comments = 1 .. Len(comments) /\ Len(comments) \in Nat
      /\ DOMAIN comments' = 1 .. Len(comments') /\ Len(comments') \in Nat /\ Page \in Nat
  <2>1. \A s \in Seq(Remark) : DOMAIN s = 1 .. Len(s) /\ Len(s) \in Nat
    BY LenProperties
  <2>2. QED
    BY <2>1, BoundsAssumption DEF OutcomeInv, TypeInv
<1>2. TypeInv
  BY DEF OutcomeInv
<1>3. blind => blind'
  BY DEF Next, vars, history, PostsOther, Stage, Crash, RecoverDelivery, DeliverNothing, Deliver,
         DeliverPR, CollapsePriorReviews, SubmitReview, DeliverComment, RecordDelivery
<1> SUFFICES ASSUME NEW at \in Places, ~ blind', Cardinality(CommentsAt(at)') <= Page
             PROVE  \A i, j \in CommentsAt(at)' :
                        comments'[i].rev # 0 /\ comments'[j].rev # 0 => i = j
  BY DEF OneComment
<1>4. /\ CommentsAt(at) = {i \in DOMAIN comments : comments[i].at = at}
      /\ CommentsAt(at)' = {i \in DOMAIN comments' : comments'[i].at = at}
  BY DEF CommentsAt
<1>5. /\ CommentsAt(at) \subseteq CommentsAt(at)' /\ IsFiniteSet(CommentsAt(at)')
  <2>1. CommentsAt(at) \subseteq CommentsAt(at)'
    BY <1>4 DEF Grows
  <2>2. CommentsAt(at)' \subseteq 1 .. Len(comments')
    BY <1>1, <1>4
  <2>3. QED
    BY <1>1, <2>1, <2>2, PlacesFinite
<1>6. Cardinality(CommentsAt(at)) <= Page
  <2>1. /\ IsFiniteSet(CommentsAt(at))
        /\ Cardinality(CommentsAt(at)) <= Cardinality(CommentsAt(at)')
    BY <1>5, FS_Subset
  <2>2. Cardinality(CommentsAt(at)) \in Nat /\ Cardinality(CommentsAt(at)') \in Nat
    BY <1>5, <2>1, FS_CardinalityType
  <2>3. QED
    BY <1>1, <2>1, <2>2
<1>7. \A i, j \in CommentsAt(at) : comments[i].rev # 0 /\ comments[j].rev # 0 => i = j
  BY <1>3, <1>6 DEF OneComment
<1>8. CASE comments' = comments
  BY <1>4, <1>7, <1>8
<1>9. ASSUME NEW e \in Remark, Added(comments, comments', e),
             \/ e.rev = 0
             \/ DeliverComment /\ e.rev = job.rev /\ (blind' \/ FindQuackComment(e.at) = {})
      PROVE  \A i, j \in CommentsAt(at)' : comments'[i].rev # 0 /\ comments'[j].rev # 0 => i = j
  <2>1. e.rev = 0 \/ e.at # at \/ \A i \in CommentsAt(at) : comments[i].rev = 0
    BY <1>2, <1>6, <1>9, LookupFinds
  <2>2. \A i \in DOMAIN comments' : i \in DOMAIN comments \/ i = Len(comments) + 1
    BY <1>1, <1>9, Added1
  <2>3. /\ \A i \in CommentsAt(at)' : i = Len(comments) + 1 \/ i \in CommentsAt(at)
        /\ \A i \in CommentsAt(at) : comments'[i] = comments[i]
        /\ Len(comments) + 1 \in CommentsAt(at)' => e.at = at
        /\ comments'[Len(comments) + 1] = e
    BY <1>4, <1>9, <2>2 DEF Added
  <2>4. QED
    BY <1>7, <2>1, <2>3
<1>10. ASSUME NEW e \in Remark, Edited(e), DeliverComment, e.rev = job.rev
       PROVE  \A i, j \in CommentsAt(at)' : comments'[i].rev # 0 /\ comments'[j].rev # 0 => i = j
  <2>1. PICK n \in DOMAIN comments :
             /\ comments[n].at = e.at /\ comments[n].rev # 0 /\ comments'[n] = e
             /\ \A k \in DOMAIN comments : k # n => comments'[k] = comments[k]
    BY <1>10 DEF Edited
  <2>2. DOMAIN comments' = DOMAIN comments
    BY <1>10 DEF Edited
  <2>3. \A i \in CommentsAt(at)' :
           i \in CommentsAt(at) /\ (comments'[i].rev # 0 => comments[i].rev # 0)
    BY <1>4, <2>1, <2>2
  <2>4. QED
    BY <1>7, <2>3
<1>11. QED
  BY <1>2, <1>8, <1>9, <1>10, CommentsStep

\* RecoverDelivery, deliverStagedComment: for any page, any number of revisions
\* and other people's posts, crashes and lost answers, a revision's review is
\* on the pull request once, and a slot's comment in its place once, unless the
\* page or a failed lookup hid the one that is there.
THEOREM PostedOnce == Spec => []NothingPostedTwice
<1>1. Init => OutcomeInv /\ PostingInv
  <2>1. /\ <<>> \in Seq(Review) /\ <<>> \in Seq(Remark) /\ DOMAIN <<>> = {}
        /\ 0 \in 0 .. MaxOthers /\ 0 \in 0 .. MaxCrashes
    BY BoundsAssumption, EmptySeq
  <2>2. QED
    BY <2>1 DEF Init, OutcomeInv, NotAhead, Achieved, Recorded, TypeInv, TypeOK, Suffix,
                PostingInv, Unposted, ToReview, OneReview, OneComment, CommentsAt
<1>2. PostingInv /\ OutcomeInv' /\ [Next]_vars => PostingInv'
  <2> SUFFICES ASSUME PostingInv, OutcomeInv', [Next]_vars PROVE PostingInv'
    OBVIOUS
  <2>1. TypeInv' /\ Grows
    BY GitHubGrows DEF PostingInv, OutcomeInv
  <2>2. QED
    BY <2>1, UnpostedStep, OneReviewStep, OneCommentStep DEF PostingInv
<1>3. PostingInv => NothingPostedTwice
  <2> SUFFICES ASSUME PostingInv PROVE NothingPostedTwice
    OBVIOUS
  <2>1. /\ DOMAIN reviews = 1 .. Len(reviews) /\ Len(reviews) \in Nat
        /\ DOMAIN comments = 1 .. Len(comments) /\ Len(comments) \in Nat /\ Page \in Nat
    BY Entries, BoundsAssumption DEF PostingInv, OutcomeInv
  <2>2. ASSUME NEW rev \in Revisions,
               Cardinality({i \in DOMAIN reviews : reviews[i].rev = rev}) > 1
        PROVE  Len(reviews) > Page
    <3> DEFINE S == {i \in DOMAIN reviews : reviews[i].rev = rev}
    <3>1. IsFiniteSet(S)
      <4>1. S \subseteq 1 .. Len(reviews)
        BY <2>1
      <4>2. QED
        BY <2>1, <4>1, PlacesFinite
    <3>2. \E i, j \in S : i # j
      <4> HIDE DEF S
      <4>1. Cardinality(S) > 1
        BY <2>2 DEF S
      <4>2. QED
        BY <3>1, <4>1, AtMostOne
    <3>3. ~ (Len(reviews) <= Page)
      BY <3>2 DEF PostingInv, OneReview, Revisions
    <3>4. QED
      BY <2>1, <3>3
  <2>3. ASSUME NEW at \in Places,
               Cardinality({i \in CommentsAt(at) : comments[i].rev # 0}) > 1
        PROVE  blind \/ Cardinality(CommentsAt(at)) > Page
    <3> DEFINE S == {i \in CommentsAt(at) : comments[i].rev # 0}
    <3>1. IsFiniteSet(CommentsAt(at)) /\ IsFiniteSet(S)
      <4>1. CommentsAt(at) \subseteq 1 .. Len(comments) /\ S \subseteq 1 .. Len(comments)
        BY <2>1 DEF CommentsAt
      <4>2. QED
        BY <2>1, <4>1, PlacesFinite
    <3>2. \E i, j \in S : i # j
      <4> HIDE DEF S
      <4>1. Cardinality(S) > 1
        BY <2>3 DEF S
      <4>2. QED
        BY <3>1, <4>1, AtMostOne
    <3>3. blind \/ ~ (Cardinality(CommentsAt(at)) <= Page)
      BY <3>2 DEF PostingInv, OneComment
    <3>4. Cardinality(CommentsAt(at)) \in Nat
      BY <3>1, FS_CardinalityType
    <3>5. QED
      BY <2>1, <3>3, <3>4
  <2>4. QED
    BY <2>2, <2>3 DEF NothingPostedTwice, OneReviewPerKey, OneCommentPerSlot
<1>4. QED
  BY <1>1, <1>2, <1>3, OutcomeInvariant, PTL DEF Spec
==============================================================================
