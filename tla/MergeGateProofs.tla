--------------------------- MODULE MergeGateProofs ---------------------------
(***************************************************************************)
(* Proofs about MergeGate.                                                 *)
(***************************************************************************)
EXTENDS MergeGate, TLAPS

\* An evaluation that has read the verdict has a commit to compare, and one that
\* has read the pull request knows the head it saw.
KnowsHead == {"actor", "adoptIntent", "blockers", "objections", "checks", "suites",
              "merge"}
AtWork ==
    \A w \in Worker :
        /\ pc[w] \notin {"idle", "dispatch"} => task[w] \in Tasks
        /\ pc[w] \in KnowsHead => meta[w] \in Meta

TypeInv == TypeOK /\ AtWork

\* Approvals are pinned to the commits counted as pinned, and the head an
\* evaluation goes on with is one of them.
ApprovalIsPinned == verdict # None /\ verdict.is = "approve" => verdict.at \in pinned
GoesOnApproved ==
    \A w \in Worker :
        /\ pc[w] \in {"meta", "blockers"} => task[w].at \in pinned
        /\ pc[w] \in {"objections", "checks", "suites", "merge"}
              => meta[w].head \in pinned

\* CI that passes has been seen to, and a head only gets as far as the merge when
\* its CI has passed or a lookup failed.
PassingIsPassed == \A h \in Head : ci[h] \in Passing => h \in passed
GoesOnGreen ==
    "apifail" \notin mishaps =>
        \A w \in Worker : pc[w] = "merge" => meta[w].head \in passed

\* Every trace of an authorization: the label, its webhook, an evaluation that
\* found it or the row.
Authorized == {"setIntent", "adoptIntent", "verdict", "meta", "blockers", "objections",
               "checks", "suites", "merge", "consume"}
ConsentBehind ==
    /\ label = "human" => consented
    /\ \A t \in todo : t.job = "label" => consented
    /\ \A w \in Worker : pc[w] \in Authorized => consented

GateInv ==
    /\ TypeInv
    /\ ApprovalIsPinned /\ GoesOnApproved /\ MergesApprovedHead
    /\ PassingIsPassed /\ GoesOnGreen /\ MergesGreenHead
    /\ ConsentBehind /\ OnlyConsentedMerges

-----------------------------------------------------------------------------

\* Every step keeps the types.
LEMMA TypeStep == ASSUME TypeInv, [Next]_vars PROVE TypeInv'
<1> USE MovesAssumption, NoneAssumption
<1> USE DEF TypeInv, TypeOK, AtWork, KnowsHead, Meta, Verdicts, Tasks, Phases, github,
            ext, history
<1>1. ASSUME NEW h \in Head, Push(h) PROVE TypeInv'
  BY <1>1 DEF Push, Move, Report, Task
<1>2. ASSUME NEW who \in {"human", "other"}, Label(who) PROVE TypeInv'
  BY <1>2 DEF Label, Move, Report, Task
<1>3. CASE Unlabel
  BY <1>3 DEF Unlabel, Move, Report, Task
<1>4. CASE Close
  BY <1>4 DEF Close, Move, Report, Task
<1>5. CASE HumanReview
  BY <1>5 DEF HumanReview, Move, Report, Task
<1>6. CASE Dismiss
  BY <1>6 DEF Dismiss, Mishap, Move
<1>7. CASE AskReview
  BY <1>7 DEF AskReview, DispatchReview, Move
<1>8. ASSUME NEW s \in CIStates, CI(s) PROVE TypeInv'
  BY <1>8 DEF CI, Move, Report, Task
<1>9. CASE RefreshClone
  BY <1>9 DEF RefreshClone
<1>10. CASE RunFails
  BY <1>10 DEF RunFails
<1>11. ASSUME NEW v \in {"approve", "reject"}, RunDelivers(v) PROVE TypeInv'
  BY <1>11 DEF RunDelivers, Move, Report, Task
<1>12. CASE Clear
  BY <1>12 DEF Clear
<1>13. ASSUME NEW w \in Worker, Begin(w) PROVE TypeInv'
  BY <1>13 DEF Begin, Goto
<1>14. ASSUME NEW w \in Worker, Settle(w) PROVE TypeInv'
  BY <1>14 DEF Settle, Goto, Task
<1>15. ASSUME NEW w \in Worker, RecordIntent(w) PROVE TypeInv'
  BY <1>15 DEF RecordIntent, SetMergeIntent, Goto
<1>16. ASSUME NEW w \in Worker, Lock(w) PROVE TypeInv'
  BY <1>16 DEF Lock, Goto
<1>17. ASSUME NEW w \in Worker, GetIntent(w) PROVE TypeInv'
  BY <1>17 DEF GetIntent, Goto, GoOn, Reads
<1>18. ASSUME NEW w \in Worker, Adopt(w) PROVE TypeInv'
  BY <1>18 DEF Adopt, Return, Goto, GoOn, Reads, ReadMeta
<1>19. ASSUME NEW w \in Worker, Actor(w) PROVE TypeInv'
  BY <1>19 DEF Actor, Return, Goto, GoOn, Reads
<1>20. ASSUME NEW w \in Worker, AdoptIntent(w) PROVE TypeInv'
  BY <1>20 DEF AdoptIntent, SetMergeIntent, Goto
<1>21. ASSUME NEW w \in Worker, ReadVerdict(w) PROVE TypeInv'
  BY <1>21 DEF ReadVerdict, Return, Goto, GoOn, Reads
<1>22. ASSUME NEW w \in Worker, PullMeta(w) PROVE TypeInv'
  BY <1>22 DEF PullMeta, ReadMeta, Goto, GoOn, Reads
<1>23. ASSUME NEW w \in Worker, Blockers(w) PROVE TypeInv'
  BY <1>23 DEF Blockers, Return, Goto, GoOn, Reads
<1>24. ASSUME NEW w \in Worker, Objections(w) PROVE TypeInv'
  BY <1>24 DEF Objections, Return, Goto, GoOn, Reads
<1>25. ASSUME NEW w \in Worker, Checks(w) PROVE TypeInv'
  BY <1>25 DEF Checks, Return, Goto, GoOn, Reads
<1>26. ASSUME NEW w \in Worker, Suites(w) PROVE TypeInv'
  BY <1>26 DEF Suites, Return, Goto, GoOn, Reads
<1>27. ASSUME NEW w \in Worker, MergePR(w) PROVE TypeInv'
  BY <1>27 DEF MergePR, Report, Task, Goto
<1>28. ASSUME NEW w \in Worker, NotMerged(w) PROVE TypeInv'
  BY <1>28 DEF NotMerged, Return, Goto, GoOn, Reads
<1>29. ASSUME NEW w \in Worker, Refused(w) PROVE TypeInv'
  BY <1>29 DEF Refused, Mishap, Move, Return, Goto
<1>30. ASSUME NEW w \in Worker, Consume(w) PROVE TypeInv'
  BY <1>30 DEF Consume, Return, Goto
<1>31. ASSUME NEW w \in Worker, LookupFails(w) PROVE TypeInv'
  BY <1>31 DEF LookupFails, Mishap, Move, Return, GoOn, Goto
<1>32. ASSUME NEW w \in Worker, GetPushed(w) PROVE TypeInv'
  BY <1>32 DEF GetPushed, Return, Goto, GoOn, Reads
<1>33. ASSUME NEW w \in Worker, SetPushed(w) PROVE TypeInv'
  BY <1>33 DEF SetPushed, Goto
<1>34. ASSUME NEW w \in Worker, Dispatch(w) PROVE TypeInv'
  BY <1>34 DEF Dispatch, DispatchReview, Goto
<1>35. CASE UNCHANGED vars
  BY <1>35 DEF vars
<1>36. QED
  BY <1>1, <1>2, <1>3, <1>4, <1>5, <1>6, <1>7, <1>8, <1>9, <1>10,
     <1>11, <1>12, <1>13, <1>14, <1>15, <1>16, <1>17, <1>18, <1>19, <1>20,
     <1>21, <1>22, <1>23, <1>24, <1>25, <1>26, <1>27, <1>28, <1>29, <1>30,
     <1>31, <1>32, <1>33, <1>34, <1>35
     DEF Next, User, Run, Goroutine, Evaluate

\* Every step keeps approval, CI and consent behind what an evaluation goes on with.
LEMMA GateStep == ASSUME GateInv, [Next]_vars PROVE GateInv'
<1>0. TypeInv'
  BY TypeStep DEF GateInv
<1> DEFINE Rest == /\ ApprovalIsPinned /\ GoesOnApproved /\ MergesApprovedHead
                   /\ PassingIsPassed /\ GoesOnGreen /\ MergesGreenHead
                   /\ ConsentBehind /\ OnlyConsentedMerges
<1> USE NoneAssumption
<1> USE DEF GateInv, TypeInv, TypeOK, AtWork, KnowsHead, Meta, Verdicts, Tasks,
            ApprovalIsPinned, GoesOnApproved, MergesApprovedHead, PassingIsPassed, GoesOnGreen,
            MergesGreenHead, ConsentBehind, OnlyConsentedMerges, Authorized, Passing, github, ext, history
<1>1. ASSUME NEW h \in Head, Push(h) PROVE Rest'
  BY <1>1 DEF Push, Move, Report, Task
<1>2. ASSUME NEW who \in {"human", "other"}, Label(who) PROVE Rest'
  BY <1>2 DEF Label, Move, Report, Task
<1>3. CASE Unlabel
  BY <1>0, <1>3 DEF Unlabel, Move, Report, Task
<1>4. CASE Close
  BY <1>0, <1>4 DEF Close, Move, Report, Task
<1>5. CASE HumanReview
  BY <1>0, <1>5 DEF HumanReview, Move, Report, Task
<1>6. CASE Dismiss
  BY <1>0, <1>6 DEF Dismiss, Mishap, Move
<1>7. CASE AskReview
  BY <1>0, <1>7 DEF AskReview, DispatchReview, Move
<1>8. ASSUME NEW s \in CIStates, CI(s) PROVE Rest'
  BY <1>8 DEF CI, Move, Report, Task
<1>9. CASE RefreshClone
  BY <1>0, <1>9 DEF RefreshClone
<1>10. CASE RunFails
  BY <1>0, <1>10 DEF RunFails
<1>11. ASSUME NEW v \in {"approve", "reject"}, RunDelivers(v) PROVE Rest'
  BY <1>11 DEF RunDelivers, Move, Report, Task
<1>12. CASE Clear
  BY <1>0, <1>12 DEF Clear
<1>13. ASSUME NEW w \in Worker, Begin(w) PROVE Rest'
  BY <1>13 DEF Begin, Goto
<1>14. ASSUME NEW w \in Worker, Settle(w) PROVE Rest'
  BY <1>14 DEF Settle, Goto, Task
<1>15. ASSUME NEW w \in Worker, RecordIntent(w) PROVE Rest'
  BY <1>15 DEF RecordIntent, SetMergeIntent, Goto
<1>16. ASSUME NEW w \in Worker, Lock(w) PROVE Rest'
  BY <1>16 DEF Lock, Goto
<1>17. ASSUME NEW w \in Worker, GetIntent(w) PROVE Rest'
  BY <1>17 DEF GetIntent, Goto, GoOn, Reads
<1>18. ASSUME NEW w \in Worker, Adopt(w) PROVE Rest'
  BY <1>18 DEF Adopt, Return, Goto, GoOn, Reads, ReadMeta
<1>19. ASSUME NEW w \in Worker, Actor(w) PROVE Rest'
  BY <1>19 DEF Actor, Return, Goto, GoOn, Reads
<1>20. ASSUME NEW w \in Worker, AdoptIntent(w) PROVE Rest'
  BY <1>20 DEF AdoptIntent, SetMergeIntent, Goto
<1>21. ASSUME NEW w \in Worker, ReadVerdict(w) PROVE Rest'
  BY <1>21 DEF ReadVerdict, Return, Goto, GoOn, Reads
<1>22. ASSUME NEW w \in Worker, PullMeta(w) PROVE Rest'
  BY <1>22 DEF PullMeta, ReadMeta, Goto, GoOn, Reads
<1>23. ASSUME NEW w \in Worker, Blockers(w) PROVE Rest'
  BY <1>23 DEF Blockers, Return, Goto, GoOn, Reads
<1>24. ASSUME NEW w \in Worker, Objections(w) PROVE Rest'
  BY <1>24 DEF Objections, Return, Goto, GoOn, Reads
<1>25. ASSUME NEW w \in Worker, Checks(w) PROVE Rest'
  BY <1>25 DEF Checks, Return, Goto, GoOn, Reads
<1>26. ASSUME NEW w \in Worker, Suites(w) PROVE Rest'
  BY <1>26 DEF Suites, Return, Goto, GoOn, Reads
<1>27. ASSUME NEW w \in Worker, MergePR(w) PROVE Rest'
  BY <1>27 DEF MergePR, Report, Task, Goto
<1>28. ASSUME NEW w \in Worker, NotMerged(w) PROVE Rest'
  BY <1>28 DEF NotMerged, Return, Goto, GoOn, Reads
<1>29. ASSUME NEW w \in Worker, Refused(w) PROVE Rest'
  BY <1>29 DEF Refused, Mishap, Move, Return, Goto
<1>30. ASSUME NEW w \in Worker, Consume(w) PROVE Rest'
  BY <1>30 DEF Consume, Return, Goto
<1>31. ASSUME NEW w \in Worker, LookupFails(w) PROVE Rest'
  BY <1>31 DEF LookupFails, Mishap, Move, Return, GoOn, Goto
<1>32. ASSUME NEW w \in Worker, GetPushed(w) PROVE Rest'
  BY <1>32 DEF GetPushed, Return, Goto, GoOn, Reads
<1>33. ASSUME NEW w \in Worker, SetPushed(w) PROVE Rest'
  BY <1>33 DEF SetPushed, Goto
<1>34. ASSUME NEW w \in Worker, Dispatch(w) PROVE Rest'
  BY <1>34 DEF Dispatch, DispatchReview, Goto
<1>35. CASE UNCHANGED vars
  BY <1>0, <1>35 DEF vars
<1>36. QED
  BY <1>0, <1>1, <1>2, <1>3, <1>4, <1>5, <1>6, <1>7, <1>8, <1>9, <1>10,
     <1>11, <1>12, <1>13, <1>14, <1>15, <1>16, <1>17, <1>18, <1>19, <1>20,
     <1>21, <1>22, <1>23, <1>24, <1>25, <1>26, <1>27, <1>28, <1>29, <1>30,
     <1>31, <1>32, <1>33, <1>34, <1>35
     DEF Next, User, Run, Goroutine, Evaluate

\* At the start nobody has approved, authorized or begun anything.
LEMMA InitGate == Init => GateInv
<1> SUFFICES ASSUME Init PROVE GateInv
  OBVIOUS
<1>1. TypeInv
  <2>1. 0 \in 0..MaxMoves
    BY MovesAssumption
  <2>2. ci \in [Head -> CIStates]
    BY DEF Init, CIStates
  <2>3. passed \subseteq Head
    BY DEF Init
  <2>4. TypeOK
    BY <2>1, <2>2, <2>3 DEF Init, TypeOK, Phases, Verdicts
  <2>5. AtWork
    BY DEF Init, AtWork, KnowsHead
  <2>6. QED
    BY <2>4, <2>5 DEF TypeInv
<1>2. ApprovalIsPinned /\ GoesOnApproved /\ MergesApprovedHead
  BY DEF Init, ApprovalIsPinned, GoesOnApproved, MergesApprovedHead
<1>3. PassingIsPassed /\ GoesOnGreen /\ MergesGreenHead
  BY DEF Init, PassingIsPassed, GoesOnGreen, MergesGreenHead
<1>4. ConsentBehind /\ OnlyConsentedMerges
  BY DEF Init, ConsentBehind, OnlyConsentedMerges, Authorized
<1>5. QED
  BY <1>1, <1>2, <1>3, <1>4 DEF GateInv

\* The invariant is inductive.
LEMMA GateInvariant == Spec => []GateInv
<1>1. GateInv /\ [Next]_vars => GateInv'
  BY GateStep
<1>2. QED
  BY InitGate, <1>1, PTL DEF Spec

\* The variables keep their types for any commits, goroutines and moves.
THEOREM TypeCorrect == Spec => []TypeOK
<1>1. GateInv => TypeOK
  BY DEF GateInv, TypeInv
<1>2. QED
  BY GateInvariant, <1>1, PTL

\* merge.go:313 "A push after the approval invalidates it": whatever is pushed, read
\* and refused in whatever order, what is merged has an approval pinned to it.
THEOREM ApprovedHead == Spec => []MergesApprovedHead
<1>1. GateInv => MergesApprovedHead
  BY DEF GateInv
<1>2. QED
  BY GateInvariant, <1>1, PTL

\* merge.go:261 "its checks are green": and, with lookups that answer, its CI passed.
THEOREM GreenHead == Spec => []MergesGreenHead
<1>1. GateInv => MergesGreenHead
  BY DEF GateInv
<1>2. QED
  BY GateInvariant, <1>1, PTL

\* merge.go:328 "failing closed on any doubt about who applied it": and an allowed
\* human has put the label on.
THEOREM Consented == Spec => []OnlyConsentedMerges
<1>1. GateInv => OnlyConsentedMerges
  BY DEF GateInv
<1>2. QED
  BY GateInvariant, <1>1, PTL

-----------------------------------------------------------------------------
(***************************************************************************)
(* No wake-up is lost.  A standing intent on a pull request that could be  *)
(* merged has an evaluation still to come, which will read everything      *)
(* anew, or one under way that has read nothing to the contrary so far.    *)
(***************************************************************************)

\* tryMerge, from its lock on.
Locked == {"getIntent", "adopt", "actor", "adoptIntent", "verdict", "meta", "blockers",
           "objections", "checks", "suites", "merge", "consume", "getPushed", "setPushed"}

\* One evaluation at a time; it starts with nothing read.
OneEvaluation ==
    /\ \A w \in Worker : pc[w] \in Locked => mu = w
    /\ \A w \in Worker : pc[w] \in {"idle", "setIntent", "lock", "getIntent", "adopt", "getPushed",
                                    "setPushed", "dispatch"} => meta[w] = None
    /\ \A w \in Worker : pc[w] = "setIntent" => task[w].job = "label"

\* An evaluation that waits for the one under way, or has yet to be started.
ToCome ==
    \/ Task("event") \in todo \/ Task("label") \in todo
    \/ \E w \in Worker : pc[w] = "setIntent" \/ (pc[w] = "lock" /\ task[w].job # "push")

\* One that will merge, if nothing changes.
Current(w) == meta[w].head = head /\ meta[w].pr = pr
Promising(w) ==
    \/ pc[w] = "getIntent"
    \/ pc[w] = "verdict" /\ (meta[w] = None \/ Current(w))
    \/ pc[w] = "meta" /\ task[w].at = head
    \/ pc[w] = "blockers" /\ task[w].at = head /\ Current(w)
    \/ pc[w] \in {"objections", "checks", "suites", "merge"} /\ meta[w].head = head

\* An adoption may have read the head before a push: the push is then to come.  It
\* has not read a pull request that is open again.
AdoptionIsCurrent ==
    \A w \in Worker : pc[w] \in {"actor", "adoptIntent"} =>
        /\ meta[w].head # head => ToCome
        /\ meta[w].pr # pr => pr # "open"

MergeIsOwed ==
    mishaps = {} /\ intent # None /\ Mergeable => ToCome \/ \E w \in Worker : Promising(w)

WakeInv == TypeInv /\ OneEvaluation /\ AdoptionIsCurrent /\ MergeIsOwed

-----------------------------------------------------------------------------

\* The lock keeps it at one evaluation.
LEMMA OneEvaluationStep ==
    ASSUME TypeInv, OneEvaluation, [Next]_vars
    PROVE  OneEvaluation'
<1> USE NoneAssumption
<1> USE DEF TypeInv, TypeOK, AtWork, OneEvaluation, Locked
<1>1. CASE UNCHANGED <<pc, mu, meta, task>>
  BY <1>1
<1>2. CASE User \/ Run \/ Clear
  BY <1>1, <1>2 DEF User, Run, Push, Label, Unlabel, Close, HumanReview, Dismiss, AskReview, CI,
     RefreshClone, RunFails, RunDelivers, Clear, ext
<1>3. ASSUME NEW w \in Worker, Begin(w) PROVE OneEvaluation'
  BY <1>3 DEF Begin, Goto
<1>4. ASSUME NEW w \in Worker, Settle(w) PROVE OneEvaluation'
  BY <1>4 DEF Settle, Goto, Task
<1>5. ASSUME NEW w \in Worker, RecordIntent(w) PROVE OneEvaluation'
  BY <1>5 DEF RecordIntent, Goto
<1>6. ASSUME NEW w \in Worker, Lock(w) PROVE OneEvaluation'
  BY <1>6 DEF Lock, Goto
<1>7. ASSUME NEW w \in Worker, GetIntent(w) PROVE OneEvaluation'
  BY <1>7 DEF GetIntent, Goto, GoOn
<1>8. ASSUME NEW w \in Worker, Adopt(w) PROVE OneEvaluation'
  BY <1>8 DEF Adopt, Return, Goto, GoOn, ReadMeta
<1>9. ASSUME NEW w \in Worker, Actor(w) PROVE OneEvaluation'
  BY <1>9 DEF Actor, Return, Goto, GoOn
<1>10. ASSUME NEW w \in Worker, AdoptIntent(w) PROVE OneEvaluation'
  BY <1>10 DEF AdoptIntent, Goto
<1>11. ASSUME NEW w \in Worker, ReadVerdict(w) PROVE OneEvaluation'
  BY <1>11 DEF ReadVerdict, Return, Goto, GoOn
<1>12. ASSUME NEW w \in Worker, PullMeta(w) PROVE OneEvaluation'
  BY <1>12 DEF PullMeta, ReadMeta, Goto, GoOn
<1>13. ASSUME NEW w \in Worker, Blockers(w) PROVE OneEvaluation'
  BY <1>13 DEF Blockers, Return, Goto, GoOn
<1>14. ASSUME NEW w \in Worker, Objections(w) PROVE OneEvaluation'
  BY <1>14 DEF Objections, Return, Goto, GoOn
<1>15. ASSUME NEW w \in Worker, Checks(w) PROVE OneEvaluation'
  BY <1>15 DEF Checks, Return, Goto, GoOn
<1>16. ASSUME NEW w \in Worker, Suites(w) PROVE OneEvaluation'
  BY <1>16 DEF Suites, Return, Goto, GoOn
<1>17. ASSUME NEW w \in Worker, MergePR(w) PROVE OneEvaluation'
  BY <1>17 DEF MergePR, Goto
<1>18. ASSUME NEW w \in Worker, NotMerged(w) PROVE OneEvaluation'
  BY <1>18 DEF NotMerged, Return, Goto
<1>19. ASSUME NEW w \in Worker, Refused(w) PROVE OneEvaluation'
  BY <1>19 DEF Refused, Return, Goto
<1>20. ASSUME NEW w \in Worker, Consume(w) PROVE OneEvaluation'
  BY <1>20 DEF Consume, Return, Goto
<1>21. ASSUME NEW w \in Worker, LookupFails(w) PROVE OneEvaluation'
  BY <1>21 DEF LookupFails, Return, GoOn, Goto
<1>22. ASSUME NEW w \in Worker, GetPushed(w) PROVE OneEvaluation'
  BY <1>22 DEF GetPushed, Return, Goto, GoOn
<1>23. ASSUME NEW w \in Worker, SetPushed(w) PROVE OneEvaluation'
  BY <1>23 DEF SetPushed, Goto
<1>24. ASSUME NEW w \in Worker, Dispatch(w) PROVE OneEvaluation'
  BY <1>24 DEF Dispatch, Goto
<1>25. QED
  BY <1>1, <1>2, <1>3, <1>4, <1>5, <1>6, <1>7, <1>8, <1>9, <1>10, <1>11, <1>12, <1>13, <1>14,
     <1>15, <1>16, <1>17, <1>18, <1>19, <1>20, <1>21, <1>22, <1>23, <1>24
     DEF Next, Goroutine, Evaluate, vars

\* Only the evaluation that holds the lock is promising or adopting.
LEMMA TheOneEvaluation ==
    ASSUME OneEvaluation, NEW v \in Worker, NEW w \in Worker, pc[w] \in Locked,
           Promising(v) \/ pc[v] \in {"actor", "adoptIntent"}
    PROVE  v = w
  BY DEF OneEvaluation, Locked, Promising

\* What is to come stays to come while another evaluation takes its steps.
LEMMA OthersWait ==
    ASSUME TypeInv, ToCome, NEW w \in Worker, pc[w] \in Locked, todo \subseteq todo',
           \A v \in Worker \ {w} : pc'[v] = pc[v] /\ task'[v] = task[v]
    PROVE  ToCome'
  BY DEF ToCome, Locked

\* The steps of GitHub and of its users: those that may make the pull request
\* mergeable, or an evaluation out of date, are reported.
LEMMA WorldKeepsWake ==
    ASSUME WakeInv, UNCHANGED <<intent, mu, pc, task, meta>>, todo \subseteq todo',
           pr' = pr \/ pr' = "closed",
           \/ Task("event") \in todo'
           \/ head' = head /\ (mishaps' = {} /\ Mergeable' => mishaps = {} /\ Mergeable)
    PROVE  AdoptionIsCurrent' /\ MergeIsOwed'
<1>1. ToCome => ToCome'
  BY DEF ToCome
<1>2. CASE Task("event") \in todo'
  <2>1. ToCome'
    BY <1>2 DEF ToCome, Task
  <2>2. QED
    BY <2>1 DEF WakeInv, AdoptionIsCurrent, MergeIsOwed
<1>3. CASE head' = head /\ (mishaps' = {} /\ Mergeable' => mishaps = {} /\ Mergeable)
  <2>1. AdoptionIsCurrent'
    BY <1>1, <1>3 DEF WakeInv, AdoptionIsCurrent
  <2>2. MergeIsOwed'
    <3> SUFFICES ASSUME mishaps' = {}, intent' # None, Mergeable'
                 PROVE  ToCome' \/ \E v \in Worker : Promising(v)'
      BY DEF MergeIsOwed
    <3>1. mishaps = {} /\ Mergeable /\ intent # None /\ pr' = pr
      BY <1>3 DEF Mergeable
    <3>2. \A v \in Worker : Promising(v) => Promising(v)'
      BY <1>3, <3>1 DEF Promising, Current
    <3>3. QED
      BY <1>1, <3>1, <3>2 DEF WakeInv, MergeIsOwed
  <2>3. QED
    BY <2>1, <2>2
<1>4. QED
  BY <1>2, <1>3

\* A step of the evaluation that holds the lock.
LEMMA EvaluationKeepsWake ==
    ASSUME WakeInv, NEW w \in Worker, pc[w] \in Locked,
           UNCHANGED <<head, pr, verdict, objected, ci>>, todo \subseteq todo',
           \A v \in Worker \ {w} : pc'[v] = pc[v] /\ task'[v] = task[v] /\ meta'[v] = meta[v],
           pc'[w] \in {"actor", "adoptIntent"} =>
               /\ meta'[w].head # head => ToCome
               /\ meta'[w].pr # pr => pr # "open",
           mishaps' = {} => mishaps = {},
           mishaps' = {} /\ intent' # None /\ Mergeable =>
               (intent = None \/ Promising(w) => ToCome \/ Promising(w)')
    PROVE  AdoptionIsCurrent' /\ MergeIsOwed'
<1>1. TypeInv /\ OneEvaluation /\ AdoptionIsCurrent /\ MergeIsOwed
  BY DEF WakeInv
<1>2. ToCome => ToCome'
  BY <1>1, OthersWait
<1>3. AdoptionIsCurrent'
  <2> SUFFICES ASSUME NEW v \in Worker, pc'[v] \in {"actor", "adoptIntent"}
               PROVE  (meta'[v].head # head => ToCome') /\ (meta'[v].pr # pr => pr # "open")
    BY DEF AdoptionIsCurrent
  <2>1. CASE v = w
    BY <1>2, <2>1
  <2>2. CASE v # w
    BY <1>1, <2>2, TheOneEvaluation
  <2>3. QED
    BY <2>1, <2>2
<1>4. MergeIsOwed'
  <2> SUFFICES ASSUME mishaps' = {}, intent' # None, Mergeable
               PROVE  ToCome' \/ Promising(w)'
    BY DEF MergeIsOwed, Mergeable
  <2>1. intent # None => ToCome \/ Promising(w)
    BY <1>1, TheOneEvaluation DEF MergeIsOwed
  <2>2. QED
    BY <1>2, <2>1
<1>5. QED
  BY <1>3, <1>4

\* Every step keeps an evaluation to come, or one that is promising.
LEMMA WakeStep ==
    ASSUME WakeInv, [Next]_vars
    PROVE  AdoptionIsCurrent' /\ MergeIsOwed'
<1> USE NoneAssumption
<1>1. TypeInv /\ OneEvaluation /\ AdoptionIsCurrent /\ MergeIsOwed
  BY DEF WakeInv
<1>2. CASE User \/ Run
  <2>1. UNCHANGED <<intent, mu, pc, task, meta>> /\ todo \subseteq todo'
    BY <1>2 DEF User, Run, Push, Label, Unlabel, Close, HumanReview, Dismiss, AskReview, CI,
       RefreshClone, RunFails, RunDelivers, github, ext, Report
  <2>2. /\ pr' = pr \/ pr' = "closed"
        /\ \/ Task("event") \in todo'
           \/ head' = head /\ (mishaps' = {} /\ Mergeable' => mishaps = {} /\ Mergeable)
    <3>1. ASSUME (\E h \in Head : Push(h)) \/ HumanReview \/ \E v \in {"approve", "reject"} : RunDelivers(v)
          PROVE  Task("event") \in todo' /\ pr' = pr
      BY <3>1 DEF Push, HumanReview, RunDelivers, Report
    <3>2. ASSUME (\E who \in {"human", "other"} : Label(who)) \/ Unlabel \/ AskReview \/ RefreshClone \/ RunFails
          PROVE  UNCHANGED <<head, pr, verdict, objected, ci, mishaps>>
      BY <3>2 DEF Label, Unlabel, AskReview, RefreshClone, RunFails, github, history
    <3>3. CASE Close
      BY <3>3 DEF Close, Mergeable
    <3>4. CASE Dismiss
      BY <3>4 DEF Dismiss, Mishap
    <3>5. ASSUME NEW s \in CIStates, CI(s)
          PROVE  /\ pr' = pr
                 /\ Task("event") \in todo' \/ (head' = head /\ ~ Mergeable')
      BY <1>1, <3>5 DEF CI, Report, Mergeable, Passing, TypeInv, TypeOK
    <3>6. QED
      BY <1>2, <3>1, <3>2, <3>3, <3>4, <3>5 DEF User, Run, Mergeable
  <2>3. QED
    BY <2>1, <2>2, WorldKeepsWake
<1>3. CASE Clear
  <2>1. intent' = None /\ UNCHANGED <<head, pr, pc, task, meta>>
    BY <1>3 DEF Clear, github
  <2>2. ToCome => ToCome'
    BY <1>3, <2>1 DEF Clear, ToCome, Task
  <2>3. QED
    BY <1>1, <2>1, <2>2 DEF AdoptionIsCurrent, MergeIsOwed
<1>4. ASSUME NEW w \in Worker,
             Begin(w) \/ Settle(w) \/ RecordIntent(w) \/ Lock(w) \/ Dispatch(w)
      PROVE  AdoptionIsCurrent' /\ MergeIsOwed'
  <2>1. /\ UNCHANGED <<head, pr, verdict, objected, ci, mishaps, meta>>
        /\ \A v \in Worker \ {w} : pc'[v] = pc[v] /\ task'[v] = task[v]
        /\ pc[w] \in {"idle", "setIntent", "lock", "dispatch"}
        /\ pc'[w] \in {"idle", "setIntent", "lock", "getIntent", "getPushed"}
    BY <1>1, <1>4 DEF Begin, Settle, RecordIntent, Lock, Dispatch, Goto, github, history,
       TypeInv, TypeOK
  <2>2. ToCome => ToCome' \/ Promising(w)'
    <3>1. CASE Begin(w)
      BY <1>1, <2>1, <3>1 DEF Begin, Goto, ToCome, Task, TypeInv, TypeOK
    <3>2. CASE Settle(w) \/ Dispatch(w)
      BY <1>1, <2>1, <3>2 DEF Settle, Dispatch, Goto, ToCome, Task, TypeInv, TypeOK
    <3>3. CASE RecordIntent(w)
      BY <1>1, <2>1, <3>3 DEF RecordIntent, Goto, ToCome, Task, TypeInv, TypeOK, OneEvaluation
    <3>4. CASE Lock(w)
      BY <1>1, <2>1, <3>4 DEF Lock, Goto, ToCome, Promising, Task, TypeInv, TypeOK
    <3>5. QED
      BY <1>4, <3>1, <3>2, <3>3, <3>4
  <2>3. \A v \in Worker : Promising(v) \/ pc[v] \in {"actor", "adoptIntent"}
            => v # w /\ ~ Lock(w)
    BY <1>1, <2>1 DEF Promising, Locked, OneEvaluation, Lock
  <2>4. AdoptionIsCurrent'
    <3> SUFFICES ASSUME NEW v \in Worker, pc'[v] \in {"actor", "adoptIntent"}
                 PROVE  (meta[v].head # head => ToCome') /\ (meta[v].pr # pr => pr # "open")
      BY <2>1 DEF AdoptionIsCurrent
    <3>1. v # w /\ pc[v] \in {"actor", "adoptIntent"} /\ ~ Lock(w)
      BY <2>1, <2>3
    <3>2. ~ Promising(w)'
      BY <1>1, <1>4, <2>1, <3>1 DEF Begin, Settle, RecordIntent, Dispatch, Goto, Promising,
         TypeInv, TypeOK
    <3>3. QED
      BY <1>1, <2>2, <3>1, <3>2 DEF AdoptionIsCurrent
  <2>5. MergeIsOwed'
    <3> SUFFICES ASSUME mishaps' = {}, intent' # None, Mergeable'
                 PROVE  ToCome' \/ \E v \in Worker : Promising(v)'
      BY DEF MergeIsOwed
    <3>1. mishaps = {} /\ Mergeable
      BY <2>1 DEF Mergeable
    <3>2. CASE RecordIntent(w)
      BY <1>1, <2>1, <3>2 DEF RecordIntent, Goto, ToCome, TypeInv, TypeOK, OneEvaluation
    <3>3. CASE ~ RecordIntent(w)
      <4>1. intent' = intent
        BY <1>4, <3>3 DEF Begin, Settle, Lock, Dispatch
      <4>2. ToCome \/ \E v \in Worker : Promising(v)
        BY <1>1, <3>1, <4>1 DEF MergeIsOwed
      <4>3. ASSUME NEW v \in Worker, Promising(v) PROVE Promising(v)'
        BY <2>1, <2>3, <4>3 DEF Promising, Current
      <4>4. QED
        BY <2>2, <4>2, <4>3
    <3>4. QED
      BY <3>2, <3>3
  <2>6. QED
    BY <2>4, <2>5
<1>5. ASSUME NEW w \in Worker, MergePR(w) PROVE AdoptionIsCurrent' /\ MergeIsOwed'
  <2>1. /\ pr' = "merged" /\ head' = head /\ meta' = meta /\ todo \subseteq todo' /\ pc[w] = "merge"
        /\ pc'[w] = "consume" /\ \A v \in Worker \ {w} : pc'[v] = pc[v] /\ task'[v] = task[v]
    BY <1>1, <1>5 DEF MergePR, Goto, Report, TypeInv, TypeOK
  <2>2. \A v \in Worker : pc'[v] \notin {"actor", "adoptIntent"}
    BY <1>1, <2>1, TheOneEvaluation DEF Locked
  <2>3. QED
    BY <2>1, <2>2 DEF AdoptionIsCurrent, MergeIsOwed, Mergeable
<1>6. ASSUME NEW w \in Worker,
             \/ GetIntent(w) \/ Adopt(w) \/ Actor(w) \/ AdoptIntent(w) \/ ReadVerdict(w)
             \/ PullMeta(w) \/ Blockers(w) \/ Objections(w) \/ Checks(w) \/ Suites(w)
             \/ NotMerged(w) \/ Refused(w) \/ Consume(w) \/ LookupFails(w)
             \/ GetPushed(w) \/ SetPushed(w)
      PROVE  AdoptionIsCurrent' /\ MergeIsOwed'
  <2>1. /\ pc[w] \in Locked /\ UNCHANGED <<head, pr, verdict, objected, ci, todo>>
        /\ mishaps' = {} => mishaps = {}
        /\ \A v \in Worker \ {w} : pc'[v] = pc[v] /\ task'[v] = task[v] /\ meta'[v] = meta[v]
    BY <1>1, <1>6 DEF GetIntent, Adopt, Actor, AdoptIntent, ReadVerdict, PullMeta, Blockers,
       Objections, Checks, Suites, NotMerged, Refused, Consume, LookupFails, GetPushed, SetPushed,
       Return, Reads, ReadMeta, GoOn, Goto, github, history, Mishap, Locked, TypeInv, TypeOK
  <2>2. pc'[w] \in {"actor", "adoptIntent"} =>
            /\ meta'[w].head # head => ToCome
            /\ meta'[w].pr # pr => pr # "open"
    <3>1. CASE Adopt(w) \/ Actor(w)
      BY <1>1, <3>1 DEF Adopt, Actor, Return, ReadMeta, GoOn, Goto, AdoptionIsCurrent, TypeInv,
         TypeOK
    <3>2. CASE ~ (Adopt(w) \/ Actor(w))
      <4>1. pc'[w] \notin {"actor", "adoptIntent"}
        BY <1>1, <1>6, <3>2 DEF GetIntent, AdoptIntent, ReadVerdict, PullMeta, Blockers, Objections,
           Checks, Suites, NotMerged, Refused, Consume, LookupFails, GetPushed, SetPushed, Return,
           GoOn, Goto, TypeInv, TypeOK
      <4>2. QED
        BY <4>1
    <3>3. QED
      BY <3>1, <3>2
  <2>3. ASSUME mishaps' = {}, intent' # None, Mergeable, intent = None \/ Promising(w)
        PROVE  ToCome \/ Promising(w)'
    <3>1. CASE GetIntent(w)
      BY <1>1, <2>3, <3>1 DEF GetIntent, GoOn, Goto, Promising, OneEvaluation, Reads
    <3>2. CASE Adopt(w) \/ Actor(w)
      BY <1>1, <2>3, <3>2 DEF Adopt, Actor, Promising, Reads
    <3>3. CASE AdoptIntent(w)
      BY <1>1, <2>3, <3>3 DEF AdoptIntent, Goto, Mergeable, Promising, Current, TypeInv, TypeOK,
         github, AdoptionIsCurrent
    <3>4. CASE ReadVerdict(w)
      BY <1>1, <2>3, <3>4 DEF ReadVerdict, Goto, Mergeable, Promising, Current, TypeInv, TypeOK,
         AtWork, github, Reads, Tasks
    <3>5. CASE PullMeta(w)
      BY <1>1, <2>3, <3>5 DEF PullMeta, ReadMeta, GoOn, Goto, Promising, Current, TypeInv,
         TypeOK, github, Reads
    <3>6. CASE Blockers(w)
      BY <1>1, <2>3, <3>6 DEF Blockers, GoOn, Goto, Promising, Current, TypeInv, TypeOK, github
    <3>7. CASE Objections(w)
      BY <1>1, <2>3, <3>7 DEF Objections, GoOn, Goto, Mergeable, Promising, TypeInv, TypeOK,
         github, Reads
    <3>8. CASE Checks(w)
      BY <1>1, <2>3, <3>8 DEF Checks, GoOn, Goto, Mergeable, Promising, TypeInv, TypeOK, github,
         Reads, Passing
    <3>9. CASE Suites(w)
      BY <1>1, <2>3, <3>9 DEF Suites, GoOn, Goto, Mergeable, Promising, TypeInv, TypeOK, github,
         Reads
    <3>10. CASE NotMerged(w) \/ Consume(w)
      BY <1>1, <2>3, <3>10 DEF NotMerged, Consume, Mergeable, Promising, Reads
    <3>11. CASE Refused(w) \/ LookupFails(w)
      BY <1>1, <2>3, <3>11 DEF Refused, LookupFails, Mishap
    <3>12. CASE GetPushed(w) \/ SetPushed(w)
      BY <1>1, <2>3, <3>12 DEF GetPushed, SetPushed, Promising, Reads
    <3>13. QED
      BY <1>6, <3>1, <3>2, <3>3, <3>4, <3>5, <3>6, <3>7, <3>8, <3>9, <3>10, <3>11, <3>12
  <2>4. QED
    BY <2>1, <2>2, <2>3, EvaluationKeepsWake
<1>7. CASE UNCHANGED vars
  <2>1. UNCHANGED <<intent, mu, pc, task, meta, todo, head, pr, mishaps, verdict, objected, ci>>
    BY <1>7 DEF vars, github, history
  <2>2. QED
    BY <2>1, WorldKeepsWake DEF Mergeable
<1>8. QED
  BY <1>2, <1>3, <1>4, <1>5, <1>6, <1>7 DEF Next, Goroutine, Evaluate

\* The invariant is inductive.
LEMMA WakeInvariant == Spec => []WakeInv
<1>1. Init => WakeInv
  <2> SUFFICES ASSUME Init PROVE WakeInv
    OBVIOUS
  <2>1. TypeInv
    BY InitGate DEF GateInv
  <2>2. OneEvaluation
    BY DEF Init, OneEvaluation, Locked
  <2>3. AdoptionIsCurrent /\ MergeIsOwed
    BY DEF Init, AdoptionIsCurrent, MergeIsOwed
  <2>4. QED
    BY <2>1, <2>2, <2>3 DEF WakeInv
<1>2. WakeInv /\ [Next]_vars => WakeInv'
  BY TypeStep, OneEvaluationStep, WakeStep DEF WakeInv
<1>3. QED
  BY <1>1, <1>2, PTL DEF Spec

\* merge.go:262 "Re-run per event, no polling": for any commits, goroutines and
\* moves, no wake-up is lost, in whatever order the webhooks come.
THEOREM NoneForgotten == Spec => []NoMergeForgotten
<1>1. WakeInv => NoMergeForgotten
  <2> SUFFICES ASSUME WakeInv, Quiet, intent # None, mishaps = {}, Mergeable PROVE FALSE
    BY DEF NoMergeForgotten
  <2>1. ~ ToCome /\ \A w \in Worker : ~ Promising(w)
    BY DEF Quiet, ToCome, Promising
  <2>2. QED
    BY <2>1 DEF WakeInv, MergeIsOwed
<1>2. QED
  BY <1>1, WakeInvariant, PTL

=============================================================================
