---------------------------- MODULE AutoHealProofs ----------------------------
(***************************************************************************)
(* Proofs about AutoHeal.                                                  *)
(***************************************************************************)
EXTENDS AutoHeal, SequenceTheorems, TLAPS

\* A goroutine at work has a task of the kind its place in the code is for.
Healing == {"eligible", "lock", "getState", "author", "stop"}
AtWork ==
    \A w \in Worker :
        /\ pc[w] # "idle" => task[w] \in Tasks
        /\ pc[w] \in Healing => task[w].job = "heal"
        /\ pc[w] \in {"delete", "checks"} => task[w].job = "label"

TypeInv == TypeOK /\ AtWork

\* No webhook is about a commit that does not exist.
CommitsExist ==
    /\ author[head] # "none"
    /\ \A t \in todo : author[t.at] # "none"
    /\ \A w \in Worker : pc[w] # "idle" => author[task[w].at] # "none"

\* A failing workflow's goroutine in autoHeal's critical section.
Inside(w) == /\ pc[w] \in {"getState", "author", "stop", "persist", "dispatch"}
             /\ task[w].job = "heal"

LockHeld == \A w \in Worker : Inside(w) => mu = w

\* The row is what was recorded last.
RowIsLast ==
    /\ state = None => fixes = <<>>
    /\ state # None => fixes # <<>> /\ state.sha = fixes[Len(fixes)].at

\* What GetState and Author found still holds when the heal is recorded: what was
\* recorded last is not a heal of this commit, ...
NewCommit ==
    \A w \in Worker :
        Inside(w) /\ pc[w] \in {"author", "persist"}
            => ~ (Len(fixes) \in Heals /\ fixes[Len(fixes)].at = task[w].at)

\* ... and it is the first heal, or of a human's commit.
FirstOrHuman ==
    \A w \in Worker :
        Inside(w) /\ pc[w] = "persist" => Heals = {} \/ author[task[w].at] = "human"

HealInv ==
    /\ TypeInv /\ CommitsExist /\ LockHeld /\ RowIsLast /\ NewCommit /\ FirstOrHuman
    /\ OwnFixStops /\ NoHealTwiceInARow

-----------------------------------------------------------------------------

\* What is recorded is a row and an entry of the history.
LEMMA RecordType ==
    ASSUME TypeInv, NEW w \in Worker, pc[w] # "idle",
           NEW as \in {"heal", "label", "stop"}, Record(w, as)
    PROVE  /\ state' \in Row
           /\ fixes' \in Seq(Fixes)
<1> DEFINE new == [job |-> as, at |-> task[w].at]
<1>1. task[w] \in Tasks
  BY DEF TypeInv, AtWork
<1>2. new \in Fixes
  BY <1>1 DEF Tasks, Fixes
<1>3. fixes \in Seq(Fixes) /\ fixes' = Append(fixes, new)
  BY DEF TypeInv, TypeOK, Record
<1>4. fixes' \in Seq(Fixes)
  BY <1>2, <1>3, AppendProperties
<1>5. state' \in Row
  BY <1>1 DEF Record, Row, Tasks
<1>6. QED
  BY <1>4, <1>5

\* What is recorded is appended.
LEMMA RecordAppends ==
    ASSUME TypeInv, NEW w \in Worker, pc[w] # "idle",
           NEW as \in {"heal", "label", "stop"}, Record(w, as)
    PROVE  /\ Len(fixes) \in Nat /\ DOMAIN fixes = 1..Len(fixes)
           /\ Len(fixes') = Len(fixes) + 1 /\ DOMAIN fixes' = 1..(Len(fixes) + 1)
           /\ \A i \in 1..Len(fixes) : fixes'[i] = fixes[i]
           /\ fixes'[Len(fixes) + 1] = [job |-> as, at |-> task[w].at]
           /\ fixes' # <<>>
<1> DEFINE new == [job |-> as, at |-> task[w].at]
<1>1. task[w] \in Tasks
  BY DEF TypeInv, AtWork
<1>2. new \in Fixes
  BY <1>1 DEF Tasks, Fixes
<1>3. fixes \in Seq(Fixes) /\ fixes' = Append(fixes, new)
  BY DEF TypeInv, TypeOK, Record
<1>4. QED
  BY <1>2, <1>3, AppendProperties, LenProperties

\* An empty history is a history.
LEMMA Nothing == <<>> \in Seq(Fixes)
  OBVIOUS

\* Every step keeps the types and the tasks' kinds.
LEMMA TypeStep == ASSUME TypeInv, [Next]_vars PROVE TypeInv'
<1> USE FaultsAssumption, NoneAssumption
<1> USE DEF TypeInv, TypeOK, AtWork, Healing, Tasks, Fixes, github, ext
<1>1. ASSUME NEW c \in Commit, HumanPush(c) PROVE TypeInv'
  BY <1>1 DEF HumanPush, NewHead, Move
<1>2. ASSUME NEW c \in Commit, RunPushes(c) PROVE TypeInv'
  BY <1>2 DEF RunPushes, NewHead
<1>3. ASSUME NEW c \in Commit, NEW f \in Workflow, Fail(c, f) PROVE TypeInv'
  BY <1>3 DEF Fail, Move
<1>4. CASE Label
  BY <1>4 DEF Label, Move
<1>5. CASE RunEnds
  BY <1>5 DEF RunEnds
<1>6. CASE Crash
  BY <1>6 DEF Crash, Move
<1>7. ASSUME NEW w \in Worker, Begin(w) PROVE TypeInv'
  BY <1>7 DEF Begin, Goto
<1>8. ASSUME NEW w \in Worker, Eligible(w) PROVE TypeInv'
  BY <1>8 DEF Eligible, GoOn, Goto, Reads
<1>9. ASSUME NEW w \in Worker, NotEligible(w) PROVE TypeInv'
  BY <1>9 DEF NotEligible, Return, Goto, Reads
<1>10. ASSUME NEW w \in Worker, LookupFails(w) PROVE TypeInv'
  BY <1>10 DEF LookupFails, Return, Goto, Reads
<1>11. ASSUME NEW w \in Worker, Lock(w) PROVE TypeInv'
  BY <1>11 DEF Lock, Goto, Reads
<1>12. ASSUME NEW w \in Worker, GetState(w) PROVE TypeInv'
  <2>1. CASE Return(w)
    BY <1>12, <2>1 DEF GetState, Return, Goto, Reads
  <2>2. CASE GoOn(w, "persist") \/ GoOn(w, "author")
    BY <1>12, <2>2 DEF GetState, GoOn, Goto, Reads
  <2>3. QED
    BY <1>12, <2>1, <2>2 DEF GetState
<1>13. ASSUME NEW w \in Worker, Author(w) PROVE TypeInv'
  BY <1>13 DEF Author, GoOn, Goto, Reads
<1>14. ASSUME NEW w \in Worker, Stop(w) PROVE TypeInv'
  <2>1. /\ state' \in Row \cup {None}
        /\ fixes' \in Seq(Fixes)
    <3>1. pc[w] # "idle"
      BY <1>14 DEF Stop
    <3>2. CASE Record(w, "stop")
      BY <3>1, <3>2, RecordType
    <3>3. CASE StoreFails
      BY <3>3 DEF StoreFails
    <3>4. QED
      BY <1>14, <3>2, <3>3 DEF Stop
  <2>2. QED
    BY <1>14, <2>1 DEF Stop, Return, Goto
<1>15. ASSUME NEW w \in Worker, Delete(w) PROVE TypeInv'
  BY <1>15, Nothing DEF Delete, StoreFails, GoOn, Goto
<1>16. ASSUME NEW w \in Worker, Checks(w) PROVE TypeInv'
  <2>1. CASE Return(w)
    BY <1>16, <2>1 DEF Checks, Return, Goto, Reads
  <2>2. CASE GoOn(w, "persist")
    BY <1>16, <2>2 DEF Checks, GoOn, Goto, Reads
  <2>3. QED
    BY <1>16, <2>1, <2>2 DEF Checks
<1>17. ASSUME NEW w \in Worker, Persist(w) PROVE TypeInv'
  <2>1. CASE Record(w, task[w].job) /\ GoOn(w, "dispatch")
    <3>1. pc[w] # "idle" /\ task[w].job \in {"heal", "label", "stop"}
      BY <1>17 DEF Persist
    <3>2. /\ state' \in Row
          /\ fixes' \in Seq(Fixes)
      BY <2>1, <3>1, RecordType
    <3>3. QED
      BY <1>17, <2>1, <3>2 DEF Persist, GoOn, Goto
  <2>2. CASE StoreFails /\ Return(w)
    BY <1>17, <2>2 DEF Persist, StoreFails, Return, Goto
  <2>3. QED
    BY <1>17, <2>1, <2>2 DEF Persist
<1>18. ASSUME NEW w \in Worker, Dispatch(w) PROVE TypeInv'
  BY <1>18 DEF Dispatch, Return, Goto
<1>19. CASE UNCHANGED vars
  BY <1>19 DEF vars
<1>20. QED
  BY <1>1, <1>2, <1>3, <1>4, <1>5, <1>6, <1>7, <1>8, <1>9, <1>10, <1>11, <1>12,
     <1>13, <1>14, <1>15, <1>16, <1>17, <1>18, <1>19
     DEF Next, Environment, Goroutine

\* Webhooks and goroutines are about commits that exist, and the critical section
\* is held by one goroutine, whatever stops or fails in it.
LEMMA LockStep ==
    ASSUME TypeInv, CommitsExist, LockHeld, [Next]_vars
    PROVE  CommitsExist' /\ LockHeld'
<1> DEFINE Goal == CommitsExist /\ LockHeld
<1> USE NoneAssumption
<1> USE DEF TypeInv, TypeOK, AtWork, Healing, Tasks, CommitsExist, LockHeld, Inside, github, ext
<1>1. ASSUME NEW c \in Commit, HumanPush(c) PROVE Goal'
  BY <1>1 DEF HumanPush, NewHead
<1>2. ASSUME NEW c \in Commit, RunPushes(c) PROVE Goal'
  BY <1>2 DEF RunPushes, NewHead
<1>3. ASSUME NEW c \in Commit, NEW f \in Workflow, Fail(c, f) PROVE Goal'
  BY <1>3 DEF Fail
<1>4. CASE Label
  BY <1>4 DEF Label
<1>5. CASE RunEnds
  BY <1>5 DEF RunEnds
<1>6. CASE Crash
  BY <1>6 DEF Crash
<1>7. ASSUME NEW w \in Worker, Begin(w) PROVE Goal'
  BY <1>7 DEF Begin, Goto
<1>8. ASSUME NEW w \in Worker, Eligible(w) PROVE Goal'
  BY <1>8 DEF Eligible, GoOn, Goto, Reads
<1>9. ASSUME NEW w \in Worker, NotEligible(w) PROVE Goal'
  BY <1>9 DEF NotEligible, Return, Goto, Reads
<1>10. ASSUME NEW w \in Worker, LookupFails(w) PROVE Goal'
  BY <1>10 DEF LookupFails, Return, Goto, Reads
<1>11. ASSUME NEW w \in Worker, Lock(w) PROVE Goal'
  BY <1>11 DEF Lock, Goto, Reads
<1>12. ASSUME NEW w \in Worker, GetState(w) PROVE Goal'
  BY <1>12 DEF GetState, Return, GoOn, Goto, Reads
<1>13. ASSUME NEW w \in Worker, Author(w) PROVE Goal'
  BY <1>13 DEF Author, GoOn, Goto, Reads
<1>14. ASSUME NEW w \in Worker, Stop(w) PROVE Goal'
  BY <1>14 DEF Stop, Record, StoreFails, Return, Goto
<1>15. ASSUME NEW w \in Worker, Delete(w) PROVE Goal'
  BY <1>15 DEF Delete, StoreFails, GoOn, Goto
<1>16. ASSUME NEW w \in Worker, Checks(w) PROVE Goal'
  BY <1>16 DEF Checks, Return, GoOn, Goto, Reads
<1>17. ASSUME NEW w \in Worker, Persist(w) PROVE Goal'
  BY <1>17 DEF Persist, Record, StoreFails, Return, GoOn, Goto
<1>18. ASSUME NEW w \in Worker, Dispatch(w) PROVE Goal'
  BY <1>18 DEF Dispatch, Return, Goto
<1>19. CASE UNCHANGED vars
  BY <1>19 DEF vars
<1>20. QED
  BY <1>1, <1>2, <1>3, <1>4, <1>5, <1>6, <1>7, <1>8, <1>9, <1>10, <1>11, <1>12,
     <1>13, <1>14, <1>15, <1>16, <1>17, <1>18, <1>19
     DEF Next, Environment, Goroutine

\* The history.
LEMMA HistoryStep ==
    ASSUME HealInv, [Next]_vars
    PROVE  RowIsLast' /\ NewCommit' /\ FirstOrHuman' /\ OwnFixStops' /\ NoHealTwiceInARow'
<1> DEFINE Recorded(w, as) ==
        /\ Len(fixes) \in Nat /\ DOMAIN fixes = 1..Len(fixes)
        /\ Len(fixes') = Len(fixes) + 1 /\ DOMAIN fixes' = 1..(Len(fixes) + 1)
        /\ \A i \in 1..Len(fixes) : fixes'[i] = fixes[i]
        /\ fixes'[Len(fixes) + 1] = [job |-> as, at |-> task[w].at]
        /\ fixes' # <<>>
<1> DEFINE Goal == RowIsLast /\ NewCommit /\ FirstOrHuman /\ OwnFixStops /\ NoHealTwiceInARow
<1> USE NoneAssumption
<1> USE DEF HealInv, TypeInv, TypeOK, AtWork, Healing, Tasks, Fixes, CommitsExist, LockHeld, Inside,
            RowIsLast, NewCommit, FirstOrHuman, OwnFixStops, NoHealTwiceInARow, Heals, SameCommit,
            github, ext
<1>1. ASSUME NEW c \in Commit, HumanPush(c) PROVE Goal'
  BY <1>1 DEF HumanPush, NewHead
<1>2. ASSUME NEW c \in Commit, RunPushes(c) PROVE Goal'
  BY <1>2 DEF RunPushes, NewHead
<1>3. ASSUME NEW c \in Commit, NEW f \in Workflow, Fail(c, f) PROVE Goal'
  BY <1>3 DEF Fail
<1>4. CASE Label
  BY <1>4 DEF Label
<1>5. CASE RunEnds
  BY <1>5 DEF RunEnds
<1>6. CASE Crash
  BY <1>6 DEF Crash
<1>7. ASSUME NEW w \in Worker, Begin(w) PROVE Goal'
  BY <1>7 DEF Begin, Goto
<1>8. ASSUME NEW w \in Worker, Eligible(w) PROVE Goal'
  BY <1>8 DEF Eligible, GoOn, Goto, Reads
<1>9. ASSUME NEW w \in Worker, NotEligible(w) PROVE Goal'
  BY <1>9 DEF NotEligible, Return, Goto, Reads
<1>10. ASSUME NEW w \in Worker, LookupFails(w) PROVE Goal'
  BY <1>10 DEF LookupFails, Return, Goto, Reads
<1>11. ASSUME NEW w \in Worker, Lock(w) PROVE Goal'
  BY <1>11 DEF Lock, Goto, Reads
<1>12. ASSUME NEW w \in Worker, GetState(w) PROVE Goal'
  BY <1>12 DEF GetState, Return, GoOn, Goto, Reads
<1>13. ASSUME NEW w \in Worker, Author(w) PROVE Goal'
  BY <1>13 DEF Author, GoOn, Goto, Reads
<1>14. ASSUME NEW w \in Worker, Stop(w) PROVE Goal'
  <2>1. CASE Record(w, "stop")
    <3>1. Recorded(w, "stop")
      BY <1>14, <2>1, RecordAppends DEF Stop, Recorded, HealInv
    <3>2. UNCHANGED <<github, run, todo>> /\ Return(w)
      BY <1>14 DEF Stop
    <3>3. Heals' = Heals
      BY <3>1 DEF Recorded
    <3>4. \A v \in Worker \ {w} : pc'[v] = pc[v] /\ task'[v] = task[v]
      BY <3>2 DEF Return, Goto
    <3>5. RowIsLast'
      <4>1. state' \in Row
        BY <1>14, <2>1, RecordType DEF Stop
      <4>2. QED
        BY <2>1, <3>1, <4>1 DEF Recorded, Record
    <3>6. NewCommit' /\ FirstOrHuman'
      BY <3>1, <3>2, <3>3, <3>4 DEF Recorded, Return, Goto
    <3>7. OwnFixStops' /\ NoHealTwiceInARow'
      BY <3>1, <3>2, <3>3 DEF Recorded
    <3>8. QED
      BY <3>5, <3>6, <3>7
  <2>2. CASE StoreFails
    BY <1>14, <2>2 DEF Stop, StoreFails, Return, Goto
  <2>3. QED
    BY <1>14, <2>1, <2>2 DEF Stop
<1>15. ASSUME NEW w \in Worker, Delete(w) PROVE Goal'
  BY <1>15 DEF Delete, StoreFails, GoOn, Goto
<1>16. ASSUME NEW w \in Worker, Checks(w) PROVE Goal'
  BY <1>16 DEF Checks, Return, GoOn, Goto, Reads
<1>17. ASSUME NEW w \in Worker, Persist(w) PROVE Goal'
  <2>1. CASE Record(w, task[w].job) /\ GoOn(w, "dispatch")
    <3>1. task[w].job \in {"heal", "label", "stop"} /\ pc[w] # "idle"
      BY <1>17 DEF Persist
    <3>2. Recorded(w, task[w].job)
      BY <2>1, <3>1, RecordAppends DEF Recorded, HealInv
    <3>3. UNCHANGED <<github, run, todo>>
      BY <1>17 DEF Persist
    <3>4. pc' = [pc EXCEPT ![w] = "dispatch"] /\ task' = task
      BY <2>1 DEF GoOn, Goto
    <3>5. RowIsLast'
      <4>1. state' \in Row
        BY <2>1, <3>1, RecordType
      <4>2. QED
        BY <2>1, <3>2, <4>1 DEF Recorded, Record
    <3>6. NewCommit' /\ FirstOrHuman'
      <4>1. CASE task[w].job = "heal"
        <5>1. \A v \in Worker : v # w => ~ Inside(v)
          BY <1>17, <4>1 DEF Persist
        <5>2. QED
          BY <3>4, <5>1
      <4>2. CASE task[w].job # "heal"
        <5>1. Heals' = Heals /\ Len(fixes') \notin Heals'
          BY <3>2, <4>2 DEF Recorded
        <5>2. QED
          BY <3>3, <3>4, <5>1
      <4>3. QED
        BY <4>1, <4>2
    <3>7. OwnFixStops'
      <4>1. SUFFICES ASSUME NEW i \in Heals', NEW j \in Heals', i < j
                     PROVE  author[fixes'[j].at] = "human"
        BY <3>3 DEF github
      <4>2. i \in Heals
        BY <3>2, <4>1 DEF Recorded
      <4>3. CASE j \in 1..Len(fixes)
        BY <3>2, <4>1, <4>2, <4>3 DEF Recorded
      <4>4. CASE j = Len(fixes) + 1
        <5>1. task[w].job = "heal" /\ fixes'[j].at = task[w].at
          BY <3>2, <4>1, <4>4 DEF Recorded
        <5>2. QED
          BY <1>17, <4>2, <5>1 DEF Persist
      <4>5. QED
        BY <3>2, <4>1, <4>3, <4>4 DEF Recorded
    <3>8. NoHealTwiceInARow'
      <4>1. SUFFICES ASSUME NEW i \in Heals', i + 1 \in Heals', SameCommit(i, i + 1)'
                     PROVE  FALSE
        OBVIOUS
      <4>2. i \in Heals
        BY <3>2, <4>1 DEF Recorded
      <4>3. CASE i + 1 \in 1..Len(fixes)
        BY <3>2, <4>1, <4>2, <4>3 DEF Recorded
      <4>4. CASE i = Len(fixes)
        <5>1. task[w].job = "heal" /\ fixes[i].at = task[w].at
          BY <3>2, <4>1, <4>2, <4>4 DEF Recorded
        <5>2. QED
          BY <1>17, <4>2, <4>4, <5>1 DEF Persist
      <4>5. QED
        BY <3>2, <4>1, <4>2, <4>3, <4>4 DEF Recorded
    <3>9. QED
      BY <3>5, <3>6, <3>7, <3>8
  <2>2. CASE StoreFails /\ Return(w)
    BY <1>17, <2>2 DEF Persist, StoreFails, Return, Goto
  <2>3. QED
    BY <1>17, <2>1, <2>2 DEF Persist
<1>18. ASSUME NEW w \in Worker, Dispatch(w) PROVE Goal'
  BY <1>18 DEF Dispatch, Return, Goto
<1>19. CASE UNCHANGED vars
  BY <1>19 DEF vars
<1>20. QED
  BY <1>1, <1>2, <1>3, <1>4, <1>5, <1>6, <1>7, <1>8, <1>9, <1>10, <1>11, <1>12,
     <1>13, <1>14, <1>15, <1>16, <1>17, <1>18, <1>19
     DEF Next, Environment, Goroutine

\* At the start nothing is under way.
LEMMA InitHeals == Init => HealInv
<1> SUFFICES ASSUME Init PROVE HealInv
  OBVIOUS
<1>1. TypeInv
  <2>1. 0 \in 0..MaxMoves
    BY FaultsAssumption
  <2>2. author \in [Commit -> {"human", "quack", "none"}]
    BY DEF Init
  <2>3. QED
    BY <2>1, <2>2, Nothing DEF Init, TypeInv, TypeOK, AtWork, Healing
<1>2. CommitsExist /\ LockHeld /\ NewCommit /\ FirstOrHuman
  BY NoneAssumption DEF Init, CommitsExist, LockHeld, NewCommit, FirstOrHuman, Inside
<1>3. Heals = {} /\ RowIsLast
  BY DEF Init, RowIsLast, Heals
<1>4. OwnFixStops /\ NoHealTwiceInARow
  BY <1>3 DEF OwnFixStops, NoHealTwiceInARow
<1>5. QED
  BY <1>1, <1>2, <1>3, <1>4 DEF HealInv

\* The invariant is inductive.
LEMMA HealInvariant == Spec => []HealInv
<1>1. HealInv /\ [Next]_vars => HealInv'
  BY TypeStep, LockStep, HistoryStep DEF HealInv
<1>2. QED
  BY InitHeals, <1>1, PTL DEF Spec

\* The variables keep their types, whatever stops or fails.
THEOREM TypeCorrect == Spec => []TypeOK
<1>1. HealInv => TypeOK
  BY DEF HealInv, TypeInv
<1>2. QED
  BY HealInvariant, <1>1, PTL

\* cifix.go:2 "A failure on quack's own fix commit stops the loop": for any number
\* of commits, workflows and goroutines, crashes and failing writes included, a
\* heal that follows another since the loop was armed is of a human's commit.
THEOREM LoopStops == Spec => []OwnFixStops
<1>1. HealInv => OwnFixStops
  BY DEF HealInv
<1>2. QED
  BY HealInvariant, <1>1, PTL

\* cifix.go:132 "one atomic claim": two heals in a row are never of one commit.
THEOREM OneHealAtATime == Spec => []NoHealTwiceInARow
<1>1. HealInv => NoHealTwiceInARow
  BY DEF HealInv
<1>2. QED
  BY HealInvariant, <1>1, PTL

=============================================================================
