------------------------- MODULE RunLifecycleProofs -------------------------
(***************************************************************************)
(* Proofs about RunLifecycle.                                              *)
(***************************************************************************)
EXTENDS RunLifecycle, TLAPS

\* The goroutine that is past its e.pending.Load found somebody's pendingRun.
LoadedIsSome == \A a \in Attempt : pc[a] \in {"loaded", "nudging"} => loaded[a] \in Attempt

TypeInv == TypeOK /\ LoadedIsSome

\* The caps on ages are naturals.
LEMMA Bounds == Lease \in Nat /\ PruneAge \in Nat /\ 0 \in 0..Lease /\ 0 \in 0..(PruneAge + 1)
  BY TicksAssumption DEF Lease, PruneAge

\* A token is a token.
LEMMA TokenType == \A a \in Attempt, s \in {"claim", "nudge", "row", "rebuilt"} : Token(a, s) \in Tokens
  BY DEF Token, Tokens

\* Every step of the program, a crash and a restart included, keeps the types.
LEMMA TypeStep == ASSUME TypeInv, [Next]_vars PROVE TypeInv'
<1> USE TicksAssumption, NoneAssumption
<1> USE TokenType DEF TypeInv, TypeOK, LoadedIsSome, Phases, Preparing, OnHost, Settling, Over, Goto
<1>1. ASSUME NEW a \in Attempt, Trigger(a) PROVE TypeInv'
  BY <1>1, Bounds DEF Trigger, Claim
<1>2. ASSUME NEW a \in Attempt, Abort(a) PROVE TypeInv'
  BY <1>2 DEF Abort, CompareAndDelete
<1>3. ASSUME NEW a \in Attempt, StorePending(a) PROVE TypeInv'
  BY <1>3 DEF StorePending
<1>4. ASSUME NEW a \in Attempt, StoreRow(a) PROVE TypeInv'
  BY <1>4, Bounds DEF StoreRow
<1>5. ASSUME NEW a \in Attempt, DispatchReturns(a) PROVE TypeInv'
  BY <1>5 DEF DispatchReturns
<1>6. ASSUME NEW a \in Attempt, UndoPending(a) PROVE TypeInv'
  BY <1>6 DEF UndoPending
<1>7. ASSUME NEW a \in Attempt, UndoClaim(a) PROVE TypeInv'
  BY <1>7 DEF UndoClaim, CompareAndDelete
<1>8. ASSUME NEW a \in Attempt, UndoRow(a) PROVE TypeInv'
  BY <1>8 DEF UndoRow, DeleteRow
<1>9. ASSUME NEW a \in Attempt, StartRun(a) PROVE TypeInv'
  BY <1>9 DEF StartRun
<1>10. ASSUME NEW a \in Attempt, Deliver(a) PROVE TypeInv'
  BY <1>10 DEF Deliver, attemptVars
<1>11. ASSUME NEW a \in Attempt, EndRun(a) PROVE TypeInv'
  BY <1>11 DEF EndRun
<1>12. ASSUME NEW a \in Attempt, LoseRun(a) PROVE TypeInv'
  BY <1>12 DEF LoseRun
<1>13. ASSUME NEW a \in Attempt, LoadPending(a) PROVE TypeInv'
  BY <1>13 DEF LoadPending
<1>14. ASSUME NEW a \in Attempt, Nudge(a) PROVE TypeInv'
  BY <1>14, Bounds DEF Nudge
<1>15. ASSUME NEW a \in Attempt, FinishRun(a) PROVE TypeInv'
  BY <1>15 DEF FinishRun, Finish
<1>16. ASSUME NEW a \in Attempt, NudgeReturns(a) PROVE TypeInv'
  BY <1>16 DEF NudgeReturns, Finish
<1>17. ASSUME NEW a \in Attempt, ReadRow(a) PROVE TypeInv'
  BY <1>17 DEF ReadRow
<1>18. ASSUME NEW a \in Attempt, RebuildClaim(a) PROVE TypeInv'
  BY <1>18 DEF RebuildClaim
<1>19. ASSUME NEW a \in Attempt, Settle(a) PROVE TypeInv'
  BY <1>19 DEF Settle
<1>20. ASSUME NEW a \in Attempt, DelRow(a) PROVE TypeInv'
  BY <1>20 DEF DelRow, DeleteRow
<1>21. ASSUME NEW a \in Attempt, DelPending(a) PROVE TypeInv'
  BY <1>21 DEF DelPending
<1>22. ASSUME NEW a \in Attempt, Release(a) PROVE TypeInv'
  BY <1>22 DEF Release, CompareAndDelete
<1>23. ASSUME NEW a \in Attempt, Redispatch(a) PROVE TypeInv'
  <2>1. CASE \E b \in Attempt : Claim(b, TRUE) /\ pc' = [pc EXCEPT ![a] = "done", ![b] = "prep"]
    <3>1. PICK b \in Attempt : Claim(b, TRUE) /\ pc' = [pc EXCEPT ![a] = "done", ![b] = "prep"]
      BY <2>1
    <3>2. UNCHANGED <<nudge, pr, loaded, held, again, pending, row, detail, boot, claims>>
      BY <1>23 DEF Redispatch
    <3>3. QED
      BY <3>1, <3>2, Bounds DEF Claim
  <2>2. CASE Goto(a, "done") /\ UNCHANGED <<inflight, label, timer>>
    BY <1>23, <2>2 DEF Redispatch
  <2>3. QED
    BY <1>23, <2>1, <2>2 DEF Redispatch
<1>24. CASE Crash
  BY <1>24 DEF Crash
<1>25. CASE Prune
  BY <1>25 DEF Prune, attemptVars
<1>26. CASE ReadClaims
  BY <1>26 DEF ReadClaims, attemptVars
<1>27. CASE RestoreClaims
  BY <1>27 DEF RestoreClaims, attemptVars, Cap, Lease
<1>28. CASE Tick
  <2>1. timer' \in [Attempt -> Nat]
    BY <1>28 DEF Tick
  <2>2. ASSUME NEW n \in 0..Lease PROVE Cap(n + 1, Lease) \in 0..Lease
    BY Bounds DEF Cap
  <2>3. ASSUME NEW n \in 0..(PruneAge + 1) PROVE Cap(n + 1, PruneAge + 1) \in 0..(PruneAge + 1)
    BY Bounds DEF Cap
  <2>4. inflight' \in [tok : Tokens, age : 0..Lease] \cup {None}
    BY <1>28, <2>2 DEF Tick
  <2>5. /\ row' \in [by : Attempt, age : 0..(PruneAge + 1)] \cup {None}
        /\ claims' \in [by : Attempt, age : 0..(PruneAge + 1)] \cup {None}
    BY <1>28, <2>3 DEF Tick
  <2>6. QED
    BY <1>28, <2>1, <2>4, <2>5 DEF Tick
<1>29. CASE UNCHANGED vars
  BY <1>29 DEF vars
<1>30. QED
  BY <1>1, <1>2, <1>3, <1>4, <1>5, <1>6, <1>7, <1>8, <1>9, <1>10, <1>11, <1>12,
     <1>13, <1>14, <1>15, <1>16, <1>17, <1>18, <1>19, <1>20, <1>21, <1>22, <1>23,
     <1>24, <1>25, <1>26, <1>27, <1>28, <1>29 DEF Next, Goroutine, Host, Start

\* The variables keep their types, whatever faults there are: no RunEnded
\* dereferences a pendingRun it did not find, no age leaves its cap.
THEOREM TypeCorrect == Spec => []TypeOK
<1>1. Init => TypeInv
  BY TicksAssumption, NoneAssumption DEF Init, TypeInv, TypeOK, LoadedIsSome, Phases
<1>2. TypeInv /\ [Next]_vars => TypeInv'
  BY TypeStep
<1>3. TypeInv => TypeOK
  BY DEF TypeInv
<1>4. QED
  BY <1>1, <1>2, <1>3, PTL DEF Spec

-----------------------------------------------------------------------------
(***************************************************************************)
(* One run per session.  It rests on time: the lease must be longer than   *)
(* what one attempt can take from its claim to its release, a nudge        *)
(* restarting the count.  So the invariant relates the age of the claim to *)
(* how long its attempt has been in its present stage.                     *)
(***************************************************************************)

\* The margin outlasts the preparation and the settling, and no run waits in the
\* host's queue.  A restart is left out: it forgets the claims.
Timely == /\ PrepTicks + FinalizeTicks < MarginTicks
          /\ "queue" \notin Faults
          /\ "crash" \notin Faults

Starting == {"prep", "stored", "rowed", "undoPending", "undoClaim", "nudging"}
Ending   == {"ended", "loaded", "settling", "delRow", "delPending", "release"}

\* The claim is no older than the stages its attempt has been through.
Young(a) ==
    /\ pc[a] \in Starting => inflight.age <= timer[a] /\ timer[a] <= PrepTicks
    /\ pc[a] = "queued" => inflight.age <= PrepTicks
    /\ pc[a] = "running" => inflight.age <= PrepTicks + timer[a] /\ timer[a] <= RunTicks
    /\ pc[a] \in Ending => /\ inflight.age <= PrepTicks + RunTicks + timer[a]
                           /\ timer[a] <= FinalizeTicks

\* The token by which attempt a will release the claim.
Key(a) ==
    CASE pc[a] \in {"prep", "undoClaim"} -> Token(a, "claim")
      [] pc[a] \in {"settling", "delRow", "delPending", "release"} -> held[a]
      [] OTHER -> pr[a].tok

\* An attempt that has the session holds its claim, by the token it will release
\* it with, and the chat's pendingRun is its own as long as it needs it.
Holds(a) ==
    /\ inflight # None
    /\ inflight.tok = Key(a)
    /\ inflight.tok.by = a
    /\ pc[a] \in {"stored", "rowed", "undoPending", "undoClaim"} => pr[a].tok = Token(a, "claim")
    /\ pc[a] \in {"stored", "rowed", "undoPending", "nudging", "ended", "loaded"} \cup OnHost
          => pending = a
    /\ pc[a] \in {"loaded", "nudging"} => loaded[a] = a
    /\ pc[a] \notin {"reading", "rebuilding"}
    /\ Young(a)

IInv == /\ TypeInv
        /\ boot = "up"
        /\ OneRunPerSession
        /\ \A a \in Attempt : Serving(a) => Holds(a)

-----------------------------------------------------------------------------

\* In time, the lease of a served session has not run out.
LEMMA NotClaimable ==
    ASSUME TypeInv, Timely, NEW a \in Attempt, Serving(a), Holds(a)
    PROVE  ~ Claimable
<1>1. inflight.age \in Nat /\ timer[a] \in Nat
  BY Bounds DEF TypeInv, TypeOK, Holds
<1>2. inflight.age <= PrepTicks + RunTicks + FinalizeTicks
  <2>1. CASE pc[a] \in Starting
    BY <1>1, <2>1, TicksAssumption DEF Holds, Young
  <2>2. CASE pc[a] \in OnHost
    BY <1>1, <2>2, TicksAssumption DEF Holds, Young, OnHost
  <2>3. CASE pc[a] \in Ending
    BY <1>1, <2>3, TicksAssumption DEF Holds, Young
  <2>4. QED
    BY <2>1, <2>2, <2>3 DEF Serving, Holds, Starting, OnHost, Settling, Ending
<1>3. PrepTicks + RunTicks + FinalizeTicks < Lease
  BY TicksAssumption DEF Timely, Lease
<1>4. QED
  BY <1>1, <1>2, <1>3, Bounds, TicksAssumption DEF Claimable, Expired, Holds

\* A step that moves only attempt a, and only while no other attempt has the
\* session, needs a look at a alone.
LEMMA OnlyMine ==
    ASSUME IInv, TypeInv', boot' = boot,
           NEW a \in Attempt, \A b \in Attempt : Serving(b) => b = a,
           \A b \in Attempt : b # a => pc'[b] = pc[b],
           Serving(a)' => Holds(a)'
    PROVE  IInv'
<1>1. \A b \in Attempt : b # a => ~ Serving(b)'
  BY DEF Serving
<1>2. QED
  BY <1>1 DEF IInv, OneRunPerSession

\* A step that leaves alone what the invariant reads of the sessions keeps it.
LEMMA NotMine ==
    ASSUME IInv, TypeInv', boot' = boot,
           UNCHANGED <<timer, pr, loaded, held, inflight, pending>>,
           NEW a \in Attempt, ~ Serving(a)', \A b \in Attempt : b # a => pc'[b] = pc[b]
    PROVE  IInv'
<1>1. ASSUME NEW b \in Attempt, Serving(b)' PROVE b # a /\ Serving(b)
  BY <1>1 DEF Serving
<1>2. ASSUME NEW b \in Attempt, Serving(b)' PROVE Holds(b)'
  <2>1. Holds(b) /\ pc'[b] = pc[b]
    BY <1>1, <1>2 DEF IInv
  <2>2. QED
    BY <2>1 DEF Holds, Young, Key
<1>3. QED
  BY <1>1, <1>2 DEF IInv, OneRunPerSession

\* A new claim is taken only when nobody has the session.
LEMMA ClaimTaken ==
    ASSUME IInv, Timely, TypeInv', boot' = boot, NEW b \in Attempt, NEW lb, Claim(b, lb),
           pc'[b] = "prep", \A c \in Attempt : c # b => (Serving(c)' => Serving(c))
    PROVE  IInv'
<1>1. \A c \in Attempt : ~ Serving(c)
  BY NotClaimable DEF IInv, Claim
<1>2. inflight' # None /\ inflight'.tok = Token(b, "claim") /\ inflight'.age = 0
  BY NoneIsNoClaim, TokenType DEF Claim
<1>3. timer'[b] = 0
  BY DEF Claim, IInv, TypeInv, TypeOK
<1>4. Holds(b)'
  BY <1>2, <1>3, TicksAssumption DEF Holds, Young, Key, Token, Starting, OnHost, Ending
<1>5. QED
  BY <1>1, <1>4 DEF IInv, OneRunPerSession

\* Every step of a timely behaviour keeps the invariant.
LEMMA InvStep == ASSUME IInv, Timely, [Next]_vars PROVE IInv'
<1>0. TypeInv'
  BY TypeStep DEF IInv
<1>1. ASSUME NEW a \in Attempt, Trigger(a) PROVE IInv'
  <2>1. PICK lb \in BOOLEAN : Claim(a, lb)
    BY <1>1 DEF Trigger
  <2>2. pc'[a] = "prep" /\ boot' = boot /\ \A c \in Attempt : c # a => pc'[c] = pc[c]
    BY <1>1 DEF Trigger, Goto, IInv, TypeInv, TypeOK
  <2>3. QED
    BY <1>0, <2>1, <2>2, ClaimTaken DEF Serving
<1>2. ASSUME NEW a \in Attempt, Abort(a) PROVE IInv'
  <2>1. Serving(a)
    BY <1>2 DEF Abort, Serving, OnHost, Settling
  <2>2. Holds(a) /\ \A b \in Attempt : Serving(b) => b = a
    BY <2>1 DEF IInv, OneRunPerSession
  <2>3. boot' = boot /\ \A b \in Attempt : b # a => pc'[b] = pc[b]
    BY <1>2 DEF Abort, Goto, IInv, TypeInv, TypeOK
  <2>4. Serving(a)' => Holds(a)'
    BY <1>2, <2>2, <1>0, TicksAssumption, NoneAssumption, Bounds DEF Abort, Goto,
       IInv, TypeInv, TypeOK, Holds, Young, Key, Serving,
       Starting, OnHost, Settling, Ending, Timely, CompareAndDelete
  <2>5. QED
    BY <1>0, <2>2, <2>3, <2>4, OnlyMine
<1>3. ASSUME NEW a \in Attempt, StorePending(a) PROVE IInv'
  <2>1. Serving(a)
    BY <1>3 DEF StorePending, Serving, OnHost, Settling
  <2>2. Holds(a) /\ \A b \in Attempt : Serving(b) => b = a
    BY <2>1 DEF IInv, OneRunPerSession
  <2>3. boot' = boot /\ \A b \in Attempt : b # a => pc'[b] = pc[b]
    BY <1>3 DEF StorePending, Goto, IInv, TypeInv, TypeOK
  <2>4. Serving(a)' => Holds(a)'
    BY <1>3, <2>2, <1>0, TicksAssumption, NoneAssumption, Bounds DEF StorePending,
       Goto, IInv, TypeInv, TypeOK, Holds, Young, Key, Serving,
       Starting, OnHost, Settling, Ending, Timely
  <2>5. QED
    BY <1>0, <2>2, <2>3, <2>4, OnlyMine
<1>4. ASSUME NEW a \in Attempt, StoreRow(a) PROVE IInv'
  <2>1. Serving(a)
    BY <1>4 DEF StoreRow, Serving, OnHost, Settling
  <2>2. Holds(a) /\ \A b \in Attempt : Serving(b) => b = a
    BY <2>1 DEF IInv, OneRunPerSession
  <2>3. boot' = boot /\ \A b \in Attempt : b # a => pc'[b] = pc[b]
    BY <1>4 DEF StoreRow, Goto, IInv, TypeInv, TypeOK
  <2>4. Serving(a)' => Holds(a)'
    BY <1>4, <2>2, <1>0, TicksAssumption, NoneAssumption, Bounds DEF StoreRow, Goto,
       IInv, TypeInv, TypeOK, Holds, Young, Key, Serving,
       Starting, OnHost, Settling, Ending, Timely
  <2>5. QED
    BY <1>0, <2>2, <2>3, <2>4, OnlyMine
<1>5. ASSUME NEW a \in Attempt, DispatchReturns(a) PROVE IInv'
  <2>1. Serving(a)
    BY <1>5 DEF DispatchReturns, Serving, OnHost, Settling
  <2>2. Holds(a) /\ \A b \in Attempt : Serving(b) => b = a
    BY <2>1 DEF IInv, OneRunPerSession
  <2>3. boot' = boot /\ \A b \in Attempt : b # a => pc'[b] = pc[b]
    BY <1>5 DEF DispatchReturns, Goto, IInv, TypeInv, TypeOK
  <2>4. Serving(a)' => Holds(a)'
    BY <1>5, <2>2, <1>0, TicksAssumption, NoneAssumption, Bounds DEF DispatchReturns,
       Goto, IInv, TypeInv, TypeOK, Holds, Young, Key, Serving,
       Starting, OnHost, Settling, Ending, Timely
  <2>5. QED
    BY <1>0, <2>2, <2>3, <2>4, OnlyMine
<1>6. ASSUME NEW a \in Attempt, UndoPending(a) PROVE IInv'
  <2>1. Serving(a)
    BY <1>6 DEF UndoPending, Serving, OnHost, Settling
  <2>2. Holds(a) /\ \A b \in Attempt : Serving(b) => b = a
    BY <2>1 DEF IInv, OneRunPerSession
  <2>3. boot' = boot /\ \A b \in Attempt : b # a => pc'[b] = pc[b]
    BY <1>6 DEF UndoPending, Goto, IInv, TypeInv, TypeOK
  <2>4. Serving(a)' => Holds(a)'
    BY <1>6, <2>2, <1>0, TicksAssumption, NoneAssumption, Bounds DEF UndoPending,
       Goto, IInv, TypeInv, TypeOK, Holds, Young, Key, Serving,
       Starting, OnHost, Settling, Ending, Timely
  <2>5. QED
    BY <1>0, <2>2, <2>3, <2>4, OnlyMine
<1>7. ASSUME NEW a \in Attempt, UndoClaim(a) PROVE IInv'
  <2>1. Serving(a)
    BY <1>7 DEF UndoClaim, Serving, OnHost, Settling
  <2>2. Holds(a) /\ \A b \in Attempt : Serving(b) => b = a
    BY <2>1 DEF IInv, OneRunPerSession
  <2>3. boot' = boot /\ \A b \in Attempt : b # a => pc'[b] = pc[b]
    BY <1>7 DEF UndoClaim, Goto, IInv, TypeInv, TypeOK
  <2>4. Serving(a)' => Holds(a)'
    BY <1>7, <2>2, <1>0, TicksAssumption, NoneAssumption, Bounds DEF UndoClaim, Goto,
       IInv, TypeInv, TypeOK, Holds, Young, Key, Serving,
       Starting, OnHost, Settling, Ending, Timely, CompareAndDelete
  <2>5. QED
    BY <1>0, <2>2, <2>3, <2>4, OnlyMine
<1>8. ASSUME NEW a \in Attempt, StartRun(a) PROVE IInv'
  <2>1. Serving(a)
    BY <1>8 DEF StartRun, Serving, OnHost, Settling
  <2>2. Holds(a) /\ \A b \in Attempt : Serving(b) => b = a
    BY <2>1 DEF IInv, OneRunPerSession
  <2>3. boot' = boot /\ \A b \in Attempt : b # a => pc'[b] = pc[b]
    BY <1>8 DEF StartRun, Goto, IInv, TypeInv, TypeOK
  <2>4. Serving(a)' => Holds(a)'
    BY <1>8, <2>2, <1>0, TicksAssumption, NoneAssumption, Bounds DEF StartRun, Goto,
       IInv, TypeInv, TypeOK, Holds, Young, Key, Serving,
       Starting, OnHost, Settling, Ending, Timely
  <2>5. QED
    BY <1>0, <2>2, <2>3, <2>4, OnlyMine
<1>9. ASSUME NEW a \in Attempt, EndRun(a) PROVE IInv'
  <2>1. Serving(a)
    BY <1>9 DEF EndRun, Serving, OnHost, Settling
  <2>2. Holds(a) /\ \A b \in Attempt : Serving(b) => b = a
    BY <2>1 DEF IInv, OneRunPerSession
  <2>3. boot' = boot /\ \A b \in Attempt : b # a => pc'[b] = pc[b]
    BY <1>9 DEF EndRun, Goto, IInv, TypeInv, TypeOK
  <2>4. Serving(a)' => Holds(a)'
    BY <1>9, <2>2, <1>0, TicksAssumption, NoneAssumption, Bounds DEF EndRun, Goto,
       IInv, TypeInv, TypeOK, Holds, Young, Key, Serving,
       Starting, OnHost, Settling, Ending, Timely
  <2>5. QED
    BY <1>0, <2>2, <2>3, <2>4, OnlyMine
<1>10. ASSUME NEW a \in Attempt, LoseRun(a) PROVE IInv'
  <2>1. Serving(a)
    BY <1>10 DEF LoseRun, Serving, OnHost, Settling
  <2>2. Holds(a) /\ \A b \in Attempt : Serving(b) => b = a
    BY <2>1 DEF IInv, OneRunPerSession
  <2>3. boot' = boot /\ \A b \in Attempt : b # a => pc'[b] = pc[b]
    BY <1>10 DEF LoseRun, Goto, IInv, TypeInv, TypeOK
  <2>4. Serving(a)' => Holds(a)'
    BY <1>10, <2>2, <1>0, TicksAssumption, NoneAssumption, Bounds DEF LoseRun, Goto,
       IInv, TypeInv, TypeOK, Holds, Young, Key, Serving,
       Starting, OnHost, Settling, Ending, Timely
  <2>5. QED
    BY <1>0, <2>2, <2>3, <2>4, OnlyMine
<1>11. ASSUME NEW a \in Attempt, LoadPending(a) PROVE IInv'
  <2>1. Serving(a)
    BY <1>11 DEF LoadPending, Serving, OnHost, Settling
  <2>2. Holds(a) /\ \A b \in Attempt : Serving(b) => b = a
    BY <2>1 DEF IInv, OneRunPerSession
  <2>3. boot' = boot /\ \A b \in Attempt : b # a => pc'[b] = pc[b]
    BY <1>11 DEF LoadPending, Goto, IInv, TypeInv, TypeOK
  <2>4. Serving(a)' => Holds(a)'
    BY <1>11, <2>2, <1>0, TicksAssumption, NoneAssumption, Bounds DEF LoadPending,
       Goto, IInv, TypeInv, TypeOK, Holds, Young, Key, Serving,
       Starting, OnHost, Settling, Ending, Timely
  <2>5. QED
    BY <1>0, <2>2, <2>3, <2>4, OnlyMine
<1>12. ASSUME NEW a \in Attempt, Nudge(a) PROVE IInv'
  <2>1. Serving(a)
    BY <1>12 DEF Nudge, Serving, OnHost, Settling
  <2>2. Holds(a) /\ \A b \in Attempt : Serving(b) => b = a
    BY <2>1 DEF IInv, OneRunPerSession
  <2>3. boot' = boot /\ \A b \in Attempt : b # a => pc'[b] = pc[b]
    BY <1>12 DEF Nudge, Goto, IInv, TypeInv, TypeOK
  <2>4. Serving(a)' => Holds(a)'
    <3>1. loaded[a] = a /\ pending = a /\ pr'[a].tok = Token(a, "nudge")
      BY <1>12, <2>2 DEF Nudge, Holds, IInv, TypeInv, TypeOK
    <3>2. inflight' # None /\ inflight'.tok = Token(a, "nudge") /\ inflight'.age = 0
      BY <1>12, NoneIsNoClaim, TokenType DEF Nudge
    <3>3. pc'[a] = "nudging" /\ timer'[a] = 0 /\ loaded'[a] = a /\ pending' = a
      BY <1>12, <3>1 DEF Nudge, Goto, IInv, TypeInv, TypeOK
    <3>4. QED
      BY <3>1, <3>2, <3>3, TicksAssumption DEF Holds, Young, Key, Token, Starting,
         OnHost, Ending
  <2>5. QED
    BY <1>0, <2>2, <2>3, <2>4, OnlyMine
<1>13. ASSUME NEW a \in Attempt, FinishRun(a) PROVE IInv'
  <2>1. Serving(a)
    BY <1>13 DEF FinishRun, Serving, OnHost, Settling
  <2>2. Holds(a) /\ \A b \in Attempt : Serving(b) => b = a
    BY <2>1 DEF IInv, OneRunPerSession
  <2>3. boot' = boot /\ \A b \in Attempt : b # a => pc'[b] = pc[b]
    BY <1>13 DEF FinishRun, Goto, IInv, TypeInv, TypeOK, Finish
  <2>4. Serving(a)' => Holds(a)'
    BY <1>13, <2>2, <1>0, TicksAssumption, NoneAssumption, Bounds DEF FinishRun,
       Goto, IInv, TypeInv, TypeOK, Holds, Young, Key, Serving,
       Starting, OnHost, Settling, Ending, Timely, Finish
  <2>5. QED
    BY <1>0, <2>2, <2>3, <2>4, OnlyMine
<1>14. ASSUME NEW a \in Attempt, NudgeReturns(a) PROVE IInv'
  <2>1. Serving(a)
    BY <1>14 DEF NudgeReturns, Serving, OnHost, Settling
  <2>2. Holds(a) /\ \A b \in Attempt : Serving(b) => b = a
    BY <2>1 DEF IInv, OneRunPerSession
  <2>3. boot' = boot /\ \A b \in Attempt : b # a => pc'[b] = pc[b]
    BY <1>14 DEF NudgeReturns, Goto, IInv, TypeInv, TypeOK, Finish
  <2>4. Serving(a)' => Holds(a)'
    BY <1>14, <2>2, <1>0, TicksAssumption, NoneAssumption, Bounds DEF NudgeReturns,
       Goto, IInv, TypeInv, TypeOK, Holds, Young, Key, Serving,
       Starting, OnHost, Settling, Ending, Timely, Finish
  <2>5. QED
    BY <1>0, <2>2, <2>3, <2>4, OnlyMine
<1>15. ASSUME NEW a \in Attempt, Settle(a) PROVE IInv'
  <2>1. Serving(a)
    BY <1>15 DEF Settle, Serving, OnHost, Settling
  <2>2. Holds(a) /\ \A b \in Attempt : Serving(b) => b = a
    BY <2>1 DEF IInv, OneRunPerSession
  <2>3. boot' = boot /\ \A b \in Attempt : b # a => pc'[b] = pc[b]
    BY <1>15 DEF Settle, Goto, IInv, TypeInv, TypeOK
  <2>4. Serving(a)' => Holds(a)'
    BY <1>15, <2>2, <1>0, TicksAssumption, NoneAssumption, Bounds DEF Settle, Goto,
       IInv, TypeInv, TypeOK, Holds, Young, Key, Serving,
       Starting, OnHost, Settling, Ending, Timely
  <2>5. QED
    BY <1>0, <2>2, <2>3, <2>4, OnlyMine
<1>16. ASSUME NEW a \in Attempt, DelRow(a) PROVE IInv'
  <2>1. Serving(a)
    BY <1>16 DEF DelRow, Serving, OnHost, Settling
  <2>2. Holds(a) /\ \A b \in Attempt : Serving(b) => b = a
    BY <2>1 DEF IInv, OneRunPerSession
  <2>3. boot' = boot /\ \A b \in Attempt : b # a => pc'[b] = pc[b]
    BY <1>16 DEF DelRow, Goto, IInv, TypeInv, TypeOK
  <2>4. Serving(a)' => Holds(a)'
    BY <1>16, <2>2, <1>0, TicksAssumption, NoneAssumption, Bounds DEF DelRow, Goto,
       IInv, TypeInv, TypeOK, Holds, Young, Key, Serving,
       Starting, OnHost, Settling, Ending, Timely
  <2>5. QED
    BY <1>0, <2>2, <2>3, <2>4, OnlyMine
<1>17. ASSUME NEW a \in Attempt, DelPending(a) PROVE IInv'
  <2>1. Serving(a)
    BY <1>17 DEF DelPending, Serving, OnHost, Settling
  <2>2. Holds(a) /\ \A b \in Attempt : Serving(b) => b = a
    BY <2>1 DEF IInv, OneRunPerSession
  <2>3. boot' = boot /\ \A b \in Attempt : b # a => pc'[b] = pc[b]
    BY <1>17 DEF DelPending, Goto, IInv, TypeInv, TypeOK
  <2>4. Serving(a)' => Holds(a)'
    BY <1>17, <2>2, <1>0, TicksAssumption, NoneAssumption, Bounds DEF DelPending,
       Goto, IInv, TypeInv, TypeOK, Holds, Young, Key, Serving,
       Starting, OnHost, Settling, Ending, Timely
  <2>5. QED
    BY <1>0, <2>2, <2>3, <2>4, OnlyMine
<1>18. ASSUME NEW a \in Attempt, Release(a) PROVE IInv'
  <2>1. Serving(a)
    BY <1>18 DEF Release, Serving, OnHost, Settling
  <2>2. Holds(a) /\ \A b \in Attempt : Serving(b) => b = a
    BY <2>1 DEF IInv, OneRunPerSession
  <2>3. boot' = boot /\ \A b \in Attempt : b # a => pc'[b] = pc[b]
    BY <1>18 DEF Release, Goto, IInv, TypeInv, TypeOK
  <2>4. Serving(a)' => Holds(a)'
    BY <1>18, <2>2, <1>0, TicksAssumption, NoneAssumption, Bounds DEF Release, Goto,
       IInv, TypeInv, TypeOK, Holds, Young, Key, Serving,
       Starting, OnHost, Settling, Ending, Timely, CompareAndDelete
  <2>5. QED
    BY <1>0, <2>2, <2>3, <2>4, OnlyMine
<1>19. ASSUME NEW a \in Attempt, ReadRow(a) PROVE IInv'
  BY <1>19 DEF ReadRow, IInv, Holds, Serving, Settling
<1>20. ASSUME NEW a \in Attempt, RebuildClaim(a) PROVE IInv'
  BY <1>20 DEF RebuildClaim, IInv, Holds, Serving, Settling
<1>21. ASSUME NEW a \in Attempt, UndoRow(a) PROVE IInv'
  <2>1. /\ boot' = boot /\ UNCHANGED <<timer, pr, loaded, held, inflight, pending>>
        /\ ~ Serving(a)' /\ \A b \in Attempt : b # a => pc'[b] = pc[b]
    BY <1>21 DEF UndoRow, Goto, Serving, OnHost, Settling, IInv, TypeInv, TypeOK
  <2>2. QED
    BY <1>0, <2>1, NotMine
<1>22. ASSUME NEW a \in Attempt, Deliver(a) PROVE IInv'
  BY <1>22, <1>0 DEF Deliver, attemptVars, IInv, OneRunPerSession, Serving, Holds,
     Young, Key
<1>23. ASSUME NEW a \in Attempt, Redispatch(a) PROVE IInv'
  <2>1. boot' = boot /\ UNCHANGED <<pr, loaded, held, pending>>
    BY <1>23 DEF Redispatch
  <2>2. CASE Goto(a, "done") /\ UNCHANGED <<inflight, label, timer>>
    <3>1. ~ Serving(a)' /\ \A b \in Attempt : b # a => pc'[b] = pc[b]
      BY <2>2 DEF Goto, Serving, OnHost, Settling, IInv, TypeInv, TypeOK
    <3>2. QED
      BY <1>0, <2>1, <2>2, <3>1, NotMine
  <2>3. ASSUME NEW b \in Attempt, Claim(b, TRUE), pc' = [pc EXCEPT ![a] = "done", ![b] = "prep"]
        PROVE  IInv'
    <3>1. pc[a] = "redispatch" /\ pc[b] = "new"
      BY <1>23, <2>3 DEF Redispatch, Claim
    <3>2. pc'[b] = "prep" /\ \A c \in Attempt : c # b => (Serving(c)' => Serving(c))
      BY <2>3, <3>1 DEF Serving, OnHost, Settling, IInv, TypeInv, TypeOK
    <3>3. QED
      BY <1>0, <2>1, <2>3, <3>2, ClaimTaken
  <2>4. QED
    BY <1>23, <2>2, <2>3 DEF Redispatch
<1>24. CASE Start \/ Crash
  BY <1>24 DEF Start, Prune, ReadClaims, RestoreClaims, Crash, IInv, Timely
<1>25. CASE Tick
  <2>1. UNCHANGED <<pc, pr, loaded, held, pending, boot>>
    BY <1>25 DEF Tick
  <2>2. ASSUME NEW a \in Attempt, Serving(a) PROVE Holds(a)'
    <3>1. Holds(a) /\ timer[a] \in Nat /\ inflight # None /\ inflight.age \in Nat
      BY <2>2, Bounds DEF IInv, TypeInv, TypeOK, Holds
    <3>2. inflight' # None /\ inflight'.tok = inflight.tok /\ inflight'.age <= inflight.age + 1
          /\ inflight'.age \in Nat
      <4>1. inflight \in [tok : Tokens, age : 0..Lease] /\ inflight.age \in 0..Lease
        BY <3>1 DEF IInv, TypeInv, TypeOK
      <4>2. inflight' = [inflight EXCEPT !.age = Cap(inflight.age + 1, Lease)]
        BY <1>25, <3>1 DEF Tick
      <4>3. Cap(inflight.age + 1, Lease) \in 0..Lease
            /\ Cap(inflight.age + 1, Lease) <= inflight.age + 1
        BY <4>1, Bounds DEF Cap
      <4>4. /\ inflight'.tok = inflight.tok
            /\ inflight'.age = Cap(inflight.age + 1, Lease)
            /\ inflight' \in [tok : Tokens, age : Nat]
        BY <4>1, <4>2, <4>3
      <4>5. QED
        BY <4>3, <4>4, NoneIsNoClaim
    <3>3. Young(a)'
      <4>1. MayWait(a)
        BY <1>25 DEF Tick
      <4>2. timer'[a] = IF pc[a] \in Preparing \cup Settling \cup {"running"}
                        THEN timer[a] + 1 ELSE timer[a]
        BY <1>25 DEF Tick
      <4>3. CASE pc[a] \in Starting
        BY <2>1, <3>1, <3>2, <4>1, <4>2, <4>3, TicksAssumption
           DEF MayWait, Preparing, Settling, Starting, Ending, Holds, Young
      <4>4. CASE pc[a] = "queued"
        BY <4>1, <4>4 DEF MayWait, Preparing, Settling, Timely
      <4>5. CASE pc[a] = "running"
        BY <2>1, <3>1, <3>2, <4>1, <4>2, <4>5, TicksAssumption
           DEF MayWait, Preparing, Settling, Starting, Ending, Holds, Young
      <4>6. CASE pc[a] \in Ending
        BY <2>1, <3>1, <3>2, <4>1, <4>2, <4>6, TicksAssumption
           DEF MayWait, Preparing, Settling, Starting, Ending, Holds, Young
      <4>7. QED
        BY <2>2, <3>1, <4>3, <4>4, <4>5, <4>6
           DEF Serving, OnHost, Settling, Starting, Ending, Holds
    <3>4. QED
      BY <2>1, <3>1, <3>2, <3>3 DEF Holds, Key
  <2>3. QED
    BY <1>0, <2>1, <2>2 DEF IInv, OneRunPerSession, Serving
<1>26. CASE UNCHANGED vars
  BY <1>26, <1>0 DEF vars, IInv, OneRunPerSession, Serving, Holds, Young, Key
<1>27. QED
  BY <1>1, <1>2, <1>3, <1>4, <1>5, <1>6, <1>7, <1>8, <1>9, <1>10, <1>11, <1>12,
     <1>13, <1>14, <1>15, <1>16, <1>17, <1>18, <1>19, <1>20, <1>21, <1>22, <1>23,
     <1>24, <1>25, <1>26 DEF Next, Goroutine, Host

\* The invariant, for the theorems below.
LEMMA Invariant == Timely /\ Spec => []IInv
<1>1. Init => IInv
  BY TicksAssumption, NoneAssumption
     DEF Init, IInv, TypeInv, TypeOK, LoadedIsSome, Phases, OneRunPerSession,
         Serving, OnHost, Settling
<1>2. Timely /\ IInv /\ [Next]_vars => IInv'
  BY InvStep
<1>3. Timely => []Timely
  BY DEF Timely
<1>4. QED
  BY <1>1, <1>2, <1>3, PTL DEF Spec

\* webhook.go:699 "One run per session": as long as attempts are timely, at most
\* one of any number of attempts is between its claim and its release.
THEOREM OneRun == Timely /\ Spec => []OneRunPerSession
<1>1. IInv => OneRunPerSession
  BY DEF IInv
<1>2. QED
  BY <1>1, Invariant, PTL

\* webhook.go:655: the lease, with its margin, is never the shorter of the two,
\* whatever the timeouts are, for a run and for its nudge.
THEOREM LeaseSuffices == Timely /\ Spec => []LeaseOutlivesRun
<1>1. Timely /\ IInv => LeaseOutlivesRun
  BY NotClaimable DEF IInv, LeaseOutlivesRun, Holds
<1>2. Timely => []Timely
  BY DEF Timely
<1>3. QED
  BY <1>1, <1>2, Invariant, PTL

\* webhook.go:777 "Stored BEFORE Dispatch": RunEnded of a timely run finds the
\* pendingRun of that very run, after any number of lost and refused ones.
THEOREM OutcomeFindsItsRun == Timely /\ Spec => []OutcomeHasOwner
<1>1. IInv => OutcomeHasOwner
  BY DEF IInv, OutcomeHasOwner, Holds, Serving, OnHost, Settling
<1>2. QED
  BY <1>1, Invariant, PTL

-----------------------------------------------------------------------------
(***************************************************************************)
(* The claim of a takeover: what comes late does not free it.  Nothing is  *)
(* assumed of time or of faults here.  A dispatch's claim is freed by its  *)
(* token alone, so it is enough to follow who gets hold of which token: a  *)
(* pendingRun carries the claim of its own dispatch or the renewal of a    *)
(* nudge, and only a rebuilt run takes its token from the session.         *)
(***************************************************************************)

\* A claim's token is in no other dispatch's pendingRun.
OwnToken == \A x \in Attempt : pr[x].tok # None /\ pr[x].tok.src = "claim" => pr[x].tok.by = x

\* The finalize of a run that found its own pendingRun releases by no other's claim.
OwnRelease ==
    \A a \in Attempt :
        /\ pc[a] \in {"settling", "delRow", "delPending", "release"}
        /\ loaded[a] = a /\ held[a] # None /\ held[a].src = "claim"
        => held[a].by = a

\* A run is rebuilt because there was no pendingRun.
RebuiltFoundNone == \A a \in Attempt : pc[a] \in {"reading", "rebuilding"} => loaded[a] = None

TokenInv == TypeInv /\ OwnToken /\ OwnRelease /\ RebuiltFoundNone

\* A token says who took it, and where.
LEMMA TokenFields ==
    \A a \in Attempt, s \in {"claim", "nudge", "row", "rebuilt"} :
        Token(a, s).by = a /\ Token(a, s).src = s
  BY DEF Token

\* Every step keeps the tokens apart, a crash and a restart included.
LEMMA TokenStep == ASSUME TokenInv, [Next]_vars PROVE TokenInv'
<1> USE NoneAssumption, TokenFields, TokenType
<1> USE DEF TokenInv, TypeInv, TypeOK, OwnToken, OwnRelease, RebuiltFoundNone, Goto
<1>0. TypeInv'
  BY TypeStep
<1> DEFINE Kept == OwnToken' /\ OwnRelease' /\ RebuiltFoundNone'
<1>1. ASSUME NEW a \in Attempt,
             \/ Trigger(a) \/ Abort(a) \/ StoreRow(a) \/ DispatchReturns(a)
             \/ UndoPending(a) \/ UndoClaim(a) \/ UndoRow(a)
             \/ StartRun(a) \/ EndRun(a) \/ LoseRun(a) \/ ReadRow(a)
             \/ Settle(a) \/ DelRow(a) \/ DelPending(a) \/ Release(a)
      PROVE  Kept
  BY <1>1 DEF Trigger, Claim, Abort, StoreRow, DispatchReturns, UndoPending, UndoClaim, UndoRow,
     StartRun, EndRun, LoseRun, ReadRow, Settle, DelRow, DelPending, Release
<1>2. ASSUME NEW a \in Attempt, StorePending(a) PROVE Kept
  BY <1>2 DEF StorePending
<1>3. ASSUME NEW a \in Attempt, LoadPending(a) PROVE Kept
  BY <1>3 DEF LoadPending
<1>4. ASSUME NEW a \in Attempt, Nudge(a) PROVE Kept
  BY <1>4 DEF Nudge
<1>5. ASSUME NEW a \in Attempt, FinishRun(a) PROVE Kept
  BY <1>5 DEF FinishRun, Finish
<1>6. ASSUME NEW a \in Attempt, NudgeReturns(a) PROVE Kept
  BY <1>6 DEF NudgeReturns, Finish
<1>7. ASSUME NEW a \in Attempt, RebuildClaim(a) PROVE Kept
  BY <1>7 DEF RebuildClaim
<1>8. ASSUME NEW a \in Attempt, Redispatch(a) PROVE Kept
  <2>1. /\ UNCHANGED <<pr, loaded, held>>
        /\ \A x \in Attempt : pc'[x] # pc[x] => pc'[x] \in {"done", "prep"}
    BY <1>8 DEF Redispatch, Claim
  <2>2. QED
    BY <2>1
<1>9. ASSUME Crash PROVE Kept
  <2>1. /\ UNCHANGED <<pr, loaded, held>>
        /\ \A x \in Attempt : pc'[x] # pc[x] => pc'[x] = "killed"
    BY <1>9 DEF Crash
  <2>2. QED
    BY <2>1
<1>10. ASSUME Start \/ Tick \/ UNCHANGED vars \/ \E a \in Attempt : Deliver(a) PROVE Kept
  <2>1. UNCHANGED <<pc, pr, loaded, held>>
    BY <1>10 DEF Start, Prune, ReadClaims, RestoreClaims, Tick, Deliver, attemptVars, vars
  <2>2. QED
    BY <2>1
<1>11. QED
  BY <1>0, <1>1, <1>2, <1>3, <1>4, <1>5, <1>6, <1>7, <1>8, <1>9, <1>10
     DEF Next, Goroutine, Host

\* webhook.go:670, 684 "a late run can't free a claim a takeover re-took": whatever
\* waits, is lost, is refused or stops, a dispatch that gives up and a finalize of
\* the run's own pendingRun leave every other dispatch's claim alone.
THEOREM LateReleaseSpares == Spec => LateReleaseSparesTakeover
<1> DEFINE Late(a, b) == /\ a # b
                         /\ inflight # None /\ inflight.tok = Token(b, "claim")
                         /\ Abort(a) \/ UndoClaim(a) \/ (Release(a) /\ loaded[a] = a)
           Spares == \A a, b \in Attempt : Late(a, b) => inflight' = inflight
<1>1. Init => TokenInv
  BY TicksAssumption, NoneAssumption
     DEF Init, TokenInv, TypeInv, TypeOK, LoadedIsSome, Phases, OwnToken, OwnRelease, RebuiltFoundNone
<1>2. ASSUME TokenInv, NEW a \in Attempt, NEW b \in Attempt, Late(a, b) PROVE inflight' = inflight
  <2>1. CASE Abort(a) \/ UndoClaim(a)
    <3>1. Token(a, "claim") # Token(b, "claim")
      BY <1>2, TokenFields
    <3>2. QED
      BY <1>2, <2>1, <3>1 DEF Abort, UndoClaim, CompareAndDelete
  <2>2. CASE Release(a) /\ loaded[a] = a
    <3>1. held[a] # Token(b, "claim")
      BY <1>2, <2>2, TokenFields, TokenType, NoneIsNoToken
         DEF Release, TokenInv, OwnRelease, TypeInv, TypeOK
    <3>2. QED
      BY <1>2, <2>2, <3>1 DEF Release, CompareAndDelete
  <2>3. QED
    BY <1>2, <2>1, <2>2
<1>3. TokenInv => Spares
  BY <1>2
<1>4. TokenInv /\ [Next]_vars => TokenInv'
  BY TokenStep
<1>5. Spec => [][Spares]_vars
  <2> HIDE DEF Spares
  <2>1. QED
    BY <1>1, <1>3, <1>4, PTL DEF Spec
<1>6. QED
  BY <1>5 DEF LateReleaseSparesTakeover

-----------------------------------------------------------------------------
(***************************************************************************)
(* Restarts.  A crash takes the goroutines, the claims and the pendingRuns *)
(* and leaves the runs the host resumes and the rows.  So until Start has  *)
(* restored the claims nothing stands in the way of a second run but that  *)
(* triggers wait for Start and that no goroutine is left that could        *)
(* dispatch one; after it, a claim as old as the row.  The invariant       *)
(* follows the run through both, by way of its row.                        *)
(***************************************************************************)

\* The process may stop and the host may lose runs, any number of times.  A
\* refused dispatch is left out, because its cleanup deletes the row of whoever
\* came after it, and so are a store that fails and an unbounded queue.
Restarting == /\ PrepTicks + FinalizeTicks < MarginTicks
              /\ "queue" \notin Faults
              /\ "refuse" \notin Faults
              /\ "store" \notin Faults

\* From the claim to the deletion of the row.  A nudge's dispatch is left out:
\* when it returns the run is a nudged one.
OwningPhases == {"prep", "stored", "rowed"} \cup OnHost
                   \cup {"ended", "loaded", "reading", "rebuilding", "settling", "delRow"}

Owning(a) == pc[a] \in OwningPhases

\* A claim or a row no older than the stages its attempt has been through.
Fresh(a, age) ==
    /\ pc[a] \in {"prep", "stored", "rowed"} => age <= timer[a] /\ timer[a] <= PrepTicks
    /\ pc[a] = "queued" => age <= PrepTicks
    /\ pc[a] = "running" => age <= PrepTicks + timer[a] /\ timer[a] <= RunTicks
    /\ pc[a] \in Settling => /\ age <= PrepTicks + RunTicks + timer[a]
                             /\ timer[a] <= FinalizeTicks

Recorded(a) == row # None /\ row.by = a /\ Fresh(a, row.age)

\* Past the deletion of its row, when a next run may have begun.
Leaving == {"delPending", "release", "redispatch"}

\* What keeps a second run out: a claim, or that Start is not through and that
\* no goroutine is left to dispatch one.
Protected(a) ==
    IF inflight # None
    THEN inflight.tok.by = a /\ Fresh(a, inflight.age)
    ELSE /\ boot # "up"
         /\ pc[a] \notin {"prep", "stored", "rowed"}
         /\ boot = "read" => claims # None /\ claims.by = a /\ Fresh(a, claims.age)
         /\ \A c \in Attempt : pc[c] \notin Leaving

\* The chat's pendingRun is the attempt's own, or lost.
OwnPending(a) ==
    /\ pc[a] \in {"stored", "rowed", "ended"} \cup OnHost => pending \in {a, None}
    /\ pc[a] \in {"stored", "rowed", "ended", "loaded"} \cup OnHost
          => pr[a].tok \in Tokens /\ pr[a].tok.by = a
    /\ pc[a] = "loaded" => loaded[a] = a

Kept(a) == /\ Protected(a)
           /\ pc[a] \notin {"prep", "stored"} => Recorded(a)
           /\ OwnPending(a)

\* finalize releases by a token of its own run's, if not always by its claim.
OwnKey(a) == pc[a] \in {"settling", "delRow", "delPending", "release"}
                => held[a] \in Tokens /\ held[a].by = a

Alone == /\ \A a, b \in Attempt : Owning(a) /\ Owning(b) => a = b
         /\ \A a \in Attempt : Owning(a) => Kept(a)
         /\ \A a \in Attempt : OwnKey(a)

NotRefused == \A a \in Attempt : pc[a] \notin {"undoPending", "undoClaim", "undoRow"}

RInv == TypeInv /\ NotRefused /\ (NoneNudged => Alone)

-----------------------------------------------------------------------------

\* A token names the attempt it is of.
LEMMA TokenBy == \A a \in Attempt, s \in {"claim", "nudge", "row", "rebuilt"} : Token(a, s).by = a
  BY DEF Token

\* What is fresh is younger than the lease.
LEMMA FreshIsYoung ==
    ASSUME TypeInv, Restarting, NEW a \in Attempt, Owning(a), NEW age \in Nat, Fresh(a, age)
    PROVE  age < Lease
<1>1. timer[a] \in Nat
  BY DEF TypeInv, TypeOK
<1>2. age <= PrepTicks + RunTicks + FinalizeTicks
  BY <1>1, TicksAssumption DEF Fresh, Owning, OwningPhases, OnHost, Settling
<1>3. QED
  BY <1>1, <1>2, TicksAssumption DEF Restarting, Lease

\* So no claim can be taken while an attempt owns the session and a goroutine
\* may take one: Start is through, or the goroutine is a leaving run's.
LEMMA OwnedIsNotClaimable ==
    ASSUME TypeInv, Restarting, Alone, NEW a \in Attempt, Owning(a),
           boot = "up" \/ \E c \in Attempt : pc[c] \in Leaving
    PROVE  ~ Claimable
<1>1. Protected(a)
  BY DEF Alone, Kept
<1>2. inflight # None /\ Fresh(a, inflight.age)
  BY <1>1 DEF Protected
<1>3. inflight.age \in Nat
  BY <1>2, Bounds DEF TypeInv, TypeOK
<1>4. inflight.age < Lease
  BY <1>2, <1>3, FreshIsYoung
<1>5. QED
  BY <1>2, <1>3, <1>4, Bounds DEF Claimable, Expired

\* A step of the attempt that owns the session, which keeps owning it or leaves.
LEMMA OwnersStep ==
    ASSUME Alone, NEW a \in Attempt, Owning(a),
           \A b \in Attempt : b # a => pc'[b] = pc[b] /\ held'[b] = held[b],
           Owning(a)' => Kept(a)', OwnKey(a)'
    PROVE  Alone'
<1>1. \A b \in Attempt : b # a => ~ Owning(b)'
  BY DEF Alone, Owning
<1>2. \A b \in Attempt : OwnKey(b)'
  BY DEF Alone, OwnKey
<1>3. QED
  BY <1>1, <1>2 DEF Alone

\* A step of an attempt that does not own the session and will not.
LEMMA OthersStep ==
    ASSUME Alone, NEW a \in Attempt, ~ Owning(a), ~ Owning(a)', OwnKey(a)',
           \A b \in Attempt : b # a => pc'[b] = pc[b] /\ held'[b] = held[b],
           \A b \in Attempt : Owning(b) => Kept(b)'
    PROVE  Alone'
<1>1. \A b \in Attempt : Owning(b)' => Owning(b)
  BY DEF Owning
<1>2. \A b \in Attempt : OwnKey(b)'
  BY DEF Alone, OwnKey
<1>3. QED
  BY <1>1, <1>2 DEF Alone

\* A new claim, taken when nobody owns the session.
LEMMA ClaimOwns ==
    ASSUME TypeInv, Alone, NEW b \in Attempt, NEW lb, Claim(b, lb),
           \A c \in Attempt : ~ Owning(c),
           pc'[b] = "prep", \A c \in Attempt : c # b => pc'[c] \in {pc[c], "done"},
           held' = held
    PROVE  Alone'
<1>1. /\ inflight' # None /\ inflight'.tok.by = b /\ inflight'.age = 0
      /\ timer'[b] = 0
  <2>1. inflight' = [tok |-> Token(b, "claim"), age |-> 0] /\ timer'[b] = 0
    BY DEF Claim, TypeInv, TypeOK
  <2>2. inflight' # None
    BY <2>1, NoneIsNoClaim, TokenType
  <2>3. Token(b, "claim").by = b
    BY TokenBy
  <2>4. QED
    BY <2>1, <2>2, <2>3
<1>2. Kept(b)'
  BY <1>1, TicksAssumption DEF Kept, Protected, Fresh, OwnPending, OnHost, Settling
<1>3. \A c \in Attempt : Owning(c)' => c = b
  BY DEF Owning, OwningPhases, OnHost
<1>4. \A c \in Attempt : OwnKey(c)'
  BY DEF Alone, OwnKey
<1>5. QED
  BY <1>2, <1>3, <1>4 DEF Alone

\* Nothing is refused, so the cleanup of a refusal is not reached.
LEMMA NotRefusedStep == ASSUME TypeInv, NotRefused, Restarting, [Next]_vars PROVE NotRefused'
<1> USE DEF TypeInv, TypeOK, NotRefused, Goto
<1>1. ASSUME NEW a \in Attempt, Trigger(a) \/ Abort(a) \/ Host(a) \/ Deliver(a) PROVE NotRefused'
  BY <1>1 DEF Trigger, Abort, Host, StartRun, EndRun, LoseRun, Deliver, attemptVars
<1>2. ASSUME NEW a \in Attempt, Goroutine(a) PROVE NotRefused'
  BY <1>2 DEF Goroutine, Restarting, StorePending, StoreRow, DispatchReturns, UndoPending,
     UndoClaim, UndoRow, LoadPending, Nudge, NudgeReturns, FinishRun, Finish, ReadRow,
     RebuildClaim, Settle, DelRow, DelPending, Release, Redispatch
<1>3. CASE Start \/ Crash \/ Tick
  BY <1>3 DEF Start, Prune, ReadClaims, RestoreClaims, Crash, Tick, attemptVars
<1>4. QED
  BY <1>1, <1>2, <1>3 DEF Next, vars

\* A run that is nudged stays so.
LEMMA NudgedStays == ASSUME TypeInv, [Next]_vars, NoneNudged' PROVE NoneNudged
<1> USE DEF TypeInv, TypeOK, NoneNudged
<1>1. ASSUME NEW a \in Attempt, Trigger(a) \/ Abort(a) \/ Host(a) \/ Deliver(a)
      PROVE  nudge' = nudge
  BY <1>1 DEF Trigger, Abort, Host, StartRun, EndRun, LoseRun, Deliver, attemptVars
<1>2. ASSUME NEW a \in Attempt, Goroutine(a) PROVE nudge' \in {nudge, [nudge EXCEPT ![a] = TRUE]}
  BY <1>2 DEF Goroutine, StorePending, StoreRow, DispatchReturns, UndoPending,
     UndoClaim, UndoRow, LoadPending, Nudge, NudgeReturns, FinishRun, Finish, ReadRow,
     RebuildClaim, Settle, DelRow, DelPending, Release, Redispatch
<1>3. CASE Start \/ Crash \/ Tick
  BY <1>3 DEF Start, Prune, ReadClaims, RestoreClaims, Crash, Tick, attemptVars
<1>4. QED
  BY <1>1, <1>2, <1>3 DEF Next, vars

\* The steps of the attempt that owns the session.
LEMMA OwnedStep ==
    ASSUME TypeInv, TypeInv', Restarting, Alone, NEW a \in Attempt,
           \/ Abort(a) \/ StorePending(a) \/ StoreRow(a) \/ DispatchReturns(a) \/ StartRun(a) \/ EndRun(a)
           \/ LoseRun(a) \/ LoadPending(a) \/ Nudge(a) \/ FinishRun(a) \/ ReadRow(a)
           \/ RebuildClaim(a) \/ Settle(a) \/ DelRow(a)
    PROVE  Alone'
<1> USE TicksAssumption, NoneIsNoRow, NoneIsNoClaim, Bounds, TokenType, TokenBy DEF TypeInv, TypeOK, Goto
<1>1. CASE Abort(a)
  <2>1. Owning(a) /\ Kept(a)
    BY <1>1 DEF Abort, Owning, OwningPhases, OnHost, Alone
  <2>2. \A b \in Attempt : b # a => pc'[b] = pc[b] /\ held'[b] = held[b]
    BY <1>1 DEF Abort
  <2>3. (Owning(a)' => Kept(a)') /\ OwnKey(a)'
    BY <1>1, <2>1 DEF Abort, CompareAndDelete, Owning, OwningPhases, OnHost, Settling, Leaving, Kept,
       Protected, Recorded, Fresh, OwnPending, OwnKey, Alone, Restarting
  <2>4. QED
    BY <2>1, <2>2, <2>3, OwnersStep
<1>2. CASE StorePending(a)
  <2>1. Owning(a) /\ Kept(a)
    BY <1>2 DEF StorePending, Owning, OwningPhases, OnHost, Alone
  <2>2. \A b \in Attempt : b # a => pc'[b] = pc[b] /\ held'[b] = held[b]
    BY <1>2 DEF StorePending
  <2>3. (Owning(a)' => Kept(a)') /\ OwnKey(a)'
    BY <1>2, <2>1 DEF StorePending, Owning, OwningPhases, OnHost, Settling, Leaving, Kept,
       Protected, Recorded, Fresh, OwnPending, OwnKey, Alone, Restarting
  <2>4. QED
    BY <2>1, <2>2, <2>3, OwnersStep
<1>3. CASE StoreRow(a)
  <2>1. Owning(a) /\ Kept(a)
    BY <1>3 DEF StoreRow, Owning, OwningPhases, OnHost, Alone
  <2>2. \A b \in Attempt : b # a => pc'[b] = pc[b] /\ held'[b] = held[b]
    BY <1>3 DEF StoreRow
  <2>3. (Owning(a)' => Kept(a)') /\ OwnKey(a)'
    BY <1>3, <2>1 DEF StoreRow, Owning, OwningPhases, OnHost, Settling, Leaving, Kept,
       Protected, Recorded, Fresh, OwnPending, OwnKey, Alone, Restarting
  <2>4. QED
    BY <2>1, <2>2, <2>3, OwnersStep
<1>4. CASE DispatchReturns(a)
  <2>1. Owning(a) /\ Kept(a)
    BY <1>4 DEF DispatchReturns, Owning, OwningPhases, OnHost, Alone
  <2>2. \A b \in Attempt : b # a => pc'[b] = pc[b] /\ held'[b] = held[b]
    BY <1>4 DEF DispatchReturns
  <2>3. (Owning(a)' => Kept(a)') /\ OwnKey(a)'
    BY <1>4, <2>1 DEF DispatchReturns, Owning, OwningPhases, OnHost, Settling, Leaving, Kept,
       Protected, Recorded, Fresh, OwnPending, OwnKey, Alone, Restarting
  <2>4. QED
    BY <2>1, <2>2, <2>3, OwnersStep
<1>5. CASE StartRun(a)
  <2>1. Owning(a) /\ Kept(a)
    BY <1>5 DEF StartRun, Owning, OwningPhases, OnHost, Alone
  <2>2. \A b \in Attempt : b # a => pc'[b] = pc[b] /\ held'[b] = held[b]
    BY <1>5 DEF StartRun
  <2>3. (Owning(a)' => Kept(a)') /\ OwnKey(a)'
    BY <1>5, <2>1 DEF StartRun, Owning, OwningPhases, OnHost, Settling, Leaving, Kept,
       Protected, Recorded, Fresh, OwnPending, OwnKey, Alone, Restarting
  <2>4. QED
    BY <2>1, <2>2, <2>3, OwnersStep
<1>6. CASE EndRun(a)
  <2>1. Owning(a) /\ Kept(a)
    BY <1>6 DEF EndRun, Owning, OwningPhases, OnHost, Alone
  <2>2. \A b \in Attempt : b # a => pc'[b] = pc[b] /\ held'[b] = held[b]
    BY <1>6 DEF EndRun
  <2>3. (Owning(a)' => Kept(a)') /\ OwnKey(a)'
    BY <1>6, <2>1 DEF EndRun, Owning, OwningPhases, OnHost, Settling, Leaving, Kept,
       Protected, Recorded, Fresh, OwnPending, OwnKey, Alone, Restarting
  <2>4. QED
    BY <2>1, <2>2, <2>3, OwnersStep
<1>7. CASE LoseRun(a)
  <2>1. Owning(a) /\ Kept(a)
    BY <1>7 DEF LoseRun, Owning, OwningPhases, OnHost, Alone
  <2>2. \A b \in Attempt : b # a => pc'[b] = pc[b] /\ held'[b] = held[b]
    BY <1>7 DEF LoseRun
  <2>3. (Owning(a)' => Kept(a)') /\ OwnKey(a)'
    BY <1>7, <2>1 DEF LoseRun, Owning, OwningPhases, OnHost, Settling, Leaving, Kept,
       Protected, Recorded, Fresh, OwnPending, OwnKey, Alone, Restarting
  <2>4. QED
    BY <2>1, <2>2, <2>3, OwnersStep
<1>8. CASE LoadPending(a)
  <2>1. Owning(a) /\ Kept(a)
    BY <1>8 DEF LoadPending, Owning, OwningPhases, OnHost, Alone
  <2>2. \A b \in Attempt : b # a => pc'[b] = pc[b] /\ held'[b] = held[b]
    BY <1>8 DEF LoadPending
  <2>3. (Owning(a)' => Kept(a)') /\ OwnKey(a)'
    BY <1>8, <2>1 DEF LoadPending, Owning, OwningPhases, OnHost, Settling, Leaving, Kept,
       Protected, Recorded, Fresh, OwnPending, OwnKey, Alone, Restarting
  <2>4. QED
    BY <2>1, <2>2, <2>3, OwnersStep
<1>9. CASE Nudge(a)
  <2>1. Owning(a) /\ Kept(a)
    BY <1>9 DEF Nudge, Owning, OwningPhases, OnHost, Alone
  <2>2. \A b \in Attempt : b # a => pc'[b] = pc[b] /\ held'[b] = held[b]
    BY <1>9 DEF Nudge
  <2>3. (Owning(a)' => Kept(a)') /\ OwnKey(a)'
    BY <1>9, <2>1 DEF Nudge, Owning, OwningPhases, OnHost, Settling, Leaving, Kept,
       Protected, Recorded, Fresh, OwnPending, OwnKey, Alone, Restarting
  <2>4. QED
    BY <2>1, <2>2, <2>3, OwnersStep
<1>10. CASE FinishRun(a)
  <2>1. Owning(a) /\ Kept(a)
    BY <1>10 DEF FinishRun, Owning, OwningPhases, OnHost, Alone
  <2>2. \A b \in Attempt : b # a => pc'[b] = pc[b] /\ held'[b] = held[b]
    BY <1>10 DEF FinishRun, Finish
  <2>3. (Owning(a)' => Kept(a)') /\ OwnKey(a)'
    BY <1>10, <2>1 DEF FinishRun, Finish, Owning, OwningPhases, OnHost, Settling, Leaving, Kept,
       Protected, Recorded, Fresh, OwnPending, OwnKey, Alone, Restarting
  <2>4. QED
    BY <2>1, <2>2, <2>3, OwnersStep
<1>11. CASE ReadRow(a)
  <2>1. Owning(a) /\ Kept(a)
    BY <1>11 DEF ReadRow, Owning, OwningPhases, OnHost, Alone
  <2>2. \A b \in Attempt : b # a => pc'[b] = pc[b] /\ held'[b] = held[b]
    BY <1>11 DEF ReadRow
  <2>3. (Owning(a)' => Kept(a)') /\ OwnKey(a)'
    BY <1>11, <2>1 DEF ReadRow, Owning, OwningPhases, OnHost, Settling, Leaving, Kept,
       Protected, Recorded, Fresh, OwnPending, OwnKey, Alone, Restarting
  <2>4. QED
    BY <2>1, <2>2, <2>3, OwnersStep
<1>12. CASE RebuildClaim(a)
  <2>1. Owning(a) /\ Kept(a)
    BY <1>12 DEF RebuildClaim, Owning, OwningPhases, OnHost, Alone
  <2>2. \A b \in Attempt : b # a => pc'[b] = pc[b] /\ held'[b] = held[b]
    BY <1>12 DEF RebuildClaim
  <2>3. (Owning(a)' => Kept(a)') /\ OwnKey(a)'
    BY <1>12, <2>1 DEF RebuildClaim, Owning, OwningPhases, OnHost, Settling, Leaving, Kept,
       Protected, Recorded, Fresh, OwnPending, OwnKey, Alone, Restarting
  <2>4. QED
    BY <2>1, <2>2, <2>3, OwnersStep
<1>13. CASE Settle(a)
  <2>1. Owning(a) /\ Kept(a)
    BY <1>13 DEF Settle, Owning, OwningPhases, OnHost, Alone
  <2>2. \A b \in Attempt : b # a => pc'[b] = pc[b] /\ held'[b] = held[b]
    BY <1>13 DEF Settle
  <2>3. (Owning(a)' => Kept(a)') /\ OwnKey(a)'
    BY <1>13, <2>1 DEF Settle, Owning, OwningPhases, OnHost, Settling, Leaving, Kept,
       Protected, Recorded, Fresh, OwnPending, OwnKey, Alone, Restarting
  <2>4. QED
    BY <2>1, <2>2, <2>3, OwnersStep
<1>14. CASE DelRow(a)
  <2>1. Owning(a) /\ Kept(a)
    BY <1>14 DEF DelRow, Owning, OwningPhases, OnHost, Alone
  <2>2. \A b \in Attempt : b # a => pc'[b] = pc[b] /\ held'[b] = held[b]
    BY <1>14 DEF DelRow
  <2>3. (Owning(a)' => Kept(a)') /\ OwnKey(a)'
    BY <1>14, <2>1 DEF DelRow, DeleteRow, Owning, OwningPhases, OnHost, Settling, Leaving, Kept,
       Protected, Recorded, Fresh, OwnPending, OwnKey, Alone, Restarting
  <2>4. QED
    BY <2>1, <2>2, <2>3, OwnersStep
<1>15. QED
  BY <1>1, <1>2, <1>3, <1>4, <1>5, <1>6, <1>7, <1>8, <1>9, <1>10, <1>11, <1>12, <1>13, <1>14

\* The steps of a run that has deleted its row take nothing from its successor.
LEMMA LeaversStep ==
    ASSUME TypeInv, Alone, NEW a \in Attempt, DelPending(a) \/ Release(a)
    PROVE  Alone'
<1> USE NoneIsNoRow, NoneIsNoClaim, TokenBy DEF TypeInv, TypeOK, Goto
<1>1. CASE DelPending(a)
  <2>1. /\ ~ Owning(a) /\ ~ Owning(a)' /\ OwnKey(a)'
        /\ \A b \in Attempt : b # a => pc'[b] = pc[b] /\ held'[b] = held[b]
    BY <1>1 DEF DelPending, Owning, OwningPhases, OnHost, OwnKey, Alone
  <2>2. ASSUME NEW b \in Attempt, Owning(b) PROVE Kept(b)'
    <3>1. Kept(b) /\ b # a
      BY <2>1, <2>2 DEF Alone
    <3>2. inflight # None
      BY <1>1, <3>1 DEF Kept, Protected, DelPending, Leaving
    <3>3. QED
      BY <1>1, <2>1, <3>1, <3>2 DEF DelPending, Kept, Protected, Recorded, Fresh, OwnPending
  <2>3. QED
    BY <2>1, <2>2, OthersStep
<1>2. CASE Release(a)
  <2>1. /\ ~ Owning(a) /\ ~ Owning(a)' /\ OwnKey(a)'
        /\ \A b \in Attempt : b # a => pc'[b] = pc[b] /\ held'[b] = held[b]
    BY <1>2 DEF Release, Owning, OwningPhases, OnHost, OwnKey, Alone
  <2>2. ASSUME NEW b \in Attempt, Owning(b) PROVE Kept(b)'
    <3>1. Kept(b) /\ b # a
      BY <2>1, <2>2 DEF Alone
    <3>2. inflight # None
      BY <1>2, <3>1 DEF Kept, Protected, Release, Leaving
    <3>3. inflight.tok.by = b /\ held[a].by = a
      BY <1>2, <3>1, <3>2 DEF Kept, Protected, Alone, OwnKey, Release
    <3>4. inflight' = inflight
      BY <1>2, <3>1, <3>3 DEF Release, CompareAndDelete
    <3>5. QED
      BY <1>2, <2>1, <3>1, <3>2, <3>4 DEF Release, Kept, Protected, Recorded, Fresh, OwnPending
  <2>3. QED
    BY <2>1, <2>2, OthersStep
<1>3. QED
  BY <1>1, <1>2

\* The steps that take a claim: nobody owns the session when they can.
LEMMA ClaimersStep ==
    ASSUME TypeInv, Restarting, Alone, NEW a \in Attempt, Trigger(a) \/ Redispatch(a)
    PROVE  Alone'
<1> USE DEF TypeInv, TypeOK, Goto
<1>1. CASE Trigger(a)
  <2>1. PICK lb \in BOOLEAN : Claim(a, lb)
    BY <1>1 DEF Trigger
  <2>2. \A c \in Attempt : ~ Owning(c)
    BY <1>1, <2>1, OwnedIsNotClaimable DEF Trigger, Claim
  <2>3. /\ pc'[a] = "prep" /\ held' = held
        /\ \A c \in Attempt : c # a => pc'[c] \in {pc[c], "done"}
    BY <1>1 DEF Trigger
  <2>4. QED
    BY <2>1, <2>2, <2>3, ClaimOwns
<1>2. ASSUME Redispatch(a), NEW b \in Attempt, Claim(b, TRUE),
             pc' = [pc EXCEPT ![a] = "done", ![b] = "prep"]
      PROVE  Alone'
  <2>1. pc[a] \in Leaving /\ held' = held
    BY <1>2 DEF Redispatch, Leaving
  <2>2. \A c \in Attempt : ~ Owning(c)
    BY <1>2, <2>1, OwnedIsNotClaimable DEF Claim
  <2>3. pc'[b] = "prep" /\ \A c \in Attempt : c # b => pc'[c] \in {pc[c], "done"}
    BY <1>2
  <2>4. QED
    BY <1>2, <2>1, <2>2, <2>3, ClaimOwns
<1>3. CASE Redispatch(a) /\ Goto(a, "done") /\ UNCHANGED <<inflight, label, timer>>
  <2>1. /\ ~ Owning(a) /\ ~ Owning(a)' /\ OwnKey(a)'
        /\ UNCHANGED <<timer, pr, loaded, held, inflight, pending, row, boot, claims>>
        /\ \A b \in Attempt : b # a => pc'[b] = pc[b] /\ held'[b] = held[b]
    BY <1>3 DEF Redispatch, Owning, OwningPhases, OnHost, OwnKey
  <2>2. ASSUME NEW b \in Attempt, Owning(b) PROVE Kept(b)'
    <3>1. Kept(b) /\ b # a
      BY <2>1, <2>2 DEF Alone
    <3>2. \A c \in Attempt : pc[c] \notin Leaving => pc'[c] \notin Leaving
      BY <1>3 DEF Leaving
    <3>3. QED
      BY <2>1, <3>1, <3>2 DEF Kept, Protected, Recorded, Fresh, OwnPending
  <2>3. QED
    BY <2>1, <2>2, OthersStep
<1>4. QED
  BY <1>1, <1>2, <1>3 DEF Redispatch

\* The process stops: of those that own the session only a run of the host's is
\* left, and its row.
LEMMA CrashStep == ASSUME TypeInv, Alone, Crash PROVE Alone'
<1> USE DEF TypeInv, TypeOK
<1>1. \A a \in Attempt : Owning(a)' => pc[a] \in OnHost /\ pc'[a] = pc[a]
  BY DEF Crash, Owning, OwningPhases, OnHost, Preparing, Settling
<1>2. \A a \in Attempt : pc'[a] \notin Leaving \cup {"settling", "delRow"}
  BY DEF Crash, Leaving, Preparing, Settling
<1>3. ASSUME NEW a \in Attempt, Owning(a)' PROVE Kept(a)'
  <2>1. Kept(a) /\ pc[a] \in OnHost /\ pc'[a] = pc[a]
    BY <1>1, <1>3 DEF Alone, Owning, OwningPhases
  <2>2. QED
    BY <1>2, <2>1 DEF Crash, Kept, Protected, Recorded, Fresh, OwnPending, OnHost
<1>4. \A a \in Attempt : OwnKey(a)'
  BY <1>2 DEF OwnKey, Leaving
<1>5. QED
  BY <1>1, <1>3, <1>4 DEF Alone, Owning, OwningPhases

\* Start keeps the row of a run that still may end and restores its claim.
LEMMA StartStep == ASSUME TypeInv, Restarting, Alone, Start PROVE Alone'
<1> USE DEF TypeInv, TypeOK
<1>1. UNCHANGED <<pc, timer, pr, loaded, held, pending>>
  BY DEF Start, Prune, ReadClaims, RestoreClaims, attemptVars
<1>2. ASSUME NEW a \in Attempt, Owning(a) PROVE Kept(a)'
  <2>1. Kept(a) /\ OwnPending(a)'
    BY <1>1, <1>2 DEF Alone, Kept, OwnPending
  <2>2. CASE Prune
    <3>1. Recorded(a) => row.age < Lease
      BY <1>2, Bounds, FreshIsYoung DEF Recorded
    <3>2. Recorded(a) => row' = row
      BY <2>2, <3>1, Bounds, TicksAssumption DEF Prune, Restarting, Recorded, PruneAge
    <3>3. Recorded(a) => Recorded(a)'
      BY <1>1, <3>2 DEF Recorded, Fresh
    <3>4. Protected(a)'
      BY <1>1, <2>1, <2>2 DEF Prune, Kept, Protected, Fresh
    <3>5. QED
      BY <1>1, <2>1, <3>3, <3>4 DEF Kept
  <2>3. CASE ReadClaims
    <3>1. claims' = row /\ boot' = "read" /\ UNCHANGED <<inflight, row>>
      BY <2>3 DEF ReadClaims, Restarting
    <3>2. Protected(a)'
      BY <1>1, <2>1, <3>1 DEF Kept, Protected, Recorded, Fresh
    <3>3. QED
      BY <1>1, <2>1, <3>1, <3>2 DEF Kept, Recorded, Fresh
  <2>4. CASE RestoreClaims
    <3>1. boot = "read" /\ boot' = "up" /\ row' = row
      BY <2>4 DEF RestoreClaims
    <3>2. CASE inflight # None
      BY <1>1, <2>1, <2>4, <3>1, <3>2 DEF RestoreClaims, Kept, Protected, Recorded, Fresh
    <3>3. CASE inflight = None
      <4>1. claims # None /\ claims.by = a /\ Fresh(a, claims.age)
        BY <2>1, <3>1, <3>3 DEF Kept, Protected
      <4>2. claims.age \in Nat /\ claims.age < Lease
        BY <1>2, <4>1, Bounds, FreshIsYoung
      <4>3. inflight' = [tok |-> Token(a, "row"), age |-> claims.age]
        BY <2>4, <3>3, <4>1, <4>2 DEF RestoreClaims, Cap
      <4>4. inflight' # None
        BY <4>2, <4>3, NoneIsNoClaim, TokenType
      <4>5. inflight'.tok.by = a /\ inflight'.age = claims.age
        BY <4>3, TokenBy
      <4>6. Protected(a)'
        BY <1>1, <4>1, <4>4, <4>5 DEF Protected, Fresh
      <4>7. QED
        BY <1>1, <2>1, <3>1, <4>6 DEF Kept, Recorded, Fresh
    <3>4. QED
      BY <3>2, <3>3
  <2>5. QED
    BY <2>2, <2>3, <2>4 DEF Start
<1>3. QED
  BY <1>1, <1>2 DEF Alone, Owning, OwnKey

\* An age that is capped grows by one at most.
LEMMA CapGrows ==
    ASSUME NEW bound \in Nat, NEW n \in 0..bound
    PROVE  Cap(n + 1, bound) \in 0..bound /\ Cap(n + 1, bound) <= n + 1
  BY DEF Cap

\* What is fresh stays so: the stage it is measured by gets older too.
LEMMA FreshStays ==
    ASSUME TypeInv, Restarting, Tick, NEW a \in Attempt, Owning(a),
           NEW m \in Nat, NEW n \in Nat, Fresh(a, m), n <= m + 1
    PROVE  Fresh(a, n)'
<1> USE TicksAssumption DEF TypeInv, TypeOK, Fresh, MayWait
<1>1. /\ timer[a] \in Nat /\ MayWait(a) /\ pc'[a] = pc[a]
      /\ timer'[a] = IF pc[a] \in Preparing \cup Settling \cup {"running"}
                     THEN timer[a] + 1 ELSE timer[a]
  BY DEF Tick
<1>2. CASE pc[a] \in {"prep", "stored", "rowed"}
  BY <1>1, <1>2 DEF Preparing, Settling
<1>3. CASE pc[a] = "queued"
  BY <1>1, <1>3 DEF Preparing, Settling, Restarting
<1>4. CASE pc[a] = "running"
  BY <1>1, <1>4 DEF Preparing, Settling
<1>5. CASE pc[a] \in Settling
  BY <1>1, <1>5 DEF Preparing, Settling
<1>6. QED
  BY <1>2, <1>3, <1>4, <1>5 DEF Owning, OwningPhases, OnHost, Settling

\* What ages with its claim stays within its bounds, or time does not pass.
LEMMA TickStep == ASSUME TypeInv, Restarting, Alone, Tick PROVE Alone'
<1> USE DEF TypeInv, TypeOK
<1>1. UNCHANGED <<pc, pr, loaded, held, pending, boot>>
  BY DEF Tick
<1>2. ASSUME NEW a \in Attempt, Owning(a) PROVE Kept(a)'
  <2>1. Kept(a) /\ OwnPending(a)'
    BY <1>1, <1>2 DEF Alone, Kept, OwnPending
  <2>2. Recorded(a) => Recorded(a)'
    <3> SUFFICES ASSUME Recorded(a) PROVE Recorded(a)'
      OBVIOUS
    <3>1. row \in [by : Attempt, age : 0..(PruneAge + 1)] /\ row.by = a
      BY DEF Recorded
    <3>2. row' = [row EXCEPT !.age = Cap(row.age + 1, PruneAge + 1)]
      BY DEF Tick, Recorded
    <3>3. /\ Cap(row.age + 1, PruneAge + 1) \in Nat
          /\ Cap(row.age + 1, PruneAge + 1) <= row.age + 1
      BY <3>1, Bounds, CapGrows
    <3>4. row'.by = a /\ row'.age = Cap(row.age + 1, PruneAge + 1) /\ row' # None
      BY <3>1, <3>2, <3>3, NoneIsNoRow
    <3>5. \A n \in Nat : n <= row.age + 1 => Fresh(a, n)'
      BY <1>2, <3>1, Bounds, FreshStays DEF Recorded
    <3>6. QED
      BY <3>3, <3>4, <3>5 DEF Recorded, Fresh
  <2>3. Protected(a)'
    <3>1. CASE inflight # None
      <4>1. inflight \in [tok : Tokens, age : 0..Lease] /\ inflight.tok.by = a
            /\ Fresh(a, inflight.age)
        BY <2>1, <3>1 DEF Kept, Protected
      <4>2. inflight' = [inflight EXCEPT !.age = Cap(inflight.age + 1, Lease)]
        BY <3>1 DEF Tick
      <4>3. /\ Cap(inflight.age + 1, Lease) \in Nat
            /\ Cap(inflight.age + 1, Lease) <= inflight.age + 1
        BY <4>1, Bounds, CapGrows
      <4>4. /\ inflight'.tok.by = a /\ inflight' # None
            /\ inflight'.age = Cap(inflight.age + 1, Lease)
        BY <4>1, <4>2, <4>3, NoneIsNoClaim
      <4>5. \A n \in Nat : n <= inflight.age + 1 => Fresh(a, n)'
        BY <1>2, <4>1, Bounds, FreshStays
      <4>6. QED
        BY <4>3, <4>4, <4>5 DEF Protected, Fresh
    <3>2. CASE inflight = None
      <4>1. inflight' = None
        BY <3>2 DEF Tick
      <4>2. CASE boot # "read"
        BY <1>1, <2>1, <3>2, <4>1, <4>2 DEF Kept, Protected
      <4>3. CASE boot = "read"
        <5>1. /\ claims \in [by : Attempt, age : 0..(PruneAge + 1)] /\ claims.by = a
              /\ claims # None /\ Fresh(a, claims.age)
          BY <2>1, <3>2, <4>3 DEF Kept, Protected
        <5>2. claims' = [claims EXCEPT !.age = Cap(claims.age + 1, PruneAge + 1)]
          BY <5>1 DEF Tick
        <5>3. /\ Cap(claims.age + 1, PruneAge + 1) \in Nat
              /\ Cap(claims.age + 1, PruneAge + 1) <= claims.age + 1
          BY <5>1, Bounds, CapGrows
        <5>4. /\ claims'.by = a /\ claims' # None
              /\ claims'.age = Cap(claims.age + 1, PruneAge + 1)
          BY <5>1, <5>2, <5>3, NoneIsNoRow
        <5>5. \A n \in Nat : n <= claims.age + 1 => Fresh(a, n)'
          BY <1>2, <5>1, Bounds, FreshStays
        <5>6. QED
          BY <1>1, <2>1, <3>2, <4>1, <5>3, <5>4, <5>5 DEF Kept, Protected, Fresh
      <4>4. QED
        BY <4>2, <4>3
    <3>3. QED
      BY <3>1, <3>2
  <2>4. QED
    BY <1>1, <2>1, <2>2, <2>3 DEF Kept
<1>3. QED
  BY <1>1, <1>2 DEF Alone, Owning, OwnKey

\* Every step keeps the invariant of restarts.
LEMMA RestartStep == ASSUME RInv, Restarting, [Next]_vars PROVE RInv'
<1>1. TypeInv' /\ NotRefused'
  BY TypeStep, NotRefusedStep DEF RInv
<1>2. SUFFICES ASSUME NoneNudged' PROVE Alone'
  BY <1>1 DEF RInv
<1>3. TypeInv /\ NotRefused /\ Alone
  BY <1>2, NudgedStays DEF RInv
<1>4. ASSUME NEW a \in Attempt, Trigger(a) \/ Abort(a) \/ Goroutine(a) \/ Host(a) PROVE Alone'
  <2>1. ~ UndoPending(a) /\ ~ UndoClaim(a) /\ ~ UndoRow(a)
    BY <1>3 DEF NotRefused, UndoPending, UndoClaim, UndoRow
  <2>2. ~ NudgeReturns(a)
    BY <1>2, <1>3 DEF NudgeReturns, Restarting, NoneNudged, TypeInv, TypeOK
  <2>3. QED
    BY <1>1, <1>3, <1>4, <2>1, <2>2, OwnedStep, LeaversStep, ClaimersStep DEF Goroutine, Host
<1>5. CASE (\E a \in Attempt : Deliver(a)) \/ UNCHANGED vars
  <2>1. UNCHANGED <<pc, timer, pr, loaded, held, inflight, pending, row, boot, claims>>
    BY <1>5 DEF Deliver, attemptVars, vars
  <2>2. QED
    BY <1>3, <2>1 DEF Alone, Owning, OwnKey, Kept, Protected, Recorded, Fresh, OwnPending
<1>6. QED
  BY <1>3, <1>4, <1>5, CrashStep, StartStep, TickStep DEF Next

\* The invariant of restarts is inductive.
LEMMA RestartInvariant == Restarting /\ Spec => []RInv
<1>1. Init => RInv
  BY TicksAssumption, NoneAssumption
     DEF Init, RInv, TypeInv, TypeOK, LoadedIsSome, Phases, NotRefused, Alone,
         Owning, OwningPhases, OnHost, OwnKey
<1>2. Restarting /\ RInv /\ [Next]_vars => RInv'
  BY RestartStep
<1>3. Restarting => []Restarting
  BY DEF Restarting
<1>4. QED
  BY <1>1, <1>2, <1>3, PTL DEF Spec

\* extension.go:271 "A run resumed at boot still holds its session": however
\* often and wherever the process stops, between two steps of Start as well, no
\* second run of the session is ever with the host.
THEOREM ResumedIsAlone == Restarting /\ Spec => []ResumedRunIsAlone
<1>1. RInv => ResumedRunIsAlone
  BY DEF RInv, Alone, ResumedRunIsAlone, Owning, OwningPhases
<1>2. QED
  BY <1>1, RestartInvariant, PTL

\* run.go:106: the row of a run that the host has is there, and its own, until
\* that run's end has been settled, across any number of restarts.
THEOREM OutcomeSurvives == Restarting /\ Spec => []OutcomeSurvivesRestart
<1>1. RInv => OutcomeSurvivesRestart
  BY DEF RInv, Alone, Kept, Recorded, OutcomeSurvivesRestart, Owning, OwningPhases, OnHost
<1>2. QED
  BY <1>1, RestartInvariant, PTL

=============================================================================
