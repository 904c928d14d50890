---------------------------- MODULE RunLifecycle ----------------------------
(***************************************************************************)
(* The github extension's dispatch core, for ONE session (one issue or PR, *)
(* or one requester's /explain): the leased claim that keeps a session to  *)
(* one run, the in-memory pendingRun and its durable row that lead the     *)
(* run's end back to its dispatch, the one-shot nudge, finalize, and a     *)
(* restart.  Sessions share no state on this path (every map and table is  *)
(* keyed by session or chat), so one session is the whole story.           *)
(*                                                                         *)
(* An Attempt is one call of dispatch() together with the host run it      *)
(* starts and the RunEnded goroutine that settles that run: at any time it *)
(* is in exactly one phase, and each phase change is one access to shared  *)
(* state.  Anything may happen between two phases.                         *)
(*                                                                         *)
(* Time is counted in ticks.  Ages are relative and capped where the code  *)
(* stops telling them apart, so time itself is unbounded.                  *)
(***************************************************************************)
EXTENDS Naturals

CONSTANTS
    Attempt,        \* dispatch() calls; each is used once
    None,           \* absent map entry, absent row
    PrepTicks,      \* longest pre-dispatch phase (fixContextTimeout bounds it)
    RunTicks,       \* runTimeout: longest execution of a host run
    FinalizeTicks,  \* longest RunEnded goroutine (its GitHub calls)
    MarginTicks,    \* the lease's ten minutes on top of runTimeout
    Faults          \* which of FaultKinds the environment may show

\* queue: a run may wait in the host's queue for any time (sdk.RunConfig.Timeout
\*        "bounds this run's execution, not queue wait");
\* lose:  a force-cancelled or killed run never reaches RunEnded;
\* refuse: Host.Dispatch may return an error;
\* store: a store write or read may fail;
\* crash: the process may stop at any point and start again.
FaultKinds == {"queue", "lose", "refuse", "store", "crash"}

ASSUME TicksAssumption ==
    /\ PrepTicks \in Nat /\ RunTicks \in Nat /\ FinalizeTicks \in Nat /\ MarginTicks \in Nat
ASSUME FaultsAssumption == Faults \subseteq FaultKinds
ASSUME NoneAssumption == None \notin Attempt

VARIABLES
    pc,         \* pc[a]: the phase of attempt a
    timer,      \* timer[a]: ticks since a's stage (prepare, run, settle) began
    label,      \* label[a]: pendingRun.isLabelTrigger
    nudge,      \* nudge[a]: the host run of a is the nudge follow-up
    pr,         \* pr[a]: the pendingRun a's dispatch made: claimedAt and nudged
    loaded,     \* loaded[a]: the pendingRun a's RunEnded goroutine found (whose it is)
    held,       \* held[a]: pr.claimedAt as finalize's deferred release evaluated it
    again,      \* again[a]: pr.reReview is set, finish will dispatch a re-review
    inflight,   \* Extension.inflight: the session's claim
    pending,    \* Extension.pending: whose pendingRun the chat's entry points to
    row,        \* the chat's github_pending_run row
    detail,     \* deliveryResults: whose Deliver recorded the chat's outcome
    boot,       \* how far Start has got
    claims      \* Start's result of PendingClaims

attemptVars == <<pc, timer, label, nudge, pr, loaded, held, again>>
vars == <<pc, timer, label, nudge, pr, loaded, held, again,
          inflight, pending, row, detail, boot, claims>>

\* Faulty variant: Start prunes at the run's timeout.
PruneAge_Run == RunTicks

\* inflightLease, and the age PrunePendingRuns deletes beyond.
Lease == RunTicks + MarginTicks
PruneAge == Lease + RunTicks

\* A claim's time.Time, the token finalize releases by: every time.Now() is
\* another value, so it is named by the attempt and the call site that took it.
Tokens == [by : Attempt, src : {"claim", "nudge", "row", "rebuilt"}]
Token(a, s) == [by |-> a, src |-> s]

\* "No claim", "no token" and "no row" are told apart from every real one.
ASSUME NoneIsNoToken == None \notin Tokens
ASSUME NoneIsNoClaim == None \notin [tok : Tokens, age : Nat]
ASSUME NoneIsNoRow == None \notin [by : Attempt, age : Nat]

Preparing == {"prep", "stored", "rowed", "undoPending", "undoClaim", "undoRow", "nudging"}
OnHost    == {"queued", "running"}
Settling  == {"ended", "loaded", "reading", "rebuilding", "settling",
              "delRow", "delPending", "release", "redispatch"}
Over      == {"done", "dropped", "lost", "killed"}
Phases    == {"new"} \cup Preparing \cup OnHost \cup Settling \cup Over

TypeOK ==
    /\ pc \in [Attempt -> Phases]
    /\ timer \in [Attempt -> Nat]
    /\ label \in [Attempt -> BOOLEAN]
    /\ nudge \in [Attempt -> BOOLEAN]
    /\ pr \in [Attempt -> [tok : Tokens \cup {None}, nudged : BOOLEAN]]
    /\ loaded \in [Attempt -> Attempt \cup {None}]
    /\ held \in [Attempt -> Tokens \cup {None}]
    /\ again \in [Attempt -> BOOLEAN]
    /\ inflight \in [tok : Tokens, age : 0..Lease] \cup {None}
    /\ pending \in Attempt \cup {None}
    /\ row \in [by : Attempt, age : 0..(PruneAge + 1)] \cup {None}
    /\ detail \in Attempt \cup {None}
    /\ boot \in {"starting", "pruned", "read", "up"}
    /\ claims \in [by : Attempt, age : 0..(PruneAge + 1)] \cup {None}

Init ==
    /\ pc = [a \in Attempt |-> "new"]
    /\ timer = [a \in Attempt |-> 0]
    /\ label = [a \in Attempt |-> FALSE]
    /\ nudge = [a \in Attempt |-> FALSE]
    /\ pr = [a \in Attempt |-> [tok |-> None, nudged |-> FALSE]]
    /\ loaded = [a \in Attempt |-> None]
    /\ held = [a \in Attempt |-> None]
    /\ again = [a \in Attempt |-> FALSE]
    /\ inflight = None
    /\ pending = None
    /\ row = None
    /\ detail = None
    /\ boot = "up"
    /\ claims = None

Goto(a, phase) == pc' = [pc EXCEPT ![a] = phase]

-----------------------------------------------------------------------------
(* Faulty variants of the definitions below, each a slip that would compile.  *)
(* The mutants of PROJECT.json swap them in to see the properties fail.       *)

\* A lease without the ten minutes' margin: the run's own timeout.
Expired_NoMargin(c) == c.age >= RunTicks

\* A bare flag instead of a lease.
Expired_Never(c) == FALSE

\* LoadOrStore in place of Store: an abandoned pendingRun is kept.
StorePending_KeepsOld(a) ==
    /\ pc[a] = "prep"
    /\ pr' = [pr EXCEPT ![a] = [tok |-> Token(a, "claim"), nudged |-> FALSE]]
    /\ pending' = IF pending = None THEN a ELSE pending
    /\ Goto(a, "stored")
    /\ UNCHANGED <<timer, label, nudge, loaded, held, again, inflight, row, detail, boot, claims>>

\* pr.nudged is never set.
Nudge_Forever(a) ==
    /\ pc[a] = "loaded"
    /\ ~ pr[loaded[a]].nudged /\ label[loaded[a]]
    /\ pr' = [pr EXCEPT ![loaded[a]].tok = Token(a, "nudge")]
    /\ inflight' = [tok |-> Token(a, "nudge"), age |-> 0]
    /\ timer' = [timer EXCEPT ![a] = 0]
    /\ Goto(a, "nudging")
    /\ UNCHANGED <<label, nudge, loaded, held, again, pending, row, detail, boot, claims>>

\* The nudge runs on what is left of the primary run's lease.
Nudge_NoRenewal(a) ==
    /\ pc[a] = "loaded"
    /\ ~ pr[loaded[a]].nudged /\ label[loaded[a]]
    /\ pr' = [pr EXCEPT ![loaded[a]].nudged = TRUE]
    /\ timer' = [timer EXCEPT ![a] = 0]
    /\ Goto(a, "nudging")
    /\ UNCHANGED <<label, nudge, loaded, held, again,
                   inflight, pending, row, detail, boot, claims>>

\* A Delete of whatever claim there is, in place of CompareAndDelete.
CompareAndDelete_Any(t) == inflight' = None

\* Start restores no claim.
RestoreClaims_None ==
    /\ boot = "read"
    /\ claims' = None
    /\ boot' = "up"
    /\ UNCHANGED <<attemptVars, inflight, pending, row, detail>>

-----------------------------------------------------------------------------

Cap(x, bound) == IF x < bound THEN x ELSE bound

\* inflight.CompareAndDelete(sessionID, t)
CompareAndDelete(t) ==
    inflight' = IF inflight # None /\ inflight.tok = t THEN None ELSE inflight

Expired(c) == c.age >= Lease

\* claimInflight succeeds: no claim, or an expired one to take over.
Claimable == inflight # None => Expired(inflight)

-----------------------------------------------------------------------------
(* dispatch() *)

\* claimOrAck: take the session's slot.  (A live claim drops the trigger: the
\* acknowledgement is all that happens, so it is no step here.)
Claim(a, isLabel) ==
    /\ pc[a] = "new"
    /\ Claimable
    /\ inflight' = [tok |-> Token(a, "claim"), age |-> 0]
    /\ label' = [label EXCEPT ![a] = isLabel]
    /\ timer' = [timer EXCEPT ![a] = 0]

\* A webhook's goroutine calls dispatch.
Trigger(a) ==
    /\ boot = "up"
    /\ \E isLabel \in BOOLEAN : Claim(a, isLabel)
    /\ Goto(a, "prep")
    /\ UNCHANGED <<nudge, pr, loaded, held, again, pending, row, detail, boot, claims>>

\* abortBlind, or resolvePRHead without a head: clearInflight and return.
Abort(a) ==
    /\ pc[a] = "prep"
    /\ CompareAndDelete(Token(a, "claim"))
    /\ Goto(a, "done")
    /\ UNCHANGED <<timer, label, nudge, pr, loaded, held,
                   again, pending, row, detail, boot, claims>>

\* e.pending.Store, before Dispatch: RunEnded can fire as soon as it returns.
StorePending(a) ==
    /\ pc[a] = "prep"
    /\ pr' = [pr EXCEPT ![a] = [tok |-> Token(a, "claim"), nudged |-> FALSE]]
    /\ pending' = a
    /\ Goto(a, "stored")
    /\ UNCHANGED <<timer, label, nudge, loaded, held, again,
                   inflight, row, detail, boot, claims>>

\* store.SetPendingRun; a failure is logged and the dispatch goes on.
StoreRow(a) ==
    /\ pc[a] = "stored"
    /\ \/ row' = [by |-> a, age |-> 0]
       \/ "store" \in Faults /\ row' = row
    /\ Goto(a, "rowed")
    /\ UNCHANGED <<timer, label, nudge, pr, loaded, held, again,
                   inflight, pending, detail, boot, claims>>

\* Host.Dispatch returns: accepted, or an error that starts the cleanup.
DispatchReturns(a) ==
    /\ pc[a] = "rowed"
    /\ \/ Goto(a, "queued")
       \/ "refuse" \in Faults /\ Goto(a, "undoPending")
    /\ UNCHANGED <<timer, label, nudge, pr, loaded, held, again,
                   inflight, pending, row, detail, boot, claims>>

\* The cleanup of a refused dispatch, in the code's order: pending, claim, row.
UndoPending(a) ==
    /\ pc[a] = "undoPending"
    /\ pending' = None
    /\ Goto(a, "undoClaim")
    /\ UNCHANGED <<timer, label, nudge, pr, loaded, held, again,
                   inflight, row, detail, boot, claims>>

UndoClaim(a) ==
    /\ pc[a] = "undoClaim"
    /\ CompareAndDelete(Token(a, "claim"))
    /\ Goto(a, "undoRow")
    /\ UNCHANGED <<timer, label, nudge, pr, loaded, held,
                   again, pending, row, detail, boot, claims>>

\* store.DeletePendingRun, by chat id; a failure is logged.
DeleteRow == row' = None \/ ("store" \in Faults /\ row' = row)

UndoRow(a) ==
    /\ pc[a] = "undoRow"
    /\ DeleteRow
    /\ Goto(a, "done")
    /\ UNCHANGED <<timer, label, nudge, pr, loaded, held, again,
                   inflight, pending, detail, boot, claims>>

-----------------------------------------------------------------------------
(* The host, as sdk.go describes it *)

\* The run leaves the host's queue; its Timeout starts counting.
StartRun(a) ==
    /\ pc[a] = "queued"
    /\ Goto(a, "running")
    /\ timer' = [timer EXCEPT ![a] = 0]
    /\ UNCHANGED <<label, nudge, pr, loaded, held, again,
                   inflight, pending, row, detail, boot, claims>>

\* The delivery gate calls Deliver for the run: its deferred recordDelivery
\* stores the outcome under the chat id.
Deliver(a) ==
    /\ pc[a] = "running"
    /\ detail # a
    /\ detail' = a
    /\ UNCHANGED <<attemptVars, inflight, pending, row, boot, claims>>

\* The run is over: the host calls RunEnded.
EndRun(a) ==
    /\ pc[a] \in OnHost
    /\ Goto(a, "ended")
    /\ timer' = [timer EXCEPT ![a] = 0]
    /\ UNCHANGED <<label, nudge, pr, loaded, held, again,
                   inflight, pending, row, detail, boot, claims>>

\* The run is force-cancelled or killed: RunEnded never comes.
LoseRun(a) ==
    /\ "lose" \in Faults
    /\ pc[a] \in OnHost
    /\ Goto(a, "lost")
    /\ UNCHANGED <<timer, label, nudge, pr, loaded, held, again,
                   inflight, pending, row, detail, boot, claims>>

-----------------------------------------------------------------------------
(* RunEnded *)

\* e.pending.Load: the chat's pendingRun, or none (the normal case after a
\* restart).
LoadPending(a) ==
    /\ pc[a] = "ended"
    /\ loaded' = [loaded EXCEPT ![a] = pending]
    /\ Goto(a, IF pending = None THEN "reading" ELSE "loaded")
    /\ UNCHANGED <<timer, label, nudge, pr, held, again,
                   inflight, pending, row, detail, boot, claims>>

\* A label-triggered run that ran no plan, the first time: pr.nudged is set and
\* the claim renewed with an unconditional Store, before the nudge is dispatched
\* on the same chat.
Nudge(a) ==
    /\ pc[a] = "loaded"
    /\ ~ pr[loaded[a]].nudged /\ label[loaded[a]]
    /\ pr' = [pr EXCEPT ![loaded[a]] = [tok |-> Token(a, "nudge"), nudged |-> TRUE]]
    /\ inflight' = [tok |-> Token(a, "nudge"), age |-> 0]
    /\ timer' = [timer EXCEPT ![a] = 0]
    /\ Goto(a, "nudging")
    /\ UNCHANGED <<label, nudge, loaded, held, again, pending, row, detail, boot, claims>>

\* finish: finalize's first defer evaluates pr.claimedAt, the token to release.
Finish(a) ==
    /\ held' = [held EXCEPT ![a] = pr[loaded[a]].tok]
    /\ Goto(a, "settling")

\* The end of a run that is not nudged.
FinishRun(a) ==
    /\ pc[a] = "loaded"
    /\ Finish(a)
    /\ UNCHANGED <<timer, label, nudge, pr, loaded, again,
                   inflight, pending, row, detail, boot, claims>>

\* Host.Dispatch of the nudge: accepted, or finish with what there is.
NudgeReturns(a) ==
    /\ pc[a] = "nudging"
    /\ \/ /\ Goto(a, "queued")
          /\ nudge' = [nudge EXCEPT ![a] = TRUE]
          /\ UNCHANGED held
       \/ /\ "refuse" \in Faults
          /\ Finish(a)
          /\ UNCHANGED nudge
    /\ timer' = [timer EXCEPT ![a] = 0]
    /\ UNCHANGED <<label, pr, loaded, again, inflight, pending, row, detail, boot, claims>>

\* rebuildPendingRun reads the durable row; the outcome is dropped when there is
\* none or it cannot be read.
ReadRow(a) ==
    /\ pc[a] = "reading"
    /\ \/ row # None /\ Goto(a, "rebuilding")
       \/ (row = None \/ "store" \in Faults) /\ Goto(a, "dropped")
    /\ UNCHANGED <<timer, label, nudge, pr, loaded, held, again,
                   inflight, pending, row, detail, boot, claims>>

\* It then reuses whatever claim the session holds now, else makes up a token
\* that matches none; nudged is forced, so the rebuilt run is finished at once.
RebuildClaim(a) ==
    /\ pc[a] = "rebuilding"
    /\ held' = [held EXCEPT ![a] = IF inflight # None THEN inflight.tok
                                    ELSE Token(a, "rebuilt")]
    /\ Goto(a, "settling")
    /\ UNCHANGED <<timer, label, nudge, pr, loaded, again,
                   inflight, pending, row, detail, boot, claims>>

\* finalize's body: takeDeliveryDetail consumes the chat's outcome; a delivered
\* review whose merge found the head moved asks for a re-review.
Settle(a) ==
    /\ pc[a] = "settling"
    /\ detail' = None
    /\ \E moved \in BOOLEAN :
          /\ moved => detail # None
          /\ again' = [again EXCEPT ![a] = moved]
    /\ Goto(a, "delRow")
    /\ UNCHANGED <<timer, label, nudge, pr, loaded, held,
                   inflight, pending, row, boot, claims>>

\* finalize's three defers, last deferred first.
DelRow(a) ==
    /\ pc[a] = "delRow"
    /\ DeleteRow
    /\ Goto(a, "delPending")
    /\ UNCHANGED <<timer, label, nudge, pr, loaded, held, again,
                   inflight, pending, detail, boot, claims>>

DelPending(a) ==
    /\ pc[a] = "delPending"
    /\ pending' = None
    /\ Goto(a, "release")
    /\ UNCHANGED <<timer, label, nudge, pr, loaded, held, again,
                   inflight, row, detail, boot, claims>>

Release(a) ==
    /\ pc[a] = "release"
    /\ CompareAndDelete(held[a])
    /\ Goto(a, IF again[a] THEN "redispatch" ELSE "done")
    /\ UNCHANGED <<timer, label, nudge, pr, loaded, held,
                   again, pending, row, detail, boot, claims>>

\* Attempt bounds the dispatches of one behaviour.
Exhausted == \A b \in Attempt : pc[b] # "new"

\* finish: the re-review is dispatched (as attempt b) once finalize is through,
\* or dropped when another trigger took the slot first.
Redispatch(a) ==
    /\ pc[a] = "redispatch"
    /\ \/ \E b \in Attempt :
             /\ Claim(b, TRUE)
             /\ pc' = [pc EXCEPT ![a] = "done", ![b] = "prep"]
       \/ /\ ~ Claimable \/ Exhausted
          /\ Goto(a, "done")
          /\ UNCHANGED <<inflight, label, timer>>
    /\ UNCHANGED <<nudge, pr, loaded, held, again, pending, row, detail, boot, claims>>

-----------------------------------------------------------------------------
(* Restart *)

\* The process stops: goroutines, claims, pendingRuns and delivery details are
\* gone.  Rows survive, and so do the runs the host resumes at boot.
Crash ==
    /\ "crash" \in Faults
    /\ pc' = [a \in Attempt |-> IF pc[a] \in Preparing \cup Settling THEN "killed" ELSE pc[a]]
    /\ inflight' = None
    /\ pending' = None
    /\ detail' = None
    /\ claims' = None
    /\ boot' = "starting"
    /\ UNCHANGED <<timer, label, nudge, pr, loaded, held, again, row>>

\* Start: prune the rows no RunEnded can consume any more.
Prune ==
    /\ boot = "starting"
    /\ \/ row' = IF row # None /\ row.age > PruneAge THEN None ELSE row
       \/ "store" \in Faults /\ row' = row
    /\ boot' = "pruned"
    /\ UNCHANGED <<attemptVars, inflight, pending, detail, claims>>

\* Start: PendingClaims; a failure restores no claim.
ReadClaims ==
    /\ boot = "pruned"
    /\ claims' = row \/ ("store" \in Faults /\ claims' = None)
    /\ boot' = "read"
    /\ UNCHANGED <<attemptVars, inflight, pending, row, detail>>

\* Start: LoadOrStore every claim read, at its row's created_at.
RestoreClaims ==
    /\ boot = "read"
    /\ inflight' = IF claims # None /\ inflight = None
                   THEN [tok |-> Token(claims.by, "row"), age |-> Cap(claims.age, Lease)]
                   ELSE inflight
    /\ claims' = None
    /\ boot' = "up"
    /\ UNCHANGED <<attemptVars, pending, row, detail>>

-----------------------------------------------------------------------------
(* Time *)

\* The longest a phase may still last: contexts bound the preparation and the
\* settling, the host's deadline bounds the run, only queue wait is unbounded.
MayWait(a) ==
    CASE pc[a] \in Preparing  -> timer[a] < PrepTicks
      [] pc[a] = "queued"     -> "queue" \in Faults
      [] pc[a] = "running"    -> timer[a] < RunTicks
      [] pc[a] \in Settling   -> timer[a] < FinalizeTicks
      [] OTHER                -> TRUE

Tick ==
    /\ \A a \in Attempt : MayWait(a)
    /\ timer' = [a \in Attempt |-> IF pc[a] \in Preparing \cup Settling \cup {"running"}
                                   THEN timer[a] + 1 ELSE timer[a]]
    /\ inflight' = IF inflight = None THEN None
                   ELSE [inflight EXCEPT !.age = Cap(@ + 1, Lease)]
    /\ row' = IF row = None THEN None ELSE [row EXCEPT !.age = Cap(@ + 1, PruneAge + 1)]
    /\ claims' = IF claims = None THEN None
                 ELSE [claims EXCEPT !.age = Cap(@ + 1, PruneAge + 1)]
    /\ UNCHANGED <<pc, label, nudge, pr, loaded, held, again, pending, detail, boot>>

-----------------------------------------------------------------------------

\* What the goroutines of attempt a do on their own.
Goroutine(a) ==
    \/ StorePending(a) \/ StoreRow(a) \/ DispatchReturns(a)
    \/ UndoPending(a) \/ UndoClaim(a) \/ UndoRow(a)
    \/ LoadPending(a) \/ Nudge(a) \/ NudgeReturns(a) \/ FinishRun(a)
    \/ ReadRow(a) \/ RebuildClaim(a)
    \/ Settle(a) \/ DelRow(a) \/ DelPending(a) \/ Release(a) \/ Redispatch(a)

Host(a) == StartRun(a) \/ EndRun(a) \/ LoseRun(a)

Start == Prune \/ ReadClaims \/ RestoreClaims

Next ==
    \/ \E a \in Attempt : \/ Trigger(a) \/ Abort(a) \/ Goroutine(a)
                          \/ Host(a) \/ Deliver(a)
    \/ Start
    \/ Crash
    \/ Tick

Spec == Init /\ [][Next]_vars

(***************************************************************************)
(* Fairness: goroutines run; the host starts what it queued and ends what  *)
(* it runs (it has a Timeout); a started process gets through Start; time  *)
(* passes.  Nobody has to trigger, to deliver, to lose a run, to refuse a  *)
(* dispatch or to crash.                                                   *)
(***************************************************************************)
FairSpec ==
    /\ Spec
    /\ \A a \in Attempt : WF_vars(Goroutine(a)) /\ WF_vars(StartRun(a) \/ EndRun(a))
    /\ WF_vars(Start)
    /\ WF_vars(Tick)

-----------------------------------------------------------------------------

\* Attempt a has the session: from its claim to the release of it.  What a
\* refused dispatch or a finished run still does afterwards is not serving.
Serving(a) == pc[a] \in {"prep", "stored", "rowed", "undoPending", "undoClaim", "nudging"}
                       \cup OnHost
                       \cup (Settling \ {"redispatch"})

\* webhook.go:699 "One run per session": at most one attempt is anywhere
\* between its claim and its release, whatever was lost, refused or taken over.
OneRunPerSession == \A a, b \in Attempt : Serving(a) /\ Serving(b) => a = b

\* webhook.go:655 "The margin covers finalize's GitHub calls": the lease does
\* not run out, and the claim is nobody else's, while its attempt is served.
LeaseOutlivesRun ==
    \A a \in Attempt : Serving(a) => inflight # None /\ inflight.tok.by = a /\ ~ Claimable

\* webhook.go:777 "Stored BEFORE Dispatch": whenever the host may call RunEnded for a
\* run, the chat's pendingRun is the one of that very run.
OutcomeHasOwner == \A a \in Attempt : pc[a] \in OnHost \cup {"ended"} => pending = a

NoneNudged == \A a \in Attempt : ~ nudge[a]

\* extension.go:271 "A run resumed at boot still holds its session: without its
\* claim a new trigger dispatches a duplicate".  Once Start is through, a run
\* that was not nudged is alone, however often the process stopped under it.
ResumedRunIsAlone ==
    NoneNudged => \A a, b \in Attempt : pc[a] \in OnHost /\ pc[b] \in OnHost => a = b

\* run.go:106, store.go:307 "so RunEnded can rebuild them if this process
\* restarts before it fires": while a run that was not nudged is with the host,
\* either the process that dispatched it remembers it or its row is there.
OutcomeSurvivesRestart ==
    NoneNudged => \A a \in Attempt : pc[a] \in OnHost => row # None /\ row.by = a

\* webhook.go:670, 684 "a late run can't free a claim a takeover re-took": a
\* dispatch that gives up, and the finalize of a run that found its own pendingRun,
\* leave the claim of every other dispatch as it is, however long they waited in
\* the queue.  (A late run that finds a newer run's pendingRun, or rebuilds its own
\* from the row, releases by that run's token: see FreedOnlyByItsRun.)
LateReleaseSparesTakeover ==
    [][\A a, b \in Attempt :
          /\ a # b
          /\ inflight # None /\ inflight.tok = Token(b, "claim")
          /\ Abort(a) \/ UndoClaim(a) \/ (Release(a) /\ loaded[a] = a)
          => inflight' = inflight]_vars

\* What webhook.go:670 promises without that exception, of every late RunEnded:
\* the claim of a run the host still has is freed by nobody else.
FreedOnlyByItsRun ==
    [][\A b \in Attempt :
          /\ pc[b] \in OnHost
          /\ inflight # None /\ inflight.tok.by = b
          /\ inflight' = None
          => pc'[b] # pc[b]]_vars

\* run.go:78 "restart the lease so primary+nudge can't outlive it and get taken
\* over mid-flight".
NudgeKeepsItsClaim ==
    boot = "up" => \A a \in Attempt : pc[a] \in OnHost /\ nudge[a] => ~ Claimable

\* webhook.go:799 "Keep the in-memory and durable records in lockstep": a run the
\* host has accepted has both.
RecordsInLockstep == \A a \in Attempt : pc[a] \in OnHost /\ pending = a => row # None

\* tools.go:23 "records each run's last Deliver outcome": a run's end consumes
\* its own outcome, never one that another run left behind.
SettlesOwnDelivery ==
    [][\A a \in Attempt : Settle(a) /\ detail # None => detail = a]_vars

\* webhook.go:654 "a bare flag would wedge the session": a claim, even of a run
\* that is lost, stands in the way of new triggers only for so long.
SessionNeverWedges == inflight # None ~> Claimable

\* Every accepted run is over in the end: nudged once at most (run.go:76), then
\* settled, lost by the host, or dropped before it was one. What a re-review
\* finds when it asks for its own session again is not part of it.
EveryRunIsSettled == \A a \in Attempt : pc[a] = "queued" ~> pc[a] \in Over

=============================================================================
