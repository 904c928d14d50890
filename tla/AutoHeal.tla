------------------------------- MODULE AutoHeal -------------------------------
(***************************************************************************)
(* github/cifix.go: the CI self-heal loop of ONE pull request.  A failing  *)
(* workflow of a pull request that carries the fix label, or that quack    *)
(* opened, dispatches one fix run; a failure on quack's own fix commit     *)
(* stops the loop.  The loop's bound is a row of github_fix_state.         *)
(*                                                                         *)
(* GitHub, the runs and their pushes are the environment.  A webhook is a  *)
(* task in todo until a goroutine takes it up, in no order.  mergeMu is    *)
(* the lock KeyedMutex specifies; the session's claim is RunLifecycle's    *)
(* inflight, here only whether a run holds it.                             *)
(***************************************************************************)
EXTENDS Naturals, Sequences

CONSTANTS
    Commit,     \* commits the branch may get
    Workflow,   \* CI workflows of the repository
    Worker,     \* goroutines that can be at work at a time
    None,       \* no row, no run, no lock holder
    MaxMoves,   \* how many things GitHub and its users do in a behaviour
    Faults      \* which of FaultKinds may happen

\* crash: the process stops and starts anew; store: a database write fails;
\* api: a GitHub lookup fails.
FaultKinds == {"crash", "store", "api"}

ASSUME FaultsAssumption == Faults \subseteq FaultKinds /\ MaxMoves \in Nat

Row == [sha : Commit, stopped : BOOLEAN]    \* of github_fix_state
ASSUME NoneAssumption == None \notin Commit \cup Worker \cup Row

VARIABLES
    \* GitHub
    head,       \* the pull request's head commit
    author,     \* who made each commit, "none" while it does not exist
    own,        \* quack opened the pull request
    flag,       \* it carries the fix label
    failing,    \* per commit, the workflows that have failed on it
    moves,      \* how much the environment has done
    \* the extension
    state,      \* the github_fix_state row
    mu,         \* who holds mergeMu
    run,        \* the commit the session's fix run was dispatched for
    todo,       \* tasks not begun yet
    pc,         \* where each goroutine is
    task,       \* what it works on
    \* history
    fixes       \* what was recorded since the label last re-armed the loop

github == <<head, author, own, flag, failing, moves>>
vars == <<github, state, mu, run, todo, pc, task, fixes>>

Tasks == [job : {"heal", "label"}, at : Commit, by : Workflow \cup {None}]
Fixes == [job : {"heal", "label", "stop"}, at : Commit]

TypeOK ==
    /\ head \in Commit
    /\ author \in [Commit -> {"human", "quack", "none"}]
    /\ own \in BOOLEAN /\ flag \in BOOLEAN
    /\ failing \in [Commit -> SUBSET Workflow]
    /\ moves \in 0..MaxMoves
    /\ state \in Row \cup {None}
    /\ mu \in Worker \cup {None}
    /\ run \in Commit \cup {None}
    /\ todo \subseteq Tasks
    /\ pc \in [Worker -> {"idle", "eligible", "lock", "getState", "author", "stop",
                          "delete", "checks", "persist", "dispatch"}]
    /\ task \in [Worker -> Tasks \cup {None}]
    /\ fixes \in Seq(Fixes)

\* A new pull request of one commit: quack's own, or a human's.
Init ==
    /\ head \in Commit
    /\ own \in BOOLEAN
    /\ author = [c \in Commit |-> IF c # head THEN "none"
                                  ELSE IF own THEN "quack" ELSE "human"]
    /\ flag = FALSE
    /\ failing = [c \in Commit |-> {}]
    /\ moves = 0
    /\ state = None
    /\ mu = None
    /\ run = None
    /\ todo = {}
    /\ pc = [w \in Worker |-> "idle"]
    /\ task = [w \in Worker |-> None]
    /\ fixes = <<>>

-----------------------------------------------------------------------------
(* GitHub, its users and the fix runs *)

Move == moves < MaxMoves /\ moves' = moves + 1

\* extension state, for the steps the environment takes
ext == <<state, mu, pc, task, fixes>>

NewHead(c, who) ==
    /\ author[c] = "none"
    /\ head' = c
    /\ author' = [author EXCEPT ![c] = who]

HumanPush(c) ==
    /\ Move
    /\ NewHead(c, "human")
    /\ UNCHANGED <<own, flag, failing, run, todo, ext>>

\* A workflow fails, of the head or of an older commit whose CI was slower; it
\* may be run again and fail again.
Fail(c, f) ==
    /\ author[c] # "none" /\ Move
    /\ failing' = [failing EXCEPT ![c] = @ \cup {f}]
    /\ todo' = todo \cup {[job |-> "heal", at |-> c, by |-> f]}
    /\ UNCHANGED <<head, author, own, flag, run, ext>>

\* An allowed human puts the fix label on, or back on.
Label ==
    /\ Move
    /\ flag' = TRUE
    /\ todo' = todo \cup {[job |-> "label", at |-> head, by |-> None]}
    /\ UNCHANGED <<head, author, own, failing, run, ext>>

\* The run ends with a push of its fix, or without one.
RunPushes(c) ==
    /\ run # None
    /\ NewHead(c, "quack")
    /\ run' = None
    /\ UNCHANGED <<own, flag, failing, moves, todo, ext>>

RunEnds ==
    /\ run # None
    /\ run' = None
    /\ UNCHANGED <<github, todo, ext>>

-----------------------------------------------------------------------------
(* The goroutines *)

Goto(w, phase) == pc' = [pc EXCEPT ![w] = phase]
Return(w) ==
    /\ Goto(w, "idle")
    /\ task' = [task EXCEPT ![w] = None]
    /\ mu' = IF mu = w THEN None ELSE mu
GoOn(w, phase) == Goto(w, phase) /\ UNCHANGED <<mu, task>>

Reads == UNCHANGED <<github, state, run, todo, fixes>>

\* The row is written: an attempt, or the stop.  The loop remembers this one only.
Record(w, as) ==
    /\ state' = [sha |-> task[w].at, stopped |-> as = "stop"]
    /\ fixes' = Append(fixes, [job |-> as, at |-> task[w].at])

\* A database write fails, or its context has expired.
StoreFails == "store" \in Faults /\ UNCHANGED <<state, fixes>>

Begin(w) ==
    /\ pc[w] = "idle"
    /\ \E t \in todo :
          /\ todo' = todo \ {t}
          /\ task' = [task EXCEPT ![w] = t]
          /\ Goto(w, IF t.job = "heal" THEN "eligible" ELSE "delete")
    /\ UNCHANGED <<github, state, mu, run, fixes>>

\* The label, or quack's authorship of the pull request.
Eligible(w) ==
    /\ pc[w] = "eligible"
    /\ (flag \/ own)
    /\ GoOn(w, "lock")
    /\ Reads

NotEligible(w) ==
    /\ pc[w] = "eligible"
    /\ ~ flag /\ ~ own
    /\ Return(w)
    /\ Reads

\* A lookup or a read of the row fails: autoHeal and fixLabelApplied give up.
LookupFails(w) ==
    /\ "api" \in Faults
    /\ pc[w] \in {"eligible", "getState", "author", "checks"}
    /\ Return(w)
    /\ Reads

\* mutant of Lock: the read of the row and its write are not one critical section
Lock_Not(w) ==
    /\ pc[w] = "lock"
    /\ GoOn(w, "getState")
    /\ Reads

Lock(w) ==
    /\ pc[w] = "lock"
    /\ mu = None
    /\ mu' = w
    /\ Goto(w, "getState")
    /\ UNCHANGED task
    /\ Reads

\* A commit already recorded is handled; the first fix needs no look at its author.
GetState(w) ==
    /\ pc[w] = "getState"
    /\ \/ state = None /\ GoOn(w, "persist")
       \/ state # None /\ state.sha = task[w].at /\ Return(w)
       \/ state # None /\ state.sha # task[w].at /\ GoOn(w, "author")
    /\ Reads

\* mutant of Author: the guard trusts the row alone
Author_Unchecked(w) ==
    /\ pc[w] = "author"
    /\ GoOn(w, "persist")
    /\ Reads

\* commitAuthoredByQuack: was it the failing commit's author?
Author(w) ==
    /\ pc[w] = "author"
    /\ GoOn(w, IF author[task[w].at] = "quack" THEN "stop" ELSE "persist")
    /\ Reads

\* The loop stops, whether or not that can be recorded.
Stop(w) ==
    /\ pc[w] = "stop"
    /\ Record(w, "stop") \/ StoreFails
    /\ Return(w)
    /\ UNCHANGED <<github, run, todo>>

\* fixLabelApplied: forget the row, outside mergeMu, and go on even if that fails.
Delete(w) ==
    /\ pc[w] = "delete"
    /\ (state' = None /\ fixes' = <<>>) \/ StoreFails
    /\ GoOn(w, "checks")
    /\ UNCHANGED <<github, run, todo>>

\* Fix now only what fails now; else the flag stays armed.
Checks(w) ==
    /\ pc[w] = "checks"
    /\ \/ failing[task[w].at] = {} /\ Return(w)
       \/ failing[task[w].at] # {} /\ GoOn(w, "persist")
    /\ Reads

\* beginFix: no run without a durable bound.
Persist(w) ==
    /\ pc[w] = "persist"
    /\ \/ Record(w, task[w].job) /\ GoOn(w, "dispatch")
       \/ StoreFails /\ Return(w)
    /\ UNCHANGED <<github, run, todo>>

\* The dispatch is dropped when a run holds the session.  autoHeal unlocks after.
Dispatch(w) ==
    /\ pc[w] = "dispatch"
    /\ run' = IF run = None THEN task[w].at ELSE run
    /\ Return(w)
    /\ UNCHANGED <<github, state, todo, fixes>>

\* The process stops.  Webhooks not acted on are gone or still on their way; the
\* run is resumed or lost.
Crash ==
    /\ "crash" \in Faults /\ Move
    /\ mu' = None
    /\ pc' = [w \in Worker |-> "idle"]
    /\ task' = [w \in Worker |-> None]
    /\ run' \in {run, None}
    /\ UNCHANGED <<head, author, own, flag, failing, state, todo, fixes>>

-----------------------------------------------------------------------------

Environment ==
    \/ \E c \in Commit : HumanPush(c) \/ RunPushes(c) \/ \E f \in Workflow : Fail(c, f)
    \/ Label \/ RunEnds

Goroutine(w) ==
    \/ Begin(w) \/ Eligible(w) \/ NotEligible(w) \/ LookupFails(w) \/ Lock(w)
    \/ GetState(w) \/ Author(w) \/ Stop(w) \/ Delete(w) \/ Checks(w) \/ Persist(w)
    \/ Dispatch(w)

Next == Environment \/ Crash \/ \E w \in Worker : Goroutine(w)

Spec == Init /\ [][Next]_vars

-----------------------------------------------------------------------------

\* The attempts a failing workflow started, since the loop was last re-armed.
Heals == {i \in DOMAIN fixes : fixes[i].job = "heal"}
SameCommit(i, j) == fixes[i].at = fixes[j].at

\* cifix.go:2 "A failure on quack's own fix commit stops the loop": since the loop
\* was armed, only its first heal may be of a commit of quack's (the first of its
\* own pull request); every later one is of a commit a human made.
OwnFixStops == \A i, j \in Heals : i < j => author[fixes[j].at] = "human"

\* cifix.go:132 "one atomic claim, or two workflow_run deliveries for the same head
\* both pass the read and both dispatch": two heals in a row are never of the same
\* commit, whatever deliveries, goroutines, failures and restarts come between.
NoHealTwiceInARow == \A i, j \in Heals : j = i + 1 => ~ SameCommit(i, j)

\* cifix.go:132 "GetFixState through every SetFixState (here and in beginFix) is one
\* atomic claim": nor is a heal in a row with the label's fix of the same commit.
ClaimIsAtomic ==
    \A i, j \in DOMAIN fixes :
        j = i + 1 /\ SameCommit(i, j) => i \notin Heals /\ j \notin Heals

\* cifix.go:144 "one heal per head commit".
OneHealPerCommit == \A i, j \in Heals : SameCommit(i, j) => i = j

=============================================================================
