----------------------------- MODULE KeyedMutex -----------------------------
(***************************************************************************)
(* github/lock.go: one sync.Mutex per key, created on first use and        *)
(* dropped from the map when its reference count returns to zero.          *)
(*                                                                         *)
(* The code guards the map and every count with k.mu and does nothing else *)
(* under it, so each k.mu section is one action here.  The per-key mutex   *)
(* l is taken and released outside k.mu: those are actions of their own,   *)
(* and every interleaving between the two levels is explored.  A refMutex  *)
(* is an object with an identity (a member of Obj): after its entry is     *)
(* deleted, the next Lock of the key makes another object.  That two       *)
(* goroutines never lock two objects for one key is what the count is for. *)
(***************************************************************************)
EXTENDS Naturals, FiniteSets

CONSTANTS Proc,     \* the goroutines that call Lock
          Key,      \* the keys (global chat ids)
          Obj,      \* the refMutex objects the allocator can hand out
          NoObj     \* "no entry" in the map, "no object" in a goroutine

ASSUME ProcFinite == IsFiniteSet(Proc)
ASSUME NoObjIsNot == NoObj \notin Obj

VARIABLES locks,    \* keyedMutex.locks: key -> refMutex
          n,        \* refMutex.n: holders plus waiters
          locked,   \* the embedded sync.Mutex
          pc,       \* where each goroutine is in Lock / unlock
          key,      \* the argument of its last Lock call
          l         \* its local variable l

vars == <<locks, n, locked, pc, key, l>>

Phases == {"idle", "calling", "waiting", "holding", "leaving"}

TypeOK == /\ locks \in [Key -> Obj \cup {NoObj}]
          /\ n \in [Obj -> Nat]
          /\ locked \in [Obj -> BOOLEAN]
          /\ pc \in [Proc -> Phases]
          /\ key \in [Proc -> Key]
          /\ l \in [Proc -> Obj \cup {NoObj}]

Init == /\ locks = [k \in Key |-> NoObj]
        /\ n = [o \in Obj |-> 0]
        /\ locked = [o \in Obj |-> FALSE]
        /\ pc = [p \in Proc |-> "idle"]
        /\ key \in [Proc -> Key]
        /\ l = [p \in Proc |-> NoObj]

\* &refMutex{} is an object nobody else refers to: neither the map nor a goroutine.
Unreferenced(o) == /\ \A k \in Key : locks[k] # o
                   /\ \A p \in Proc : l[p] # o

-----------------------------------------------------------------------------
(* Faulty variants of the actions below, each a slip that would compile.  The *)
(* mutants of PROJECT.json swap them in to see the properties fail.           *)

\* n++ only for the goroutine that creates the entry: waiters go uncounted.
RegisterExisting_Uncounted(p) ==
    /\ pc[p] = "calling"
    /\ locks[key[p]] # NoObj
    /\ l' = [l EXCEPT ![p] = locks[key[p]]]
    /\ pc' = [pc EXCEPT ![p] = "waiting"]
    /\ UNCHANGED <<locks, n, locked, key>>

\* The returned func forgets l.Unlock().
Unlock_Forgotten(p) == /\ pc[p] = "holding"
                       /\ pc' = [pc EXCEPT ![p] = "leaving"]
                       /\ UNCHANGED <<locks, n, locked, key, l>>

\* The entry is deleted one reference too early, under a goroutine that still counts.
Deregister_Early(p) ==
    /\ pc[p] = "leaving"
    /\ n' = [n EXCEPT ![l[p]] = @ - 1]
    /\ locks' = IF n[l[p]] <= 2 THEN [locks EXCEPT ![key[p]] = NoObj] ELSE locks
    /\ l' = [l EXCEPT ![p] = NoObj]
    /\ pc' = [pc EXCEPT ![p] = "idle"]
    /\ UNCHANGED <<locked, key>>

\* The entry is never deleted.
Deregister_Leak(p) ==
    /\ pc[p] = "leaving"
    /\ n' = [n EXCEPT ![l[p]] = @ - 1]
    /\ l' = [l EXCEPT ![p] = NoObj]
    /\ pc' = [pc EXCEPT ![p] = "idle"]
    /\ UNCHANGED <<locks, locked, key>>

-----------------------------------------------------------------------------
\* Lock(key) is called; the goroutine is about to take k.mu.
Call(p, k) == /\ pc[p] = "idle"
              /\ pc' = [pc EXCEPT ![p] = "calling"]
              /\ key' = [key EXCEPT ![p] = k]
              /\ UNCHANGED <<locks, n, locked, l>>

\* The k.mu section of Lock when the key has no entry: make one, count ourselves.
RegisterNew(p) ==
    /\ pc[p] = "calling"
    /\ locks[key[p]] = NoObj
    /\ \E o \in Obj :
          /\ Unreferenced(o)
          /\ locks' = [locks EXCEPT ![key[p]] = o]
          /\ n' = [n EXCEPT ![o] = 1]
          /\ locked' = [locked EXCEPT ![o] = FALSE]
          /\ l' = [l EXCEPT ![p] = o]
    /\ pc' = [pc EXCEPT ![p] = "waiting"]
    /\ UNCHANGED key

\* The k.mu section of Lock when the key has an entry: join its count.
RegisterExisting(p) ==
    /\ pc[p] = "calling"
    /\ locks[key[p]] # NoObj
    /\ n' = [n EXCEPT ![locks[key[p]]] = @ + 1]
    /\ l' = [l EXCEPT ![p] = locks[key[p]]]
    /\ pc' = [pc EXCEPT ![p] = "waiting"]
    /\ UNCHANGED <<locks, locked, key>>

\* l.Lock() returns.
Acquire(p) == /\ pc[p] = "waiting"
              /\ ~ locked[l[p]]
              /\ locked' = [locked EXCEPT ![l[p]] = TRUE]
              /\ pc' = [pc EXCEPT ![p] = "holding"]
              /\ UNCHANGED <<locks, n, key, l>>

\* The returned func runs l.Unlock().
Unlock(p) == /\ pc[p] = "holding"
             /\ locked' = [locked EXCEPT ![l[p]] = FALSE]
             /\ pc' = [pc EXCEPT ![p] = "leaving"]
             /\ UNCHANGED <<locks, n, key, l>>

\* Its k.mu section: leave the count, and delete the key's entry at zero.
Deregister(p) ==
    /\ pc[p] = "leaving"
    /\ n' = [n EXCEPT ![l[p]] = @ - 1]
    /\ locks' = IF n[l[p]] = 1 THEN [locks EXCEPT ![key[p]] = NoObj] ELSE locks
    /\ l' = [l EXCEPT ![p] = NoObj]
    /\ pc' = [pc EXCEPT ![p] = "idle"]
    /\ UNCHANGED <<locked, key>>

Step(p) == \/ RegisterNew(p) \/ RegisterExisting(p)
           \/ Acquire(p) \/ Unlock(p) \/ Deregister(p)

Next == \E p \in Proc : Step(p) \/ \E k \in Key : Call(p, k)

Spec == Init /\ [][Next]_vars

(***************************************************************************)
(* Fairness.  A goroutine that can run does (weak fairness); a waiter on a *)
(* sync.Mutex that is released again and again is not starved (strong      *)
(* fairness on Acquire): Go's mutex hands the lock to the first waiter     *)
(* once it has waited a millisecond.  Callers always run the func they are *)
(* given: every call site in the extension defers it.                      *)
(***************************************************************************)
FairSpec == /\ Spec
            /\ \A p \in Proc : WF_vars(Step(p)) /\ SF_vars(Acquire(p))

-----------------------------------------------------------------------------

\* lock.go:5 - "one chat's read-verdict-act never races itself": two goroutines
\* never hold the same key, whatever objects come and go under it.
MutualExclusion ==
    \A p, q \in Proc : pc[p] = "holding" /\ pc[q] = "holding" /\ key[p] = key[q] => p = q

\* lock.go:6 - "while unrelated chats never wait": a waiter's mutex is free
\* unless someone is holding the waiter's own key.
OnlyOwnKeyBlocks ==
    \A p \in Proc :
        pc[p] = "waiting" /\ locked[l[p]]
            => \E q \in Proc : pc[q] = "holding" /\ key[q] = key[p]

\* lock.go:12 - "the map entry is dropped once nobody needs it": a key has an
\* entry exactly while some goroutine holds it, waits for it or is leaving it.
NoLeakedEntry ==
    \A k \in Key :
        locks[k] # NoObj <=>
            \E p \in Proc : key[p] = k /\ pc[p] \in {"waiting", "holding", "leaving"}

\* Every Lock call eventually returns (no lost wake-up, no entry nobody unlocks).
EveryLockReturns == \A p \in Proc : pc[p] = "calling" ~> pc[p] = "holding"

\* The map of counted objects behaves as one plain lock per key (KeyLock).
KL == INSTANCE KeyLock
        WITH phase <- [p \in Proc |-> CASE pc[p] \in {"calling", "waiting"} -> "waiting"
                                        [] pc[p] = "holding" -> "holding"
                                        [] OTHER -> "idle"],
             wants <- key

ImplementsKeyLock == KL!Spec

=============================================================================
