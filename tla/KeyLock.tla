------------------------------ MODULE KeyLock ------------------------------
(***************************************************************************)
(* What github/lock.go promises its callers: a mutual-exclusion lock per   *)
(* key, with no object, reference count or map in sight.  A caller asks    *)
(* for a key, is granted it once nobody holds it, and gives it back.       *)
(* KeyedMutex implements this specification.                               *)
(***************************************************************************)
CONSTANTS Proc,     \* the goroutines that take locks
          Key       \* the keys: global chat ids in the extension

VARIABLES phase,    \* phase[p]: what p is doing with the lock
          wants     \* wants[p]: the key p last asked for

vars == <<phase, wants>>

\* p is granted its key only while no other goroutine holds that key.
Holds(p, k) == phase[p] = "holding" /\ wants[p] = k

Init == /\ phase = [p \in Proc |-> "idle"]
        /\ wants \in [Proc -> Key]

Ask(p, k) == /\ phase[p] = "idle"
             /\ phase' = [phase EXCEPT ![p] = "waiting"]
             /\ wants' = [wants EXCEPT ![p] = k]

Grant(p) == /\ phase[p] = "waiting"
            /\ \A q \in Proc : ~ Holds(q, wants[p])
            /\ phase' = [phase EXCEPT ![p] = "holding"]
            /\ UNCHANGED wants

GiveBack(p) == /\ phase[p] = "holding"
               /\ phase' = [phase EXCEPT ![p] = "idle"]
               /\ UNCHANGED wants

Next == \E p \in Proc : \/ \E k \in Key : Ask(p, k)
                        \/ Grant(p)
                        \/ GiveBack(p)

Spec == Init /\ [][Next]_vars
=============================================================================
