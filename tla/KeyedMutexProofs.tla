-------------------------- MODULE KeyedMutexProofs --------------------------
(***************************************************************************)
(* Proofs about KeyedMutex for any number of goroutines and keys: the type *)
(* invariant, mutual exclusion, and that the counted map of mutexes        *)
(* implements one plain lock per key.                                      *)
(***************************************************************************)
EXTENDS KeyedMutex, FiniteSetTheorems, TLAPS

\* The goroutines that a refMutex must count.
Users(o) == {p \in Proc : l[p] = o}

\* A goroutine between the two k.mu sections refers to the object its key is mapped to.
RefersToEntry ==
    \A p \in Proc :
        IF pc[p] \in {"waiting", "holding", "leaving"}
        THEN l[p] \in Obj /\ locks[key[p]] = l[p]
        ELSE l[p] = NoObj

\* No object serves two keys.
OneKeyPerObject ==
    \A j, k \in Key : locks[j] = locks[k] /\ locks[j] # NoObj => j = k

\* n is exactly the number of goroutines that refer to the object.
CountExact ==
    \A k \in Key : locks[k] # NoObj => n[locks[k]] = Cardinality(Users(locks[k]))

\* The embedded mutex is locked by the goroutine that holds it.
HolderLocked ==
    /\ \A p \in Proc : pc[p] = "holding" => locked[l[p]]
    /\ \A p, q \in Proc : pc[p] = "holding" /\ pc[q] = "holding" /\ l[p] = l[q] => p = q

IInv == /\ TypeOK
        /\ RefersToEntry
        /\ OneKeyPerObject
        /\ CountExact
        /\ HolderLocked

-----------------------------------------------------------------------------

(* The variables keep their types: in particular n never goes below zero,   *)
(* which holds only because a goroutine that leaves is one that was counted. *)
LEMMA UsersFinite ==
    ASSUME NEW o
    PROVE  IsFiniteSet(Users(o)) /\ Cardinality(Users(o)) \in Nat
<1>1. IsFiniteSet(Users(o))
  BY ProcFinite, FS_Subset, Users(o) \subseteq Proc DEF Users
<1>2. QED
  BY <1>1, FS_CardinalityType

(* A goroutine that refers to o is one of the goroutines o counts; when the  *)
(* count is one, it is the only one.                                          *)
LEMMA LastUser ==
    ASSUME NEW o, NEW p \in Proc, l[p] = o
    PROVE  /\ Cardinality(Users(o)) \in Nat \ {0}
           /\ Cardinality(Users(o) \ {p}) = Cardinality(Users(o)) - 1
           /\ Cardinality(Users(o)) = 1 => Users(o) = {p}
<1>1. p \in Users(o)
  BY DEF Users
<1>2. /\ IsFiniteSet(Users(o)) /\ Cardinality(Users(o)) \in Nat
  BY UsersFinite
<1>3. Cardinality(Users(o) \ {p}) = Cardinality(Users(o)) - 1
  BY <1>1, <1>2, FS_RemoveElement
<1>4. IsFiniteSet(Users(o) \ {p}) /\ Cardinality(Users(o) \ {p}) \in Nat
  BY <1>2, FS_RemoveElement, FS_CardinalityType
<1>5. Cardinality(Users(o)) # 0
  BY <1>1, <1>2, FS_EmptySet
<1>6. Cardinality(Users(o)) = 1 => Users(o) \ {p} = {}
  BY <1>3, <1>4, FS_EmptySet
<1>7. QED
  BY <1>1, <1>2, <1>3, <1>5, <1>6

LEMMA InitInv == Init => IInv
<1> SUFFICES ASSUME Init PROVE IInv
  OBVIOUS
<1>1. TypeOK
  BY DEF Init, TypeOK, Phases
<1>2. RefersToEntry
  BY DEF Init, RefersToEntry
<1>3. OneKeyPerObject /\ CountExact
  BY DEF Init, OneKeyPerObject, CountExact
<1>4. HolderLocked
  BY DEF Init, HolderLocked
<1>5. QED
  BY <1>1, <1>2, <1>3, <1>4 DEF IInv

LEMMA NextInv == IInv /\ [Next]_vars => IInv'
<1> SUFFICES ASSUME IInv, [Next]_vars PROVE IInv'
  OBVIOUS
<1> USE DEF IInv
<1>1. ASSUME NEW p \in Proc, NEW k \in Key, Call(p, k)
      PROVE  IInv'
  <2>1. TypeOK'
    BY <1>1 DEF Call, TypeOK, Phases
  <2>2. RefersToEntry'
    BY <1>1 DEF Call, TypeOK, RefersToEntry
  <2>3. OneKeyPerObject' /\ CountExact'
    BY <1>1 DEF Call, OneKeyPerObject, CountExact, Users
  <2>4. HolderLocked'
    BY <1>1 DEF Call, TypeOK, HolderLocked
  <2>5. QED
    BY <2>1, <2>2, <2>3, <2>4
<1>2. ASSUME NEW p \in Proc, RegisterNew(p)
      PROVE  IInv'
  <2>1. PICK o \in Obj :
              /\ Unreferenced(o)
              /\ locks' = [locks EXCEPT ![key[p]] = o]
              /\ n' = [n EXCEPT ![o] = 1]
              /\ locked' = [locked EXCEPT ![o] = FALSE]
              /\ l' = [l EXCEPT ![p] = o]
    BY <1>2 DEF RegisterNew
  <2>2. /\ pc[p] = "calling" /\ pc' = [pc EXCEPT ![p] = "waiting"]
        /\ key' = key /\ locks[key[p]] = NoObj
    BY <1>2 DEF RegisterNew
  <2>3. TypeOK'
    BY <2>1, <2>2 DEF TypeOK, Phases
  <2>4. RefersToEntry'
    BY <2>1, <2>2, NoObjIsNot DEF TypeOK, RefersToEntry, Unreferenced
  <2>5. OneKeyPerObject'
    BY <2>1, <2>2 DEF TypeOK, OneKeyPerObject, Unreferenced
  <2>6. CountExact'
    <3>1. Users(o)' = {p}
      BY <2>1, <2>2 DEF TypeOK, Users, Unreferenced
    <3>2. Cardinality(Users(o)') = 1
      BY <3>1, FS_Singleton
    <3>3. ASSUME NEW k \in Key, locks[k]' # NoObj
          PROVE  n[locks[k]]' = Cardinality(Users(locks[k]))'
      <4>1. CASE k = key[p]
        BY <4>1, <3>2, <2>1, <2>2 DEF TypeOK
      <4>2. CASE k # key[p]
        <5>1. locks[k]' = locks[k] /\ locks[k] # o /\ locks[k] \in Obj
          BY <4>2, <3>3, <2>1, <2>2 DEF TypeOK, Unreferenced
        <5>2. \A q \in Proc : l'[q] = locks'[k] <=> l[q] = locks[k]
          BY <5>1, <2>1, <2>2, NoObjIsNot DEF TypeOK, RefersToEntry
        <5>3. Users(locks[k])' = Users(locks[k])
          BY <5>2 DEF Users
        <5>4. n'[locks'[k]] = n[locks[k]]
          BY <5>1, <2>1 DEF TypeOK
        <5>5. n[locks[k]] = Cardinality(Users(locks[k]))
          BY <5>1, NoObjIsNot DEF CountExact
        <5>6. QED
          BY <5>3, <5>4, <5>5
      <4>3. QED
        BY <4>1, <4>2
    <3>4. QED
      BY <3>3 DEF CountExact
  <2>7. HolderLocked'
    BY <2>1, <2>2 DEF TypeOK, HolderLocked, Unreferenced
  <2>8. QED
    BY <2>3, <2>4, <2>5, <2>6, <2>7
<1>3. ASSUME NEW p \in Proc, RegisterExisting(p)
      PROVE  IInv'
  <2>0. PICK o \in Obj : o = locks[key[p]]
    BY <1>3 DEF RegisterExisting, TypeOK
  <2>1. /\ pc[p] = "calling" /\ l[p] = NoObj
        /\ n' = [n EXCEPT ![o] = @ + 1]
        /\ l' = [l EXCEPT ![p] = o]
        /\ pc' = [pc EXCEPT ![p] = "waiting"]
        /\ locks' = locks /\ locked' = locked /\ key' = key
    BY <1>3, <2>0 DEF RegisterExisting, TypeOK, RefersToEntry
  <2>2. TypeOK'
    BY <2>1 DEF TypeOK, Phases
  <2>3. RefersToEntry'
    BY <2>0, <2>1 DEF TypeOK, RefersToEntry
  <2>4. OneKeyPerObject'
    BY <2>1 DEF OneKeyPerObject
  <2>5. CountExact'
    <3>1. Users(o)' = Users(o) \cup {p} /\ p \notin Users(o)
      BY <2>1, NoObjIsNot DEF TypeOK, Users
    <3>2. Cardinality(Users(o)') = Cardinality(Users(o)) + 1
      BY <3>1, UsersFinite, FS_AddElement
    <3>3. ASSUME NEW k \in Key, locks[k]' # NoObj
          PROVE  n[locks[k]]' = Cardinality(Users(locks[k]))'
      <4>1. CASE locks[k] = o
        <5>1. locks[k]' = o /\ n[locks[k]]' = n[o] + 1
          BY <4>1, <2>1 DEF TypeOK
        <5>2. n[o] = Cardinality(Users(o))
          BY <2>0, NoObjIsNot DEF TypeOK, CountExact
        <5>3. QED
          BY <5>1, <5>2, <3>2
      <4>2. CASE locks[k] # o
        <5>1. \A q \in Proc : l'[q] = locks'[k] <=> l[q] = locks[k]
          BY <4>2, <2>1, <3>3, NoObjIsNot DEF TypeOK
        <5>2. Users(locks[k])' = Users(locks[k])
          BY <5>1 DEF Users
        <5>3. n'[locks'[k]] = n[locks[k]] /\ locks[k] # NoObj
          BY <4>2, <3>3, <2>1 DEF TypeOK
        <5>4. QED
          BY <5>2, <5>3 DEF CountExact
      <4>3. QED
        BY <4>1, <4>2
    <3>4. QED
      BY <3>3 DEF CountExact
  <2>6. HolderLocked'
    BY <2>1 DEF TypeOK, HolderLocked
  <2>7. QED
    BY <2>2, <2>3, <2>4, <2>5, <2>6
<1>4. ASSUME NEW p \in Proc, Acquire(p)
      PROVE  IInv'
  <2>1. TypeOK'
    BY <1>4 DEF Acquire, TypeOK, Phases
  <2>2. RefersToEntry'
    BY <1>4 DEF Acquire, TypeOK, RefersToEntry
  <2>3. OneKeyPerObject' /\ CountExact'
    BY <1>4 DEF Acquire, OneKeyPerObject, CountExact, Users
  <2>4. HolderLocked'
    BY <1>4 DEF Acquire, TypeOK, HolderLocked, RefersToEntry
  <2>5. QED
    BY <2>1, <2>2, <2>3, <2>4
<1>5. ASSUME NEW p \in Proc, Unlock(p)
      PROVE  IInv'
  <2>1. TypeOK'
    BY <1>5 DEF Unlock, TypeOK, Phases
  <2>2. RefersToEntry'
    BY <1>5 DEF Unlock, TypeOK, RefersToEntry
  <2>3. OneKeyPerObject' /\ CountExact'
    BY <1>5 DEF Unlock, OneKeyPerObject, CountExact, Users
  <2>4. HolderLocked'
    BY <1>5 DEF Unlock, TypeOK, HolderLocked, RefersToEntry
  <2>5. QED
    BY <2>1, <2>2, <2>3, <2>4
<1>6. ASSUME NEW p \in Proc, Deregister(p)
      PROVE  IInv'
  <2>0. PICK o \in Obj : o = l[p]
    BY <1>6 DEF Deregister, RefersToEntry
  <2>1. /\ pc[p] = "leaving" /\ locks[key[p]] = o
        /\ n' = [n EXCEPT ![o] = @ - 1]
        /\ l' = [l EXCEPT ![p] = NoObj]
        /\ pc' = [pc EXCEPT ![p] = "idle"]
        /\ locked' = locked /\ key' = key
    BY <1>6, <2>0 DEF Deregister, TypeOK, RefersToEntry
  <2>2. n[o] = Cardinality(Users(o))
    BY <2>1, NoObjIsNot DEF TypeOK, CountExact
  <2>3. /\ n[o] \in Nat \ {0} /\ Cardinality(Users(o) \ {p}) = n[o] - 1
        /\ n[o] = 1 => Users(o) = {p}
    BY <2>0, <2>2, LastUser
  <2>4. Users(o)' = Users(o) \ {p}
    BY <2>0, <2>1, NoObjIsNot DEF TypeOK, Users
  <2>5. \/ n[o] = 1 /\ locks' = [locks EXCEPT ![key[p]] = NoObj]
        \/ n[o] # 1 /\ locks' = locks
    BY <1>6, <2>0 DEF Deregister
  <2>6. TypeOK'
    BY <2>1, <2>3, <2>5 DEF TypeOK, Phases
  <2>7. RefersToEntry'
    <3>1. ASSUME NEW q \in Proc, q # p, pc[q] \in {"waiting", "holding", "leaving"}
          PROVE  l[q]' \in Obj /\ locks[key[q]]' = l[q]'
      <4>1. l[q] \in Obj /\ locks[key[q]] = l[q] /\ l[q]' = l[q] /\ key[q]' = key[q]
        BY <3>1, <2>1 DEF TypeOK, RefersToEntry
      <4>2. n[o] = 1 => key[q] # key[p]
        BY <4>1, <3>1, <2>0, <2>1, <2>3 DEF Users
      <4>3. QED
        BY <4>1, <4>2, <2>1, <2>5 DEF TypeOK
    <3>2. QED
      BY <3>1, <2>1 DEF TypeOK, RefersToEntry
  <2>8. OneKeyPerObject'
    BY <2>1, <2>5 DEF TypeOK, OneKeyPerObject
  <2>9. CountExact'
    <3>1. ASSUME NEW k \in Key, locks[k]' # NoObj
          PROVE  n[locks[k]]' = Cardinality(Users(locks[k]))'
      <4>1. locks[k]' = locks[k] /\ locks[k] \in Obj
        BY <3>1, <2>1, <2>5 DEF TypeOK
      <4>2. CASE locks[k] = o
        <5>1. n[locks[k]]' = n[o] - 1
          BY <4>1, <4>2, <2>1 DEF TypeOK
        <5>2. Users(locks[k])' = Users(o) \ {p}
          BY <4>1, <4>2, <2>4
        <5>3. QED
          BY <5>1, <5>2, <2>3
      <4>3. CASE locks[k] # o
        <5>1. \A q \in Proc : l'[q] = locks'[k] <=> l[q] = locks[k]
          BY <4>1, <4>3, <2>0, <2>1, NoObjIsNot DEF TypeOK
        <5>2. Users(locks[k])' = Users(locks[k])
          BY <5>1 DEF Users
        <5>3. n'[locks'[k]] = n[locks[k]]
          BY <4>1, <4>3, <2>1 DEF TypeOK
        <5>4. QED
          BY <5>2, <5>3, <4>1, NoObjIsNot DEF CountExact
      <4>4. QED
        BY <4>2, <4>3
    <3>2. QED
      BY <3>1 DEF CountExact
  <2>10. HolderLocked'
    BY <2>1 DEF TypeOK, HolderLocked
  <2>11. QED
    BY <2>6, <2>7, <2>8, <2>9, <2>10
<1>7. CASE UNCHANGED vars
  BY <1>7 DEF vars, TypeOK, RefersToEntry, OneKeyPerObject, CountExact, HolderLocked, Users
<1>8. QED
  BY <1>1, <1>2, <1>3, <1>4, <1>5, <1>6, <1>7 DEF Next, Step

-----------------------------------------------------------------------------

(* Every variable keeps its type in every behaviour; the reference counts   *)
(* stay natural numbers.                                                     *)
THEOREM TypeCorrect == Spec => []TypeOK
<1>1. IInv => TypeOK
  BY DEF IInv
<1>2. QED
  BY <1>1, InitInv, NextInv, PTL DEF Spec

(* lock.go:5 - two goroutines never hold the same key, however many there    *)
(* are and however often the key's entry is deleted and made again.          *)
THEOREM Exclusion == Spec => []MutualExclusion
<1>1. IInv => MutualExclusion
  BY DEF IInv, MutualExclusion, RefersToEntry, HolderLocked
<1>2. QED
  BY <1>1, InitInv, NextInv, PTL DEF Spec

(* Every step of the counted map is a step of the plain per-key lock, or     *)
(* leaves it unchanged.                                                      *)
THEOREM Refinement == Spec => ImplementsKeyLock
<1>1. Init => KL!Init
  BY DEF Init, KL!Init
<1>2. IInv /\ IInv' /\ [Next]_vars => [KL!Next]_(KL!vars)
  <2> SUFFICES ASSUME IInv, IInv', [Next]_vars PROVE [KL!Next]_(KL!vars)
    OBVIOUS
  <2> USE DEF IInv, TypeOK
  <2>1. ASSUME NEW p \in Proc, NEW k \in Key, Call(p, k)
        PROVE  KL!Ask(p, k)
    BY <2>1 DEF Call, KL!Ask
  <2>2. ASSUME NEW p \in Proc, RegisterNew(p) \/ RegisterExisting(p) \/ Deregister(p)
        PROVE  UNCHANGED KL!vars
    BY <2>2 DEF RegisterNew, RegisterExisting, Deregister, KL!vars
  <2>3. ASSUME NEW p \in Proc, Acquire(p)
        PROVE  KL!Grant(p)
    <3>1. MutualExclusion'
      BY DEF MutualExclusion, RefersToEntry, HolderLocked
    <3>2. \A q \in Proc : ~ (pc[q] = "holding" /\ key[q] = key[p])
      BY <2>3, <3>1 DEF Acquire, MutualExclusion
    <3>3. QED
      BY <2>3, <3>2 DEF Acquire, KL!Grant, KL!Holds
  <2>4. ASSUME NEW p \in Proc, Unlock(p)
        PROVE  KL!GiveBack(p)
    BY <2>4 DEF Unlock, KL!GiveBack
  <2>5. CASE UNCHANGED vars
    BY <2>5 DEF vars, KL!vars
  <2>6. QED
    BY <2>1, <2>2, <2>3, <2>4, <2>5 DEF Next, Step, KL!Next
<1>3. QED
  BY <1>1, <1>2, InitInv, NextInv, PTL DEF Spec, ImplementsKeyLock, KL!Spec

-----------------------------------------------------------------------------
(* That no entry leaks, and that only the own key blocks, need the converse  *)
(* of the facts above: an entry and a locked mutex have somebody behind them. *)

Busy == {"waiting", "holding", "leaving"}

\* An entry is somebody's who waits, holds or is leaving.
EntryInUse ==
    \A k \in Key : locks[k] # NoObj => \E p \in Proc : pc[p] \in Busy /\ key[p] = k

\* A mutex that somebody refers to is locked by one of those who do.
LockedIsHeld ==
    \A p \in Proc : l[p] # NoObj /\ locked[l[p]] =>
        \E q \in Proc : pc[q] = "holding" /\ l[q] = l[p]

LEMMA UseStep ==
    ASSUME IInv, IInv', EntryInUse, [Next]_vars
    PROVE  EntryInUse'
<1> SUFFICES ASSUME NEW k \in Key, locks'[k] # NoObj
             PROVE  \E p \in Proc : pc'[p] \in Busy /\ key'[p] = k
  BY DEF EntryInUse
<1> USE DEF IInv, Busy
<1>1. ASSUME NEW p \in Proc, NEW j \in Key, Call(p, j)
      PROVE  \E q \in Proc : pc'[q] \in Busy /\ key'[q] = k
  <2>1. PICK q \in Proc : pc[q] \in Busy /\ key[q] = k
    BY <1>1 DEF Call, EntryInUse
  <2>2. QED
    BY <1>1, <2>1 DEF Call, TypeOK
<1>2. ASSUME NEW p \in Proc, RegisterNew(p)
      PROVE  \E q \in Proc : pc'[q] \in Busy /\ key'[q] = k
  <2>1. CASE k = key[p]
    BY <1>2, <2>1 DEF RegisterNew, TypeOK
  <2>2. CASE k # key[p]
    <3>1. locks[k] # NoObj
      BY <1>2, <2>2 DEF RegisterNew, TypeOK
    <3>2. PICK q \in Proc : pc[q] \in Busy /\ key[q] = k
      BY <3>1 DEF EntryInUse
    <3>3. QED
      BY <1>2, <3>2 DEF RegisterNew, TypeOK
  <2>3. QED
    BY <2>1, <2>2
<1>3. ASSUME NEW p \in Proc, RegisterExisting(p) \/ Acquire(p) \/ Unlock(p)
      PROVE  \E q \in Proc : pc'[q] \in Busy /\ key'[q] = k
  <2>1. PICK q \in Proc : pc[q] \in Busy /\ key[q] = k
    BY <1>3 DEF RegisterExisting, Acquire, Unlock, EntryInUse
  <2>2. QED
    BY <1>3, <2>1 DEF RegisterExisting, Acquire, Unlock, TypeOK
<1>4. ASSUME NEW p \in Proc, Deregister(p)
      PROVE  \E q \in Proc : pc'[q] \in Busy /\ key'[q] = k
  <2>1. pc[p] = "leaving" /\ l[p] \in Obj /\ locks[key[p]] = l[p]
    BY <1>4 DEF Deregister, RefersToEntry
  <2>2. CASE k # key[p]
    <3>1. locks[k] # NoObj
      BY <1>4, <2>2 DEF Deregister, TypeOK
    <3>2. PICK q \in Proc : pc[q] \in Busy /\ key[q] = k
      BY <3>1 DEF EntryInUse
    <3>3. QED
      BY <1>4, <2>2, <3>2 DEF Deregister, TypeOK
  <2>3. CASE k = key[p]
    <3>1. n[l[p]] # 1
      BY <1>4, <2>3 DEF Deregister, TypeOK
    <3>2. n[l[p]] = Cardinality(Users(l[p]))
      BY <2>1, NoObjIsNot DEF CountExact, TypeOK
    <3>3. Cardinality(Users(l[p]) \ {p}) # 0
      BY <3>1, <3>2, LastUser
    <3>4. PICK q \in Users(l[p]) \ {p} : TRUE
      BY <3>3, FS_EmptySet
    <3>5. q \in Proc /\ q # p /\ l[q] = l[p]
      BY <3>4 DEF Users
    <3>6. pc[q] \in Busy /\ locks[key[q]] = l[q]
      BY <2>1, <3>5, NoObjIsNot DEF RefersToEntry
    <3>7. key[q] = key[p]
      BY <2>1, <3>5, <3>6, NoObjIsNot DEF OneKeyPerObject, TypeOK
    <3>8. QED
      BY <1>4, <2>3, <3>5, <3>6, <3>7 DEF Deregister, TypeOK
  <2>4. QED
    BY <2>2, <2>3
<1>5. CASE UNCHANGED vars
  BY <1>5 DEF vars, EntryInUse
<1>6. QED
  BY <1>1, <1>2, <1>3, <1>4, <1>5 DEF Next, Step

LEMMA HeldStep ==
    ASSUME IInv, IInv', EntryInUse, LockedIsHeld, [Next]_vars
    PROVE  LockedIsHeld'
<1> SUFFICES ASSUME NEW q \in Proc, l'[q] # NoObj, locked'[l'[q]]
             PROVE  \E r \in Proc : pc'[r] = "holding" /\ l'[r] = l'[q]
  BY DEF LockedIsHeld
<1> USE DEF IInv
<1>1. ASSUME NEW p \in Proc, NEW j \in Key, Call(p, j)
      PROVE  \E r \in Proc : pc'[r] = "holding" /\ l'[r] = l'[q]
  <2>1. PICK r \in Proc : pc[r] = "holding" /\ l[r] = l[q]
    BY <1>1 DEF Call, LockedIsHeld
  <2>2. QED
    BY <1>1, <2>1 DEF Call, TypeOK
<1>2. ASSUME NEW p \in Proc, RegisterNew(p)
      PROVE  \E r \in Proc : pc'[r] = "holding" /\ l'[r] = l'[q]
  <2>1. PICK o \in Obj : /\ Unreferenced(o)
                         /\ locked' = [locked EXCEPT ![o] = FALSE]
                         /\ l' = [l EXCEPT ![p] = o]
    BY <1>2 DEF RegisterNew
  <2>2. pc[p] = "calling" /\ pc' = [pc EXCEPT ![p] = "waiting"]
    BY <1>2 DEF RegisterNew
  <2>3. q # p
    BY <2>1 DEF TypeOK
  <2>4. l'[q] = l[q] /\ l[q] # o /\ locked[l[q]]
    BY <2>1, <2>3 DEF TypeOK, Unreferenced
  <2>5. PICK r \in Proc : pc[r] = "holding" /\ l[r] = l[q]
    BY <2>4 DEF LockedIsHeld
  <2>6. QED
    BY <2>1, <2>2, <2>4, <2>5 DEF TypeOK
<1>3. ASSUME NEW p \in Proc, RegisterExisting(p)
      PROVE  \E r \in Proc : pc'[r] = "holding" /\ l'[r] = l'[q]
  <2>1. /\ pc[p] = "calling" /\ locks[key[p]] # NoObj /\ locked' = locked
        /\ l' = [l EXCEPT ![p] = locks[key[p]]]
        /\ pc' = [pc EXCEPT ![p] = "waiting"]
    BY <1>3 DEF RegisterExisting
  <2>2. PICK u \in Proc : pc[u] \in Busy /\ key[u] = key[p]
    BY <2>1 DEF EntryInUse, TypeOK
  <2>3. u # p /\ l[u] = locks[key[p]]
    BY <2>1, <2>2 DEF RefersToEntry, Busy
  <2>4. \E s \in Proc : l[s] # NoObj /\ l[s] = l'[q] /\ locked[l[s]]
    BY <2>1, <2>3 DEF TypeOK
  <2>5. PICK r \in Proc : pc[r] = "holding" /\ l[r] = l'[q]
    BY <2>4 DEF LockedIsHeld
  <2>6. QED
    BY <2>1, <2>5 DEF TypeOK
<1>4. ASSUME NEW p \in Proc, Acquire(p)
      PROVE  \E r \in Proc : pc'[r] = "holding" /\ l'[r] = l'[q]
  <2>1. CASE l[q] = l[p]
    BY <1>4, <2>1 DEF Acquire, TypeOK
  <2>2. CASE l[q] # l[p]
    <3>1. PICK r \in Proc : pc[r] = "holding" /\ l[r] = l[q]
      BY <1>4, <2>2 DEF Acquire, LockedIsHeld, TypeOK
    <3>2. QED
      BY <1>4, <3>1 DEF Acquire, TypeOK
  <2>3. QED
    BY <2>1, <2>2
<1>5. ASSUME NEW p \in Proc, Unlock(p)
      PROVE  \E r \in Proc : pc'[r] = "holding" /\ l'[r] = l'[q]
  <2>1. l[q] # l[p] /\ locked[l[q]] /\ l[q] # NoObj
    BY <1>5 DEF Unlock, TypeOK, RefersToEntry
  <2>2. PICK r \in Proc : pc[r] = "holding" /\ l[r] = l[q]
    BY <2>1 DEF LockedIsHeld
  <2>3. QED
    BY <1>5, <2>1, <2>2 DEF Unlock, TypeOK
<1>6. ASSUME NEW p \in Proc, Deregister(p)
      PROVE  \E r \in Proc : pc'[r] = "holding" /\ l'[r] = l'[q]
  <2>1. q # p
    BY <1>6 DEF Deregister, TypeOK
  <2>2. PICK r \in Proc : pc[r] = "holding" /\ l[r] = l[q]
    BY <1>6, <2>1 DEF Deregister, LockedIsHeld, TypeOK
  <2>3. QED
    BY <1>6, <2>1, <2>2 DEF Deregister, TypeOK
<1>7. CASE UNCHANGED vars
  BY <1>7 DEF vars, LockedIsHeld
<1>8. QED
  BY <1>1, <1>2, <1>3, <1>4, <1>5, <1>6, <1>7 DEF Next, Step

LEMMA UseInvariant == Spec => [](IInv /\ EntryInUse /\ LockedIsHeld)
<1>1. Init => EntryInUse /\ LockedIsHeld
  BY DEF Init, EntryInUse, LockedIsHeld
<1>2. IInv /\ IInv' /\ EntryInUse /\ LockedIsHeld /\ [Next]_vars
          => EntryInUse' /\ LockedIsHeld'
  BY UseStep, HeldStep
<1>3. QED
  BY <1>1, <1>2, InitInv, NextInv, PTL DEF Spec

(* lock.go:12 - a key has an entry exactly while some goroutine waits for    *)
(* it, holds it or is leaving it.                                            *)
THEOREM NoLeak == Spec => []NoLeakedEntry
<1>1. IInv /\ EntryInUse => NoLeakedEntry
  BY NoObjIsNot DEF IInv, EntryInUse, Busy, RefersToEntry, NoLeakedEntry, TypeOK
<1>2. QED
  BY <1>1, UseInvariant, PTL

(* lock.go:6 - a goroutine waits only while another holds its own key.       *)
THEOREM UnrelatedNeverWait == Spec => []OnlyOwnKeyBlocks
<1>1. IInv /\ LockedIsHeld => OnlyOwnKeyBlocks
  <2> SUFFICES ASSUME IInv, LockedIsHeld, NEW p \in Proc, pc[p] = "waiting", locked[l[p]]
               PROVE  \E q \in Proc : pc[q] = "holding" /\ key[q] = key[p]
    BY DEF OnlyOwnKeyBlocks
  <2>1. l[p] \in Obj /\ locks[key[p]] = l[p]
    BY DEF IInv, RefersToEntry
  <2>2. PICK q \in Proc : pc[q] = "holding" /\ l[q] = l[p]
    BY <2>1, NoObjIsNot DEF LockedIsHeld
  <2>3. locks[key[q]] = l[q]
    BY <2>2 DEF IInv, RefersToEntry
  <2>4. key[q] = key[p]
    BY <2>1, <2>2, <2>3, NoObjIsNot DEF IInv, OneKeyPerObject, TypeOK
  <2>5. QED
    BY <2>2, <2>4
<1>2. QED
  BY <1>1, UseInvariant, PTL
==============================================================================
