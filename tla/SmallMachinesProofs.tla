------------------------- MODULE SmallMachinesProofs -------------------------
(***************************************************************************)
(* Proofs about the small machines.  A step of the whole is a step of the  *)
(* machine the behaviour is of, or leaves it alone; so each invariant is   *)
(* one of its machine, under "which".                                      *)
(***************************************************************************)
EXTENDS SmallMachines, Selection, Integers, FiniteSetTheorems, SequenceTheorems,
        WellFoundedInduction, TLAPS

-----------------------------------------------------------------------------
(* Numbers, recursions along them, and the sequences they make. *)

\* Of some finite sets there is one that none of the others is part of.
LEMMA LeastSet ==
  ASSUME NEW C, \A E \in C : IsFiniteSet(E), C # {}
  PROVE \E E \in C : \A V \in C : V \subseteq E => V = E
<1> DEFINE U == UNION C
<1>1. C \subseteq FiniteSubsetsOf(U)
  BY DEF FiniteSubsetsOf
<1>2. IsWellFoundedOn(StrictSubsetOrdering(U), FiniteSubsetsOf(U))
  BY FS_StrictSubsetOrderingWellFounded
<1>3. \E E \in C : \A V \in C : ~(<<V, E>> \in StrictSubsetOrdering(U))
  BY <1>1, <1>2, WFMin
<1>4. QED
  BY <1>3 DEF StrictSubsetOrdering

\* Some natural numbers have a least.
LEMMA LeastNat ==
  ASSUME NEW E \in SUBSET Nat, E # {}
  PROVE \E n \in E : \A m \in E : n <= m
<1> DEFINE C == {0 .. n : n \in E}
<1>1. C # {} 
  OBVIOUS
<1>2. ASSUME NEW n \in E PROVE IsFiniteSet(0 .. n)
  <2>1. 0 \in Int /\ n \in Int
    OBVIOUS
  <2> QED BY <2>1, FS_Interval
<1>3. \A U \in C : IsFiniteSet(U)
  BY <1>2
<1>4. \E X \in C : \A U \in C : U \subseteq X => U = X
  <2> HIDE DEF C
  <2>1. \A U \in C : IsFiniteSet(U)
    BY <1>3
  <2>2. C # {}
    BY <1>1
  <2> QED BY <2>1, <2>2, LeastSet
<1>5. PICK X \in C : \A U \in C : U \subseteq X => U = X
  BY <1>4
<1>6. PICK n \in E : X = 0 .. n
  OBVIOUS
<1>7. ASSUME NEW m \in E, m < n PROVE FALSE
  <2>1. 0 .. m \in C /\ 0 .. m \subseteq 0 .. n
    BY <1>7
  <2>2. 0 .. m = 0 .. n
    BY <2>1, <1>5, <1>6
  <2>3. n \in 0 .. n /\ n \notin 0 .. m
    BY <1>7
  <2> QED BY <2>2, <2>3
<1>8. QED
  BY <1>7

\* Induction: a set that has 0 and with each number below N the next has all up to N.
LEMMA UpTo ==
  ASSUME NEW N \in Nat, NEW E, 0 \in E, \A n \in 0 .. N - 1 : n \in E => n + 1 \in E
  PROVE 0 .. N \subseteq E
<1> DEFINE H == {n \in 0 .. N : n \notin E}
<1>1. SUFFICES ASSUME H # {} PROVE FALSE
  OBVIOUS
<1>2. H \in SUBSET Nat
  OBVIOUS
<1>3. PICK n \in H : \A m \in H : n <= m
  <2> HIDE DEF H
  <2> QED BY <1>1, <1>2, LeastNat
<1>4. n # 0 /\ n \in Nat /\ n - 1 \in 0 .. N - 1
  OBVIOUS
<1>5. n - 1 \notin H
  BY <1>3, <1>4
<1>6. QED
  BY <1>4, <1>5

\* f follows a recursion along 1 .. N.
Solvable(N, U, base, R) ==
  \E f \in [0 .. N -> U] : f[0] = base /\ \A k \in 1 .. N : f[k] = R[k][f[k - 1]]

\* A recursion along 1 .. N has a solution.
LEMMA Recursion ==
  ASSUME NEW N \in Nat, NEW U, NEW base \in U, NEW R \in [1 .. N -> [U -> U]]
  PROVE Solvable(N, U, base, R)
<1> DEFINE Solves(f, n) == f \in [0 .. n -> U] /\ f[0] = base /\ \A k \in 1 .. n : f[k] = R[k][f[k - 1]]
           E == {n \in 0 .. N : \E f : Solves(f, n)}
<1>1. 0 \in E
  <2>1. Solves([k \in 0 .. 0 |-> base], 0) /\ 0 \in 0 .. N
    OBVIOUS
  <2> HIDE DEF Solves
  <2> QED BY <2>1
<1>2. ASSUME NEW n \in 0 .. N - 1, n \in E PROVE n + 1 \in E
  <2>1. PICK f : Solves(f, n)
    BY <1>2
  <2> DEFINE g == [k \in 0 .. n + 1 |-> IF k <= n THEN f[k] ELSE R[n + 1][f[n]]]
  <2>2. f[n] \in U /\ n + 1 \in 1 .. N
    BY <2>1
  <2>3. R[n + 1][f[n]] \in U
    BY <2>2
  <2>4. g \in [0 .. n + 1 -> U] /\ g[0] = base
    BY <2>1, <2>3
  <2>5. ASSUME NEW k \in 1 .. n + 1 PROVE g[k] = R[k][g[k - 1]]
    <3>1. CASE k <= n
      <4>1. g[k] = f[k] /\ g[k - 1] = f[k - 1] /\ k \in 1 .. n
        BY <3>1
      <4> QED BY <4>1, <2>1
    <3>2. CASE k = n + 1
      <4>1. g[k] = R[n + 1][f[n]] /\ g[k - 1] = f[n]
        BY <3>2
      <4> QED BY <4>1, <3>2
    <3> QED BY <3>1, <3>2
  <2>6. Solves(g, n + 1)
    BY <2>4, <2>5
  <2>7. n + 1 \in 0 .. N
    OBVIOUS
  <2> HIDE DEF Solves, g
  <2> QED BY <2>6, <2>7
<1>3. 0 .. N \subseteq E
  <2> HIDE DEF E
  <2> QED BY <1>1, <1>2, UpTo
<1>4. N \in E
  BY <1>3
<1>5. QED
  BY <1>4 DEF Solvable

\* f has what SelectAt has come to after each element.
Unfolds(f, s, J) ==
    /\ f[0] = <<>> /\ SelectAt(s, J) = f[Len(s)]
    /\ \A k \in 1 .. Len(s) : f[k] = IF k \in J THEN Append(f[k - 1], s[k]) ELSE f[k - 1]

\* SelectAt's recursion has the solution it says.
LEMMA SelectAtDef ==
  ASSUME NEW U, NEW s \in Seq(U), NEW J
  PROVE  \E f \in [0 .. Len(s) -> Seq(U)] : Unfolds(f, s, J)
<1> DEFINE N == Len(s)
           Q == Seq(U)
           step(q, k) == IF k \in J THEN Append(q, s[k]) ELSE q
           R == [k \in 1 .. N |-> [q \in Q |-> step(q, k)]]
           eq(f) == f = [k \in 0 .. N |-> IF k = 0 THEN <<>> ELSE step(f[k - 1], k)]
           h == CHOOSE g : eq(g)
<1>1. N \in Nat /\ <<>> \in Q /\ \A k \in 1 .. N, q \in Q : step(q, k) \in Q
  OBVIOUS
<1>2. SelectAt(s, J) = h[N]
  BY DEF SelectAt
<1> HIDE DEF N, Q, step
<1>3. R \in [1 .. N -> [Q -> Q]]
  BY <1>1
<1>4. PICK f \in [0 .. N -> Q] : f[0] = <<>> /\ \A k \in 1 .. N : f[k] = R[k][f[k - 1]]
  <2> HIDE DEF R
  <2> DEFINE e == <<>>
  <2>1. e \in Q
    BY <1>1
  <2>2. \E f \in [0 .. N -> Q] : f[0] = e /\ \A k \in 1 .. N : f[k] = R[k][f[k - 1]]
    <3>1. N \in Nat
      BY <1>1
    <3> HIDE DEF e, eq, h
    <3>2. Solvable(N, Q, e, R)
      BY <3>1, <1>3, <2>1, Recursion
    <3> QED BY <3>2 DEF Solvable
  <2> QED BY <2>2
<1>5. ASSUME NEW k \in 1 .. N PROVE f[k] = step(f[k - 1], k)
  <2>1. f[k - 1] \in Q
    BY <1>1, <1>4
  <2> QED BY <2>1, <1>4
<1>6. eq(f)
  BY <1>4, <1>5, <1>1
<1>7. eq(h)
  BY <1>6
<1>8. h[0] = <<>> /\ \A k \in 1 .. N : h[k] = step(h[k - 1], k)
  <2> HIDE DEF h
  <2> QED BY <1>7, <1>1
<1>9. h \in [0 .. N -> Q]
  <2> DEFINE E == {k \in 0 .. N : h[k] \in Q}
  <2> HIDE DEF h
  <2>1. 0 \in E
    BY <1>8, <1>1
  <2>2. \A n \in 0 .. N - 1 : n \in E => n + 1 \in E
    <3> SUFFICES ASSUME NEW n \in 0 .. N - 1, h[n] \in Q PROVE h[n + 1] \in Q
      BY <1>1
    <3>1. n + 1 \in 1 .. N /\ (n + 1) - 1 = n
      BY <1>1
    <3> QED BY <3>1, <1>8, <1>1
  <2>3. 0 .. N \subseteq E
    <3> HIDE DEF E
    <3> QED BY <1>1, <2>1, <2>2, UpTo
  <2>4. h = [k \in 0 .. N |-> h[k]]
    BY <1>7
  <2> QED BY <2>3, <2>4
<1>10. QED
  <2> HIDE DEF h
  <2>1. Unfolds(h, s, J)
    BY <1>2, <1>8 DEF step, N, Unfolds
  <2> QED BY <2>1, <1>9 DEF N, Q

\* r is s at the indexes J, in their order.
Picks(r, s, J) ==
    \E g \in [1 .. Len(r) -> J] :
        /\ \A i, j \in 1 .. Len(r) : i < j => g[i] < g[j]
        /\ \A m \in J : \E i \in 1 .. Len(r) : g[i] = m
        /\ \A i \in 1 .. Len(r) : r[i] = s[g[i]]

\* SelectAt picks what is at the indexes.
LEMMA SelectAtPicks ==
  ASSUME NEW U, NEW s \in Seq(U), NEW J
  PROVE  SelectAt(s, J) \in Seq(U) /\ Picks(SelectAt(s, J), s, J \cap 1 .. Len(s))
<1>0. PICK f \in [0 .. Len(s) -> Seq(U)] : Unfolds(f, s, J)
  BY SelectAtDef
<1>1. /\ f[0] = <<>> /\ SelectAt(s, J) = f[Len(s)]
      /\ \A k \in 1 .. Len(s) : f[k] = IF k \in J THEN Append(f[k - 1], s[k]) ELSE f[k - 1]
  BY <1>0 DEF Unfolds
<1> DEFINE N == Len(s)
           E == {k \in 0 .. N : Picks(f[k], s, J \cap 1 .. k)}
<1>2. N \in Nat
  OBVIOUS
<1>3. 0 \in E
  <2>1. f[0] = <<>> /\ 0 \in 0 .. N
    BY <1>1
  <2>2. Picks(<<>>, s, J \cap 1 .. 0)
    <3> DEFINE g == [i \in 1 .. 0 |-> 0]
    <3>1. g \in [1 .. Len(<<>>) -> J \cap 1 .. 0]
      OBVIOUS
    <3> QED BY <3>1 DEF Picks
  <2> QED BY <2>1, <2>2
<1>4. ASSUME NEW n \in 0 .. N - 1, n \in E PROVE n + 1 \in E
  <2>1. n + 1 \in 1 .. N /\ (n + 1) - 1 = n /\ n \in Nat
    BY <1>2
  <2>2. f[n] \in Seq(U) /\ s[n + 1] \in U
    BY <2>1, <1>1
  <2>3. CASE n + 1 \notin J
    <3>1. f[n + 1] = f[n]
      BY <2>1, <2>3, <1>1
    <3>2. J \cap 1 .. n + 1 = J \cap 1 .. n
      BY <2>3, <2>1
    <3> QED BY <3>1, <3>2, <2>1, <1>4
  <2>4. CASE n + 1 \in J
    <3> DEFINE r == f[n]
               q == Append(r, s[n + 1])
    <3>1. f[n + 1] = q
      BY <2>1, <2>4, <1>1
    <3> DEFINE M == Len(r)
    <3>2. PICK g \in [1 .. M -> J \cap 1 .. n] :
        /\ \A i, j \in 1 .. M : i < j => g[i] < g[j]
        /\ \A m \in J \cap 1 .. n : \E i \in 1 .. M : g[i] = m
        /\ \A i \in 1 .. M : r[i] = s[g[i]]
      BY <1>4 DEF Picks
    <3> DEFINE h == [i \in 1 .. M + 1 |-> IF i <= M THEN g[i] ELSE n + 1]
    <3>3. M \in Nat /\ Len(q) = M + 1 /\ q[M + 1] = s[n + 1] /\ \A i \in 1 .. M : q[i] = r[i]
      BY <2>2 DEF M
    <3> HIDE DEF q, r, M
    <3>4. h \in [1 .. Len(q) -> J \cap 1 .. n + 1]
      BY <3>3, <3>2, <2>4, <2>1
    <3>5. ASSUME NEW i \in 1 .. Len(q), NEW j \in 1 .. Len(q), i < j PROVE h[i] < h[j]
      <4>0. i \in 1 .. M
        BY <3>3, <3>5
      <4>1. h[i] = g[i] /\ g[i] \in 1 .. n
        BY <4>0, <3>3, <3>2
      <4>2. CASE j <= M
        <5>1. j \in 1 .. M /\ h[j] = g[j]
          BY <4>2, <3>3
        <5> QED BY <5>1, <4>0, <4>1, <3>2, <3>5
      <4>3. CASE ~(j <= M)
        <5>1. h[j] = n + 1
          BY <4>3, <3>3
        <5> QED BY <5>1, <4>1, <2>1
      <4> QED BY <4>2, <4>3
    <3>6. ASSUME NEW m \in J \cap 1 .. n + 1 PROVE \E i \in 1 .. Len(q) : h[i] = m
      <4>1. CASE m = n + 1
        <5>1. M + 1 \in 1 .. Len(q) /\ h[M + 1] = n + 1
          BY <3>3
        <5> QED BY <5>1, <4>1
      <4>2. CASE m # n + 1
        <5>1. m \in J \cap 1 .. n
          BY <4>2, <2>1
        <5>2. PICK i \in 1 .. M : g[i] = m
          BY <5>1, <3>2
        <5> QED BY <5>2, <3>3
      <4> QED BY <4>1, <4>2
    <3>7. \A i \in 1 .. Len(q) : q[i] = s[h[i]]
      BY <3>3, <3>2
    <3>8. Picks(q, s, J \cap 1 .. n + 1)
      <4> HIDE DEF h
      <4> QED BY <3>4, <3>5, <3>6, <3>7 DEF Picks
    <3> QED BY <3>8, <3>1, <2>1
  <2> QED BY <2>3, <2>4
<1>5. 0 .. N \subseteq E
  <2> HIDE DEF E, N
  <2> QED BY <1>2, <1>3, <1>4, UpTo
<1>6. N \in 0 .. N
  BY <1>2
<1> QED BY <1>5, <1>6, <1>1

\* The parts' SelectAt is the one of Selection.
LEMMA SameSelect ==
  ASSUME NEW s, NEW J
  PROVE /\ B!SelectAt(s, J) = SelectAt(s, J) /\ D!SelectAt(s, J) = SelectAt(s, J)
        /\ F!SelectAt(s, J) = SelectAt(s, J)
        /\ D!FirstIndexes(s) = FirstIndexes(s) /\ F!FirstIndexes(s) = FirstIndexes(s)
  BY DEF B!SelectAt, D!SelectAt, F!SelectAt, SelectAt, D!FirstIndexes, F!FirstIndexes, FirstIndexes

\* What is selected is a sequence of elements at the indexes.
LEMMA SelectAtElements ==
  ASSUME NEW U, NEW s \in Seq(U), NEW J
  PROVE  /\ SelectAt(s, J) \in Seq(U) /\ DOMAIN SelectAt(s, J) = 1 .. Len(SelectAt(s, J))
         /\ \A k \in 1 .. Len(SelectAt(s, J)) : SelectAt(s, J)[k] \in U
         /\ \A k \in 1 .. Len(SelectAt(s, J)) :
               \E m \in J \cap 1 .. Len(s) : SelectAt(s, J)[k] = s[m]
         /\ \A m \in J \cap 1 .. Len(s) :
               \E k \in 1 .. Len(SelectAt(s, J)) : SelectAt(s, J)[k] = s[m]
<1> DEFINE r == SelectAt(s, J)
<1>1. r \in Seq(U) /\ Picks(r, s, J \cap 1 .. Len(s))
  BY SelectAtPicks
<1> HIDE DEF r
<1>2. Len(r) \in Nat
  BY <1>1
<1>3. \A k \in 1 .. Len(r) : \E m \in J \cap 1 .. Len(s) : r[k] = s[m]
  BY <1>1 DEF Picks
<1>5. \A m \in J \cap 1 .. Len(s) : \E k \in 1 .. Len(r) : r[k] = s[m]
  BY <1>1 DEF Picks
<1>4. DOMAIN r = 1 .. Len(r) /\ \A k \in 1 .. Len(r) : r[k] \in U
  BY <1>1
<1> QED BY <1>1, <1>3, <1>4, <1>5 DEF r

\* Whatever is in a sequence comes there for a first time.
LEMMA FirstComes ==
  ASSUME NEW U, NEW s \in Seq(U), NEW k \in 1 .. Len(s)
  PROVE  \E m \in FirstIndexes(s) \cap 1 .. Len(s) : s[m] = s[k]
<1> DEFINE E == {m \in 1 .. Len(s) : s[m] = s[k]}
<1>1. E \in SUBSET Nat /\ E # {}
  OBVIOUS
<1>2. PICK m \in E : \A n \in E : m <= n
  <2> HIDE DEF E
  <2> QED BY <1>1, LeastNat
<1>3. m \in FirstIndexes(s)
  <2>1. m \in DOMAIN s /\ m \in 1 .. Len(s)
    OBVIOUS
  <2>2. ASSUME NEW j \in 1 .. m - 1, s[j] = s[m] PROVE FALSE
    <3>1. j \in E /\ ~(m <= j)
      BY <2>1, <2>2
    <3> QED BY <3>1, <1>2
  <2> QED BY <2>1, <2>2 DEF FirstIndexes
<1> QED BY <1>3

\* A function on the first so many numbers is a sequence of its values.
LEMMA IsASequence ==
  ASSUME NEW n \in Nat, NEW q, q = [i \in 1 .. n |-> q[i]]
  PROVE  \E U : q \in Seq(U) /\ Len(q) = n
<1> DEFINE U == {q[i] : i \in 1 .. n}
<1>1. q \in Seq(U) /\ Len(q) = n
  OBVIOUS
<1> QED BY <1>1

-----------------------------------------------------------------------------
(* GitHubClient. *)

\* A step of the whole is one of the client, or leaves it alone.
LEMMA ClientMoves ==
    ASSUME which = "client", [Next]_vars
    PROVE  which' = "client" /\ [G!Next]_gVars
  BY DEF Next, vars, gVars

ClientCall == [method : {"GET", "POST"}, stage : G!Stages, tries : Nat, landed : Nat,
               minted : Nat, picked : Nat, answer : G!Answers \cup {None}]

ClientType == /\ calls \in [Calls -> ClientCall]
              /\ now \in Nat /\ token \in Nat \cup {None}

\* A request that changes state has not landed before the call is done.
Landings == \A c \in Calls :
                /\ calls[c].method = "POST" => calls[c].landed <= 1
                /\ calls[c].method = "POST" /\ calls[c].stage # "done" => calls[c].landed = 0
                /\ calls[c].answer = "ok" => calls[c].landed >= 1

\* A token is taken while it has more than the skew to live.
Taken == \A c \in Calls :
             /\ calls[c].stage = "send" => calls[c].picked + Skew < calls[c].minted + Life
             /\ calls[c].answer = "expired" => now > calls[c].picked + Skew

\* "No installation" comes of GitHub.
Denials == /\ noInstall => denied
           /\ \A c \in Calls : calls[c].answer = "no_installation" => denied

ClientInv == ClientType /\ Landings /\ Taken /\ Denials

\* An attempt counts itself, and what landed, and leaves the rest of its call alone.
LEMMA AttemptFields ==
    ASSUME NEW k \in ClientCall, NEW landed \in {0, 1}
    PROVE  LET sent == [k EXCEPT !.tries = @ + 1, !.landed = @ + landed]
           IN  /\ sent \in ClientCall /\ sent.method = k.method /\ sent.stage = k.stage
               /\ sent.landed = k.landed + landed /\ sent.answer = k.answer
               /\ sent.minted = k.minted /\ sent.picked = k.picked
<1>1. ASSUME NEW sent, sent = [k EXCEPT !.tries = @ + 1, !.landed = @ + landed]
      PROVE  /\ sent \in ClientCall /\ sent.method = k.method /\ sent.stage = k.stage
             /\ sent.landed = k.landed + landed /\ sent.answer = k.answer
             /\ sent.minted = k.minted /\ sent.picked = k.picked
  <2>1. /\ sent.method = k.method /\ sent.stage = k.stage
        /\ sent.landed = k.landed + landed /\ sent.answer = k.answer
        /\ sent.minted = k.minted /\ sent.picked = k.picked
    BY <1>1 DEF ClientCall
  <2>2. sent \in ClientCall
    <3>1. ASSUME NEW n \in Nat PROVE [k EXCEPT !.tries = n] \in ClientCall
      BY DEF ClientCall
    <3>2. ASSUME NEW m \in ClientCall, NEW n \in Nat PROVE [m EXCEPT !.landed = n] \in ClientCall
      BY DEF ClientCall
    <3>3. k.tries + 1 \in Nat /\ k.landed + landed \in Nat
      BY DEF ClientCall
    <3>4. sent = [[k EXCEPT !.tries = k.tries + 1] EXCEPT !.landed = k.landed + landed]
      BY <1>1 DEF ClientCall
    <3>5. QED
      BY <3>1, <3>2, <3>3, <3>4
  <2>3. QED
    BY <2>1, <2>2
<1>2. QED
  BY <1>1

\* Each step of a call keeps what it has landed, taken and been denied.
LEMMA ClientStep == ASSUME ClientInv, [G!Next]_gVars PROVE ClientInv'
<1> USE PartsAssumption DEF ClientInv, G!ClientAssumption
<1>1. ASSUME NEW c \in Calls, G!Start(c) PROVE ClientInv'
  BY <1>1 DEF ClientType, ClientCall, G!Stages, Landings, Taken, Denials, G!Start, G!Step, G!world, G!caches
<1>2. ASSUME NEW c \in Calls, G!LookInstall(c) PROVE ClientInv'
  BY <1>2 DEF ClientType, ClientCall, G!Stages, G!Answers, Landings, Taken, Denials, G!LookInstall,
              G!Step, G!Finish, G!world, G!caches
<1>3. ASSUME NEW c \in Calls, G!AnswerInstall(c) PROVE ClientInv'
  BY <1>3 DEF ClientType, ClientCall, G!Stages, G!Answers, Landings, Taken, Denials, G!AnswerInstall,
              G!Step, G!Finish, G!world, G!caches
<1>4. ASSUME NEW c \in Calls, G!LookToken(c) PROVE ClientInv'
  BY <1>4 DEF ClientType, ClientCall, G!Stages, Landings, Taken, Denials, G!LookToken, G!Usable,
              G!Step, G!Take, G!world, G!caches
<1>5. ASSUME NEW c \in Calls, G!AnswerToken(c) PROVE ClientInv'
  BY <1>5 DEF ClientType, ClientCall, G!Stages, G!Answers, Landings, Taken, Denials, G!AnswerToken,
              G!Take, G!Finish, G!world, G!caches
<1>6. ASSUME NEW c \in Calls, G!Answer(c) PROVE ClientInv'
  BY <1>6 DEF ClientType, ClientCall, G!Stages, G!Answers, Landings, Taken, Denials, G!Answer,
              G!Finish, G!world, G!caches
<1>7. ASSUME NEW c \in Calls, G!Fault(c) PROVE ClientInv'
  <2>1. PICK fault \in {"dial", "cut", "busy"}, landed \in {0, 1} :
             /\ landed = 1 => fault # "dial" /\ calls[c].stage = "send"
             /\ LET call_ == [calls[c] EXCEPT !.tries = @ + 1, !.landed = @ + landed]
                IN  calls' = [calls EXCEPT ![c] =
                       IF G!Retries(G!Method(call_), fault, call_.tries) THEN call_
                       ELSE [call_ EXCEPT !.stage = "done", !.answer = "error"]]
    BY <1>7 DEF G!Fault
  <2> DEFINE k == calls[c]
             sent == [k EXCEPT !.tries = @ + 1, !.landed = @ + landed]
             ended == [sent EXCEPT !.stage = "done", !.answer = "error"]
             again == G!Retries(G!Method(sent), fault, sent.tries)
  <2>2. k \in ClientCall /\ k.stage \in {"ask_install", "ask_token", "send"}
    BY <1>7 DEF ClientType, G!Fault
  <2>3. /\ sent \in ClientCall /\ sent.method = k.method /\ sent.stage = k.stage
        /\ sent.landed = k.landed + landed /\ sent.answer = k.answer
        /\ sent.minted = k.minted /\ sent.picked = k.picked
    BY <2>2, AttemptFields
  <2>4. /\ ended \in ClientCall /\ ended.method = k.method /\ ended.stage = "done"
        /\ ended.landed = k.landed + landed /\ ended.answer = "error"
    BY <2>3 DEF ClientCall, G!Stages, G!Answers
  <2>5. again /\ k.method = "POST" => landed = 0
    BY <2>1, <2>3 DEF G!Retries, G!Method, G!Asking
  <2>6. calls' = [calls EXCEPT ![c] = IF again THEN sent ELSE ended]
    BY <2>1
  <2>7. k.landed \in Nat /\ landed \in Nat
    BY <2>2 DEF ClientCall
  <2> HIDE DEF again, sent, ended
  <2>8. UNCHANGED <<now, token, noInstall, denied>>
    BY <1>7 DEF G!Fault, G!world, G!caches
  <2>9. calls'[c] = (IF again THEN sent ELSE ended) /\ \A x \in Calls \ {c} : calls'[x] = calls[x]
    BY <2>6 DEF ClientType
  <2>10. ClientType'
    BY <2>3, <2>4, <2>6, <2>8 DEF ClientType
  <2>11. Landings'
    <3>1. \A x \in Calls \ {c} : /\ calls'[x].method = "POST" => calls'[x].landed <= 1
                                 /\ calls'[x].method = "POST" /\ calls'[x].stage # "done"
                                       => calls'[x].landed = 0
                                 /\ calls'[x].answer = "ok" => calls'[x].landed >= 1
      BY <2>9 DEF Landings
    <3>2. CASE again
      BY <2>1, <2>2, <2>3, <2>5, <2>7, <2>9, <3>1, <3>2 DEF Landings
    <3>3. CASE ~ again
      <4>1. k.method = "POST" => k.landed + landed <= 1
        BY <2>2, <2>7 DEF Landings
      <4>2. QED
        BY <2>4, <2>9, <3>1, <3>3, <4>1 DEF Landings
    <3>4. QED
      BY <3>2, <3>3
  <2>12. Taken' /\ Denials'
    BY <2>2, <2>3, <2>4, <2>8, <2>9 DEF Taken, Denials
  <2>13. QED
    BY <2>10, <2>11, <2>12
<1>8. CASE G!Tick \/ G!Toggle
  <2>1. UNCHANGED <<calls, token, noInstall, denied>> /\ now' \in {now, now + 1}
    BY <1>8 DEF G!Tick, G!Toggle, G!world, G!caches
  <2>2. \A c \in Calls : calls[c].picked \in Nat
    BY DEF ClientType, ClientCall
  <2>3. QED
    BY <2>1, <2>2 DEF ClientType, Landings, Taken, Denials
<1>9. CASE G!Restart
  BY <1>9 DEF ClientType, ClientCall, G!Stages, G!Answers, Landings, Taken, Denials, G!Restart, G!Fresh
<1>10. CASE UNCHANGED gVars
  BY <1>10 DEF gVars, ClientType, Landings, Taken, Denials
<1>11. QED
  BY <1>1, <1>2, <1>3, <1>4, <1>5, <1>6, <1>7, <1>8, <1>9, <1>10 DEF G!Next

\* The invariant, of every behaviour that is of this machine.
LEMMA ClientInvariant == Spec => [](which = "client" => ClientInv)
<1>1. Init => (which = "client" => ClientInv)
  BY PartsAssumption DEF Init, G!Init, G!Fresh, G!ClientAssumption, G!Answers, G!Stages, ClientInv,
     ClientType, ClientCall, Landings, Taken, Denials
<1>2. (which = "client" => ClientInv) /\ [Next]_vars => (which = "client" => ClientInv)'
  <2> SUFFICES ASSUME which = "client" => ClientInv, [Next]_vars, which' = "client"
               PROVE  ClientInv'
    OBVIOUS
  <2>1. which = "client"
    BY DEF Next, vars
  <2>2. QED
    BY <2>1, ClientMoves, ClientStep
<1>3. QED
  BY <1>1, <1>2, PTL DEF Spec

\* transport.go: however often a request is sent and whatever is lost, one that
\* changes GitHub takes effect once at most.
THEOREM ChangesOnce == Spec => []ChangesLandOnce
<1>1. (which = "client" => ClientInv) => ChangesLandOnce
  BY DEF ChangesLandOnce, G!ChangesLandOnce, ClientInv, Landings
<1>2. QED
  BY <1>1, ClientInvariant, PTL

\* app.go: for any life of a token and any skew below it, what the caches serve
\* was good enough when it was taken.
THEOREM CachesServe == Spec => []CachesServeTheLiving
<1>1. (which = "client" => ClientInv) => CachesServeTheLiving
  BY DEF CachesServeTheLiving, G!CachesServeTheLiving, ClientInv, Taken, Denials
<1>2. QED
  BY <1>1, ClientInvariant, PTL

-----------------------------------------------------------------------------
(* Ingest. *)

\* A step of the whole is one of the ingest, or leaves it alone.
LEMMA IngestMoves ==
    ASSUME which = "ingest", [Next]_vars
    PROVE  which' = "ingest" /\ [I!Next]_iVars
  BY DEF Next, vars, iVars

Entry == [flight : BOOLEAN, outcome : {None, "done", "failed", "needs_input"}, attempts : Nat]

\* The form's list is left open: of a submission it matters what it has to mark.
Submission(b) == /\ DOMAIN b = {"on", "todo", "queued", "mark"}
                 /\ b = [field \in DOMAIN b |-> b[field]]
                 /\ b.on \in BOOLEAN
                 /\ ~ b.on => b.todo = <<>> /\ b.mark = None

IngestType == /\ up \in BOOLEAN
              /\ st \in [Docs -> Entry] /\ disk \in [Docs -> Entry]
              /\ DOMAIN batch = Requests /\ batch = [r \in Requests |-> batch[r]]
              /\ \A r \in Requests : Submission(batch[r])
              /\ dispatched \in [Docs -> Nat]
              /\ crashes \in Nat /\ saveFailures \in Nat

\* What a crash leaves: no submission, and a file that counts no more than was
\* dispatched.
Down == /\ ~ up => crashes > 0 /\ \A r \in Requests : batch[r].mark = None
        /\ \A d \in Docs : disk[d].attempts <= dispatched[d]

\* What is to be marked was dispatched since the boot.
Recent == \A r \in Requests : batch[r].mark \in Docs => batch[r].mark \in sinceBoot

\* How many submissions have a document to mark.
Count(b, d) == Cardinality({r \in Requests : b[r].mark = d})

\* IngestKeepsBooks, and that a process that never crashed is up.
Books ==
    \A d \in Docs :
        /\ crashes = 0 => st[d].attempts + Count(batch, d) = dispatched[d]
        /\ up => st[d].attempts + Count(batch, d) <= dispatched[d]
        /\ up /\ st[d].flight => d \in sinceBoot
        /\ up /\ st[d].outcome # None /\ saveFailures = 0 => disk[d].outcome = st[d].outcome

IngestInv == IngestType /\ Down /\ Recent /\ Books

\* The instance's finite sets are the library's.
LEMMA IngestSets ==
    \A set : I!Cardinality(set) = Cardinality(set) /\ I!IsFiniteSet(set) = IsFiniteSet(set)
  BY Zenon DEF I!Cardinality, Cardinality, I!IsFiniteSet, IsFiniteSet

\* A submission that takes a document, or marks it, changes the count by its own.
LEMMA CountMoves ==
    ASSUME NEW b, NEW c, NEW r \in Requests, NEW d,
           \A x \in Requests \ {r} : c[x].mark = b[x].mark
    PROVE  /\ Count(b, d) \in Nat /\ Count(c, d) \in Nat
           /\ b[r].mark = d /\ c[r].mark # d => Count(b, d) = Count(c, d) + 1
           /\ b[r].mark # d /\ c[r].mark = d => Count(c, d) = Count(b, d) + 1
           /\ (b[r].mark = d) = (c[r].mark = d) => Count(c, d) = Count(b, d)
<1> DEFINE of == {x \in Requests : b[x].mark = d}
           for == {x \in Requests : c[x].mark = d}
<1>1. IsFiniteSet(of) /\ IsFiniteSet(for)
  BY PartsAssumption, IngestSets, FS_Subset DEF I!IngestAssumption
<1>2. Cardinality(of) \in Nat /\ Cardinality(for) \in Nat
  BY <1>1, FS_CardinalityType
<1>3. ASSUME b[r].mark = d, c[r].mark # d PROVE Cardinality(of) = Cardinality(for) + 1
  <2>1. r \notin for /\ of = for \cup {r}
    BY <1>3
  <2>2. QED
    BY <1>1, <2>1, FS_AddElement
<1>4. ASSUME b[r].mark # d, c[r].mark = d PROVE Cardinality(for) = Cardinality(of) + 1
  <2>1. r \notin of /\ for = of \cup {r}
    BY <1>4
  <2>2. QED
    BY <1>1, <2>1, FS_AddElement
<1>5. (b[r].mark = d) = (c[r].mark = d) => of = for
  OBVIOUS
<1>6. QED
  BY <1>2, <1>3, <1>4, <1>5 DEF Count

\* A step that changes one submission at most, and none that has a document to
\* mark, keeps what the others have.
LEMMA SameCount ==
    ASSUME NEW b, NEW c, \A x \in Requests : c[x].mark = b[x].mark, NEW d
    PROVE  Count(c, d) = Count(b, d)
<1>1. {x \in Requests : b[x].mark = d} = {x \in Requests : c[x].mark = d}
  OBVIOUS
<1>2. QED
  BY <1>1 DEF Count

\* Each step keeps the books.
LEMMA IngestStep == ASSUME IngestInv, [I!Next]_iVars PROVE IngestInv'
<1> USE DEF IngestInv
<1>1. None \notin Docs
  BY PartsAssumption DEF I!IngestAssumption
<1>2. /\ \A d \in Docs : st[d] \in Entry /\ disk[d] \in Entry /\ dispatched[d] \in Nat
      /\ \A d : Count(batch, d) \in Nat
  BY PartsAssumption, IngestSets, FS_Subset, FS_CardinalityType DEF IngestType, I!IngestAssumption, Count
<1>3. ASSUME NEW r \in Requests, I!Submit(r) PROVE IngestInv'
  <2>1. /\ DOMAIN batch' = Requests /\ batch' = [x \in Requests |-> batch'[x]]
        /\ \A x \in Requests \ {r} : batch'[x] = batch[x]
        /\ Submission(batch'[r]) /\ batch'[r].mark = None /\ batch[r].mark = None
    BY <1>3 DEF I!Submit, I!Idle, Submission, IngestType
  <2>2. UNCHANGED <<up, st, disk, runs, dispatched, sinceBoot, crashes, saveFailures>>
    BY <1>3 DEF I!Submit, I!history
  <2>3. \A d : Count(batch', d) = Count(batch, d)
    BY <2>1, SameCount
  <2>4. IngestType'
    BY <2>1, <2>2 DEF IngestType
  <2>5. Down' /\ Recent'
    BY <1>1, <2>1, <2>2 DEF Down, Recent
  <2>6. Books'
    BY <2>2, <2>3 DEF Books
  <2>7. QED
    BY <2>4, <2>5, <2>6
<1>4. ASSUME NEW r \in Requests, I!FailOne(r) PROVE IngestInv'
  <2>1. /\ DOMAIN batch' = Requests /\ batch' = [x \in Requests |-> batch'[x]]
        /\ \A x \in Requests \ {r} : batch'[x] = batch[x]
        /\ Submission(batch'[r]) /\ batch'[r].mark = None /\ batch[r].mark = None
    BY <1>4 DEF I!FailOne, Submission, IngestType
  <2>2. UNCHANGED <<up, st, disk, runs, dispatched, sinceBoot, crashes, saveFailures>>
    BY <1>4 DEF I!FailOne, I!history
  <2>3. \A d : Count(batch', d) = Count(batch, d)
    BY <2>1, SameCount
  <2>4. IngestType'
    BY <2>1, <2>2 DEF IngestType
  <2>5. Down' /\ Recent'
    BY <1>1, <2>1, <2>2 DEF Down, Recent
  <2>6. Books'
    BY <2>2, <2>3 DEF Books
  <2>7. QED
    BY <2>4, <2>5, <2>6
<1>5. ASSUME NEW r \in Requests, I!Dispatch(r) PROVE IngestInv'
  <2> DEFINE d == Head(batch[r].todo)
  <2>1. /\ DOMAIN batch' = Requests /\ batch' = [x \in Requests |-> batch'[x]]
        /\ \A x \in Requests \ {r} : batch'[x] = batch[x]
        /\ Submission(batch'[r]) /\ batch'[r].mark = d /\ batch[r].mark = None
    BY <1>5 DEF I!Dispatch, Submission, IngestType
  <2>2. /\ UNCHANGED <<up, st, disk, crashes, saveFailures>> /\ up
        /\ dispatched' = [dispatched EXCEPT ![d] = @ + 1] /\ sinceBoot' = sinceBoot \cup {d}
    BY <1>5 DEF I!Dispatch
  <2> HIDE DEF d
  <2>3. \A e \in Docs : dispatched'[e] = (IF e = d THEN dispatched[e] + 1 ELSE dispatched[e])
    BY <2>2 DEF IngestType
  <2>4. \A e \in Docs : Count(batch', e) = (IF e = d THEN Count(batch, e) + 1 ELSE Count(batch, e))
    <3>1. \A x \in Requests \ {r} : batch'[x].mark = batch[x].mark
      BY <2>1
    <3>2. d # None => \A e :
             /\ e = d => Count(batch', e) = Count(batch, e) + 1
             /\ e # d /\ e # None => Count(batch', e) = Count(batch, e)
      BY <2>1, <3>1, CountMoves
    <3>3. d = None => \A e : Count(batch', e) = Count(batch, e)
      BY <2>1, <3>1, SameCount
    <3>4. SUFFICES ASSUME NEW e \in Docs
                   PROVE  Count(batch', e) = (IF e = d THEN Count(batch, e) + 1 ELSE Count(batch, e))
      OBVIOUS
    <3>5. e # None
      BY <1>1
    <3>6. QED
      BY <3>2, <3>3, <3>5
  <2>5. IngestType'
    <3>1. dispatched' \in [Docs -> Nat]
      <4>1. dispatched' = [e \in Docs |-> IF e = d THEN dispatched[e] + 1 ELSE dispatched[e]]
        BY <2>2 DEF IngestType
      <4>2. QED
        BY <1>2, <4>1
    <3>2. QED
      BY <2>1, <2>2, <3>1 DEF IngestType
  <2>6. Down' /\ Recent'
    BY <1>1, <1>2, <2>1, <2>2, <2>3 DEF Down, Recent, Entry
  <2>7. Books'
    BY <1>2, <2>2, <2>3, <2>4 DEF Books, Entry
  <2>8. QED
    BY <2>5, <2>6, <2>7
<1>6. ASSUME NEW r \in Requests, I!Mark(r) PROVE IngestInv'
  <2> DEFINE d == batch[r].mark
  <2>1. /\ DOMAIN batch' = Requests /\ batch' = [x \in Requests |-> batch'[x]]
        /\ \A x \in Requests \ {r} : batch'[x] = batch[x]
        /\ Submission(batch'[r]) /\ batch'[r].mark = None
    BY <1>6 DEF I!Mark, Submission, IngestType
  <2>2. /\ UNCHANGED <<up, disk, dispatched, sinceBoot, crashes, saveFailures>> /\ up
        /\ st' = [st EXCEPT ![d] = I!Marked(@)]
    BY <1>6 DEF I!Mark, I!history
  <2>3. \A e \in Docs : st'[e] = (IF e = d THEN I!Marked(st[e]) ELSE st[e])
    BY <2>2 DEF IngestType
  <2>4. \A e \in Docs : Count(batch, e) = (IF e = d THEN Count(batch', e) + 1 ELSE Count(batch', e))
                        /\ Count(batch', e) \in Nat
    <3>1. \A x \in Requests \ {r} : batch'[x].mark = batch[x].mark
      BY <2>1
    <3>2. d # None
      BY <1>6 DEF I!Mark
    <3>3. \A e :
             /\ e = d => Count(batch, e) = Count(batch', e) + 1
             /\ e # d /\ e # None => Count(batch', e) = Count(batch, e)
             /\ Count(batch', e) \in Nat
      BY <2>1, <3>1, <3>2, CountMoves
    <3>4. QED
      BY <1>1, <3>3
  <2>5. IngestType'
    <3>1. \A e \in Docs : I!Marked(st[e]) \in Entry
      BY <1>2 DEF I!Marked, Entry
    <3>2. QED
      BY <2>1, <2>2, <3>1 DEF IngestType
  <2>6. Down' /\ Recent'
    BY <1>1, <2>1, <2>2 DEF Down, Recent
  <2>7. Books'
    BY <1>2, <2>2, <2>3, <2>4 DEF Books, Entry, I!Marked, Recent
  <2>8. QED
    BY <2>5, <2>6, <2>7
<1>7. ASSUME NEW r \in Requests, I!Finish(r) PROVE IngestInv'
  <2>1. /\ DOMAIN batch' = Requests /\ batch' = [x \in Requests |-> batch'[x]]
        /\ \A x \in Requests \ {r} : batch'[x] = batch[x]
        /\ Submission(batch'[r]) /\ batch'[r].mark = None /\ batch[r].mark = None
    BY <1>7 DEF I!Finish, I!Idle, Submission, IngestType
  <2>2. /\ UNCHANGED <<up, st, dispatched, sinceBoot, crashes>> /\ up
        /\ \/ disk' = st /\ saveFailures' = saveFailures
           \/ disk' = disk /\ saveFailures' \in {saveFailures, saveFailures + 1}
    BY <1>7 DEF I!Finish, I!history, I!Save
  <2>3. \A d : Count(batch', d) = Count(batch, d)
    BY <2>1, SameCount
  <2>4. IngestType'
    BY <2>1, <2>2 DEF IngestType
  <2>5. Down' /\ Recent'
    BY <1>1, <1>2, <2>1, <2>2 DEF Down, Recent, Books, Entry
  <2>6. Books'
    BY <1>2, <2>2, <2>3 DEF Books, IngestType
  <2>7. QED
    BY <2>4, <2>5, <2>6
<1>8. ASSUME NEW d, I!RunEnded(d) PROVE IngestInv'
  <2>1. /\ UNCHANGED <<up, batch, dispatched, sinceBoot, crashes>> /\ up
        /\ \/ UNCHANGED <<st, disk, saveFailures>>
           \/ /\ \E o \in {"done", "failed", "needs_input"} :
                    st' = [st EXCEPT ![d].flight = FALSE, ![d].outcome = o]
              /\ \/ disk' = st' /\ saveFailures' = saveFailures
                 \/ disk' = disk /\ saveFailures' = saveFailures + 1
    BY <1>8 DEF I!RunEnded, I!history, I!Save
  <2>2. CASE UNCHANGED <<st, disk, saveFailures>>
    BY <2>1, <2>2 DEF IngestType, Down, Recent, Books
  <2>3. ASSUME NEW o \in {"done", "failed", "needs_input"},
               st' = [st EXCEPT ![d].flight = FALSE, ![d].outcome = o],
               \/ disk' = st' /\ saveFailures' = saveFailures
               \/ disk' = disk /\ saveFailures' = saveFailures + 1
        PROVE  IngestInv'
    <3>0. \/ disk' = st' /\ saveFailures' = saveFailures
          \/ disk' = disk /\ saveFailures' = saveFailures + 1
      BY <2>3
    <3>1. /\ st' \in [Docs -> Entry]
          /\ \A e \in Docs : /\ st'[e].attempts = st[e].attempts
                             /\ st'[e].flight => st[e].flight
      BY <1>2, <2>3 DEF IngestType, Entry
    <3>2. IngestType'
      <4>1. disk' \in [Docs -> Entry] /\ saveFailures' \in Nat
        BY <3>0, <3>1 DEF IngestType
      <4>2. QED
        BY <2>1, <3>1, <4>1 DEF IngestType
    <3>3. Down' /\ Recent'
      BY <1>2, <2>1, <2>3, <3>1 DEF Down, Recent, Books, Entry
    <3>4. \A e \in Docs : disk'[e] = st'[e] \/ saveFailures' # 0
      <4>1. saveFailures \in Nat
        BY DEF IngestType
      <4>2. QED
        BY <3>0, <4>1
    <3>5. Books'
      BY <2>1, <3>1, <3>4 DEF Books
    <3>6. QED
      BY <3>2, <3>3, <3>5
  <2>4. QED
    BY <2>1, <2>2, <2>3
<1>9. CASE I!Crash
  <2>1. /\ up' = FALSE /\ crashes' = crashes + 1
        /\ batch' = [r \in Requests |-> I!Idle]
        /\ UNCHANGED <<st, disk, dispatched, sinceBoot, saveFailures>>
    BY <1>9 DEF I!Crash, I!history
  <2>2. \A r \in Requests : Submission(batch'[r]) /\ batch'[r].mark = None
    BY <2>1 DEF Submission, I!Idle
  <2>3. IngestType'
    <3>1. /\ DOMAIN batch' = Requests /\ batch' = [r \in Requests |-> batch'[r]]
          /\ up' \in BOOLEAN
      BY <2>1
    <3>2. crashes' \in Nat
      BY <2>1 DEF IngestType
    <3>3. QED
      BY <2>1, <2>2, <3>1, <3>2 DEF IngestType
  <2>4. Down' /\ Recent' /\ Books'
    BY <1>1, <2>1, <2>2 DEF IngestType, Down, Recent, Books
  <2>5. QED
    BY <2>3, <2>4
<1>10. CASE I!Start
  <2>1. /\ ~ up /\ up' = TRUE /\ st' = I!Cleared(disk) /\ sinceBoot' = {}
        /\ \/ disk' = st' /\ saveFailures' = saveFailures
           \/ disk' = disk /\ saveFailures' \in {saveFailures, saveFailures + 1}
        /\ UNCHANGED <<batch, dispatched, crashes>>
    BY <1>10 DEF I!Start, I!Save
  <2>2. /\ st' \in [Docs -> Entry]
        /\ \A d \in Docs : /\ st'[d].attempts = disk[d].attempts /\ ~ st'[d].flight
                           /\ st'[d].outcome = disk[d].outcome
    BY <1>2, <2>1 DEF I!Cleared, Entry
  <2>3. IngestType'
    BY <2>1, <2>2 DEF IngestType
  <2>4. Down' /\ Recent'
    BY <1>1, <2>1, <2>2 DEF Down, Recent
  <2>5. \A d \in Docs : Count(batch, d) = 0
    <3>1. \A d \in Docs : {r \in Requests : batch[r].mark = d} = {}
      BY <1>1, <2>1 DEF Down
    <3>2. QED
      BY <3>1, FS_EmptySet DEF Count
  <2>6. Books'
    <3>1. crashes' # 0
      BY <2>1 DEF Down, IngestType
    <3>2. \A d \in Docs : Count(batch, d)' = 0
      BY <2>1, <2>5
    <3>3. \A d \in Docs : disk'[d].outcome = st'[d].outcome
      BY <2>1, <2>2
    <3>4. \A d \in Docs : st'[d].attempts \in Nat /\ st'[d].attempts <= dispatched'[d]
      BY <1>2, <2>1, <2>2 DEF Down, Entry
    <3>5. QED
      BY <2>2, <3>1, <3>2, <3>3, <3>4 DEF Books
  <2>7. QED
    BY <2>3, <2>4, <2>6
<1>11. CASE UNCHANGED iVars
  BY <1>11 DEF iVars, IngestType, Down, Recent, Books
<1>12. QED
  BY <1>3, <1>4, <1>5, <1>6, <1>7, <1>8, <1>9, <1>10, <1>11 DEF I!Next

\* The invariant, of every behaviour that is of this machine.
LEMMA IngestInvariant == Spec => [](which = "ingest" => IngestInv)
<1>1. Init => (which = "ingest" => IngestInv)
  <2> SUFFICES ASSUME I!Init PROVE IngestInv
    BY DEF Init
  <2>1. \A r \in Requests : Submission(batch[r]) /\ batch[r].mark = None
    BY DEF I!Init, I!Idle, Submission
  <2>2. \A d \in Docs : Count(batch, d) = 0
    <3>1. \A d \in Docs : {r \in Requests : batch[r].mark = d} = {}
      BY <2>1, PartsAssumption DEF I!IngestAssumption
    <3>2. QED
      BY <3>1, FS_EmptySet DEF Count
  <2>3. IngestType
    BY <2>1 DEF I!Init, I!NoEntry, IngestType, Entry
  <2>4. Down /\ Recent
    <3>1. None \notin Docs
      BY PartsAssumption DEF I!IngestAssumption
    <3>2. QED
      BY <2>1, <3>1 DEF I!Init, I!NoEntry, Down, Recent
  <2>5. Books
    BY <2>2 DEF I!Init, I!NoEntry, Books
  <2>6. QED
    BY <2>3, <2>4, <2>5 DEF IngestInv
<1>2. (which = "ingest" => IngestInv) /\ [Next]_vars => (which = "ingest" => IngestInv)'
  <2> SUFFICES ASSUME which = "ingest" => IngestInv, [Next]_vars, which' = "ingest"
               PROVE  IngestInv'
    OBVIOUS
  <2>1. which = "ingest"
    BY DEF Next, vars
  <2>2. QED
    BY <2>1, IngestMoves, IngestStep
<1>3. QED
  BY <1>1, <1>2, PTL DEF Spec

\* documents.go, state.go: with any number of submissions, crashes and saves that
\* fail, the page's counts, marks and outcomes are those of what was done.
THEOREM BooksKept == Spec => []IngestKeepsBooks
<1>1. (which = "ingest" => IngestInv) => IngestKeepsBooks
  <2>1. \A d : I!Marking(d) = Count(batch, d)
    BY IngestSets DEF I!Marking, Count
  <2>2. QED
    BY <2>1 DEF IngestKeepsBooks, I!IngestKeepsBooks, IngestInv, Books
<1>2. QED
  BY <1>1, IngestInvariant, PTL

-----------------------------------------------------------------------------
(* SleeperReads. *)

\* A step of the whole is one of the readers, or leaves them alone.
LEMMA ReadsMoves ==
    ASSUME which = "reads", [Next]_vars
    PROVE  which' = "reads" /\ [S!Next]_sVars
  BY DEF Next, vars, sVars

\* A start that was read is the kickoff, or that was moved since: then both were
\* no earlier than "limit".
Was(start, is, limit) == is = start \/ (start >= limit /\ is >= limit)

\* What a request brings: what was so when it was asked, no longer ago than a
\* fetch may take.  t, k, s: the tick, the kickoff, whether the game has started.
FetchOk(call_, t, k, s) ==
    /\ call_.asked \in Nat /\ call_.now <= call_.asked
    /\ call_.asked <= t /\ t <= call_.asked + MaxFetch
    /\ call_.todo[1][1] = "schedule" => call_.fresh \in BOOLEAN /\ (call_.fresh => s)
    /\ call_.todo[1][1] = "scores" =>
          call_.fresh \in Nat /\ Was(call_.fresh, k, call_.asked + Notice)

\* The list of reads is left open.
CallShape(call_) ==
    /\ DOMAIN call_ = {"stage", "tool", "todo", "now", "got", "asked", "fresh",
                       "locked", "truth", "index"}
    /\ call_ = [field \in DOMAIN call_ |-> call_[field]]
    /\ call_.got = [key \in S!Watched |-> call_.got[key]]

\* A kickoff moved after the call began was, and is, later than that.
GotOk(call_, k, s) ==
    /\ call_.got["schedule"] # None =>
          call_.got["schedule"] \in BOOLEAN /\ (call_.got["schedule"] => s)
    /\ call_.got["scores"] # None =>
          call_.got["scores"] \in Nat /\ Was(call_.got["scores"], k, call_.now + 1)

Honest(call_) == /\ call_.locked = FALSE => ~ call_.truth.then
                 /\ call_.locked = TRUE => call_.truth.by_now

CallOk(call_, t, k, s) ==
    /\ CallShape(call_)
    /\ call_.now \in Nat /\ call_.now <= t
    /\ call_.stage = "fetch" => FetchOk(call_, t, k, s)
    /\ GotOk(call_, k, s)
    /\ Honest(call_)

\* An entry expires before a kickoff moved since it was asked for can come.
EntriesOk(kept, t, k, s) ==
    /\ kept = [key \in S!Watched |-> kept[key]]
    /\ kept["schedule"] # None =>
          kept["schedule"].value \in BOOLEAN /\ (kept["schedule"].value => s)
    /\ kept["scores"] # None =>
          /\ kept["scores"].value \in Nat /\ kept["scores"].expires \in Nat
          /\ kept["scores"].expires <= t + Ttl["scores"]
          /\ Was(kept["scores"].value, k, kept["scores"].expires)

World(t, k, s) == t \in Nat /\ k \in Nat /\ s \in BOOLEAN /\ (s => k <= t)

ReadsInv == /\ World(tick, kickoff, started)
            /\ EntriesOk(entries, tick, kickoff, started)
            /\ DOMAIN call = Calls /\ call = [c \in Calls |-> call[c]]
            /\ \A c \in Calls : CallOk(call[c], tick, kickoff, started)

\* What the assumptions say of times.
LEMMA Times ==
    /\ MaxFetch \in Nat /\ Ttl["scores"] \in Nat /\ Notice > Ttl["scores"] + MaxFetch
    /\ None \notin Nat /\ None \notin BOOLEAN /\ Kickoffs \subseteq Nat
    /\ Notice \in Nat /\ None # TRUE /\ None # FALSE
    /\ "schedule" \in S!Watched /\ "scores" \in S!Watched
  BY PartsAssumption DEF S!ReadsAssumption, S!Watched

\* The reads are sound as time passes, the game starts and its kickoff is moved.
LEMMA WorldKeeps ==
    ASSUME NEW t, NEW k, NEW s, NEW t1, NEW k1, NEW s1, World(t, k, s),
           \/ t1 = t + 1 /\ k1 = k /\ s1 = s
           \/ t1 = t /\ k1 = k /\ s1 = TRUE /\ k <= t
           \/ t1 = t /\ s1 = s /\ k1 \in Nat /\ t + Notice <= k /\ t + Notice <= k1
           \/ t1 = t /\ k1 = k /\ s1 = s
    PROVE  /\ World(t1, k1, s1)
           /\ \A kept : EntriesOk(kept, t, k, s) => EntriesOk(kept, t1, k1, s1)
           /\ \A call_ : /\ CallOk(call_, t, k, s)
                         /\ call_.stage = "fetch" /\ t1 = t + 1 => t - call_.asked < MaxFetch
                         => CallOk(call_, t1, k1, s1)
<1> USE Times
<1>1. World(t1, k1, s1) /\ t \in Nat /\ t1 \in Nat /\ t <= t1 /\ t1 <= t + 1
  <2>1. t \in Nat /\ k \in Nat /\ s \in BOOLEAN /\ (s => k <= t)
    BY DEF World
  <2>2. CASE t1 = t + 1 /\ k1 = k /\ s1 = s
    BY <2>1, <2>2 DEF World
  <2>3. CASE t1 = t /\ k1 = k /\ s1 = TRUE /\ k <= t
    BY <2>1, <2>3 DEF World
  <2>4. CASE t1 = t /\ s1 = s /\ k1 \in Nat /\ t + Notice <= k /\ t + Notice <= k1
    <3>1. Notice >= 1
      OBVIOUS
    <3>2. ~ (k <= t)
      BY <2>1, <2>4, <3>1
    <3>3. s = FALSE
      BY <2>1, <3>2
    <3>4. QED
      BY <2>1, <2>4, <3>3 DEF World
  <2>5. CASE t1 = t /\ k1 = k /\ s1 = s
    BY <2>1, <2>5 DEF World
  <2>6. QED
    BY <2>2, <2>3, <2>4, <2>5
<1>2. \A v, limit \in Nat : Was(v, k, limit) /\ limit <= t + Notice => Was(v, k1, limit)
  BY DEF World, Was
<1>3. \A b \in BOOLEAN : (b => s) => (b => s1)
  BY DEF World
<1>4. ASSUME NEW kept, EntriesOk(kept, t, k, s) PROVE EntriesOk(kept, t1, k1, s1)
  <2>1. kept["scores"] # None =>
           /\ kept["scores"].expires <= t1 + Ttl["scores"]
           /\ Was(kept["scores"].value, k1, kept["scores"].expires)
    <3> SUFFICES ASSUME kept["scores"] # None
                 PROVE  /\ kept["scores"].expires <= t1 + Ttl["scores"]
                        /\ Was(kept["scores"].value, k1, kept["scores"].expires)
      OBVIOUS
    <3>1. /\ kept["scores"].value \in Nat /\ kept["scores"].expires \in Nat
          /\ kept["scores"].expires <= t + Ttl["scores"]
          /\ Was(kept["scores"].value, k, kept["scores"].expires)
      BY <1>4 DEF EntriesOk
    <3>2. QED
      BY <1>1, <1>2, <3>1
  <2>2. QED
    BY <1>3, <1>4, <2>1 DEF EntriesOk
<1>5. ASSUME NEW call_, CallOk(call_, t, k, s),
             call_.stage = "fetch" /\ t1 = t + 1 => t - call_.asked < MaxFetch
      PROVE  CallOk(call_, t1, k1, s1)
  <2>1. call_.stage = "fetch" => FetchOk(call_, t1, k1, s1)
    <3> SUFFICES ASSUME call_.stage = "fetch" PROVE FetchOk(call_, t1, k1, s1)
      OBVIOUS
    <3>1. FetchOk(call_, t, k, s) /\ call_.now \in Nat
      BY <1>5 DEF CallOk
    <3>2. call_.asked \in Nat /\ call_.asked <= t1 /\ t1 <= call_.asked + MaxFetch
      BY <1>1, <1>5, <3>1 DEF FetchOk
    <3>3. call_.todo[1][1] = "scores" => Was(call_.fresh, k1, call_.asked + Notice)
      BY <1>1, <1>2, <3>1, <3>2 DEF FetchOk
    <3>4. QED
      BY <1>3, <3>1, <3>2, <3>3 DEF FetchOk
  <2>2. GotOk(call_, k1, s1)
    <3>1. call_.now \in Nat /\ call_.now + 1 \in Nat /\ call_.now + 1 <= t + Notice
      BY <1>1, <1>5 DEF CallOk
    <3>2. QED
      BY <1>2, <1>3, <1>5, <3>1 DEF CallOk, GotOk
  <2>3. call_.now <= t1 /\ call_.now \in Nat
    BY <1>1, <1>5 DEF CallOk
  <2>4. QED
    BY <1>5, <2>1, <2>2, <2>3 DEF CallOk
<1>6. QED
  BY <1>1, <1>4, <1>5

\* What of a call a value that is got changes.
Gets(new, call_, key, value) ==
    /\ CallShape(new) /\ new.stage # "fetch" /\ new.now = call_.now
    /\ new.locked = call_.locked /\ new.truth = call_.truth
    /\ \A x \in S!Watched : new.got[x] = IF x = key THEN value ELSE call_.got[x]

\* A request that is through leaves its value with the call, and nothing else.
LEMMA GotGets ==
    ASSUME NEW call_, NEW new, NEW key, NEW value, NEW stage, CallShape(call_),
           new = [call_ EXCEPT !.stage = stage, !.todo = Tail(@), !.asked = None, !.fresh = None,
                               !.got = IF key \in S!Watched THEN [@ EXCEPT ![key] = value] ELSE @],
           stage # "fetch"
    PROVE  Gets(new, call_, key, value)
<1>1. /\ DOMAIN new = DOMAIN call_ /\ new = [field \in DOMAIN new |-> new[field]]
      /\ new.stage = stage /\ new.now = call_.now
      /\ new.locked = call_.locked /\ new.truth = call_.truth
      /\ new.got = IF key \in S!Watched THEN [call_.got EXCEPT ![key] = value] ELSE call_.got
  BY DEF CallShape
<1>2. /\ new.got = [x \in S!Watched |-> new.got[x]]
      /\ \A x \in S!Watched : new.got[x] = IF x = key THEN value ELSE call_.got[x]
  BY <1>1 DEF CallShape
<1>3. QED
  BY <1>1, <1>2 DEF CallShape, Gets

\* A value read from the cache while it lives, or just fetched, is sound for the
\* call, and the rest of the call stays as it is.
LEMMA GotIsOk ==
    ASSUME NEW call_, NEW t, NEW k, NEW s, NEW new, NEW key, NEW value,
           CallOk(call_, t, k, s), Gets(new, call_, key, value),
           key = "schedule" => value \in BOOLEAN /\ (value => s),
           key = "scores" => value \in Nat /\ Was(value, k, call_.now + 1)
    PROVE  CallOk(new, t, k, s)
<1>1. GotOk(new, k, s)
  BY Times DEF CallOk, GotOk, Gets
<1>2. QED
  BY <1>1 DEF CallOk, Gets, Honest

\* A step of one call that keeps it sound, the world and the cache.
LEMMA CallKeeps ==
    ASSUME ReadsInv, NEW c \in Calls, CallOk(call'[c], tick, kickoff, started),
           call' = [x \in Calls |-> IF x = c THEN call'[c] ELSE call[x]], UNCHANGED <<tick, kickoff, started>>,
           EntriesOk(entries, tick, kickoff, started)'
    PROVE  ReadsInv'
<1>1. /\ DOMAIN call' = Calls /\ call' = [x \in Calls |-> call'[x]]
      /\ \A x \in Calls : call'[x] = IF x = c THEN call'[c] ELSE call[x]
  BY DEF ReadsInv
<1>2. \A x \in Calls : CallOk(call'[x], tick, kickoff, started)
  BY <1>1 DEF ReadsInv
<1>3. QED
  BY <1>1, <1>2 DEF ReadsInv

\* Each step keeps what the calls and the cache hold true, or overtaken in time.
LEMMA ReadsStep == ASSUME ReadsInv, [S!Next]_sVars PROVE ReadsInv'
<1> USE Times
<1>1. /\ World(tick, kickoff, started) /\ EntriesOk(entries, tick, kickoff, started)
      /\ DOMAIN call = Calls /\ call = [c \in Calls |-> call[c]]
      /\ \A c \in Calls : CallOk(call[c], tick, kickoff, started)
  BY DEF ReadsInv
<1>2. ASSUME NEW c \in Calls, S!Begin(c) PROVE ReadsInv'
  <2>1. PICK tool, path :
             call' = [call EXCEPT ![c] = [S!Idle EXCEPT !.stage = "read", !.tool = tool,
                                             !.todo = path, !.now = tick]]
    BY <1>2 DEF S!Begin
  <2>2. UNCHANGED <<tick, kickoff, started, entries>>
    BY <1>2 DEF S!Begin, S!world
  <2>3. call' = [x \in Calls |-> IF x = c THEN call'[c] ELSE call[x]]
    BY <1>1, <2>1
  <2>4. /\ CallShape(call'[c]) /\ call'[c].stage = "read" /\ call'[c].now = tick
        /\ call'[c].got = [key \in S!Watched |-> None] /\ call'[c].locked = None
    BY <1>1, <2>1 DEF S!Idle, CallShape
  <2>5. CallOk(call'[c], tick, kickoff, started)
    <3>1. Honest(call'[c])
      BY <2>4 DEF Honest
    <3>2. GotOk(call'[c], kickoff, started)
      BY <2>4 DEF GotOk
    <3>3. QED
      BY <1>1, <2>4, <3>1, <3>2 DEF CallOk, World
  <2>6. QED
    BY <1>1, <2>2, <2>3, <2>5, CallKeeps
<1>3. ASSUME NEW c \in Calls, S!Hit(c) PROVE ReadsInv'
  <2> DEFINE key == call[c].todo[1][1]
             value == IF key \in S!Watched THEN entries[key].value ELSE None
             stage == IF key = "players" THEN "index" ELSE "read"
  <2>1. call' = [call EXCEPT ![c] = S!Got(c, value)]
    BY <1>3 DEF S!Hit, S!Key
  <2>2. UNCHANGED <<tick, kickoff, started, entries>>
    BY <1>3 DEF S!Hit, S!world
  <2>3. key \in S!Watched => entries[key] # None /\ tick < entries[key].expires
    BY <1>3 DEF S!Hit, S!Key, S!Live
  <2>4. /\ call' = [x \in Calls |-> IF x = c THEN call'[c] ELSE call[x]]
        /\ call'[c] = [call[c] EXCEPT
                 !.stage = stage, !.todo = Tail(@), !.asked = None, !.fresh = None,
                 !.got = IF key \in S!Watched THEN [@ EXCEPT ![key] = value] ELSE @]
    BY <1>1, <2>1 DEF S!Got, S!Key
  <2>5. stage # "fetch"
    OBVIOUS
  <2>6. key = "schedule" => value \in BOOLEAN /\ (value => started)
    BY <1>1, <2>3 DEF EntriesOk
  <2>7. key = "scores" => value \in Nat /\ Was(value, kickoff, call[c].now + 1)
    <3> SUFFICES ASSUME key = "scores" PROVE value \in Nat /\ Was(value, kickoff, call[c].now + 1)
      OBVIOUS
    <3>1. /\ value = entries["scores"].value /\ value \in Nat
          /\ entries["scores"].expires \in Nat /\ tick < entries["scores"].expires
          /\ Was(value, kickoff, entries["scores"].expires)
      BY <1>1, <2>3 DEF EntriesOk
    <3>2. call[c].now \in Nat /\ call[c].now <= tick /\ tick \in Nat /\ kickoff \in Nat
      BY <1>1 DEF CallOk, World
    <3> HIDE DEF value
    <3>3. QED
      BY <3>1, <3>2 DEF Was
  <2> HIDE DEF key, value, stage
  <2>8. CallOk(call'[c], tick, kickoff, started)
    <3>1. CallShape(call[c])
      BY <1>1 DEF CallOk
    <3>2. Gets(call'[c], call[c], key, value)
      BY <2>4, <2>5, <3>1, GotGets
    <3>3. QED
      BY <1>1, <2>6, <2>7, <3>2, GotIsOk
  <2>9. QED
    BY <1>1, <2>2, <2>4, <2>8, CallKeeps
<1>4. ASSUME NEW c \in Calls, S!Ask(c) PROVE ReadsInv'
  <2> DEFINE key == call[c].todo[1][1]
  <2>1. /\ call' = [call EXCEPT ![c].stage = "fetch", ![c].asked = tick, ![c].fresh = S!Values[key]]
        /\ UNCHANGED <<tick, kickoff, started, entries>>
    BY <1>4 DEF S!Ask, S!Key, S!world
  <2>2. call' = [x \in Calls |-> IF x = c THEN call'[c] ELSE call[x]]
    BY <1>1, <2>1
  <2>3. CallShape(call[c])
    BY <1>1 DEF CallOk
  <2>4. /\ CallShape(call'[c]) /\ call'[c].asked = tick /\ call'[c].fresh = S!Values[key]
        /\ call'[c].todo = call[c].todo /\ call'[c].now = call[c].now /\ call'[c].got = call[c].got
        /\ call'[c].locked = call[c].locked /\ call'[c].truth = call[c].truth
    BY <1>1, <2>1, <2>3 DEF CallShape
  <2>5. /\ key = "schedule" => S!Values[key] = started
        /\ key = "scores" => S!Values[key] = kickoff
    BY DEF S!Values
  <2>6. FetchOk(call'[c], tick, kickoff, started)
    BY <1>1, <2>4, <2>5 DEF FetchOk, CallOk, World, Was
  <2>7. CallOk(call'[c], tick, kickoff, started)
    BY <1>1, <2>4, <2>6 DEF CallOk, GotOk, Honest
  <2>8. QED
    BY <1>1, <2>1, <2>2, <2>7, CallKeeps
<1>5. ASSUME NEW c \in Calls, S!Store(c) PROVE ReadsInv'
  <2> DEFINE key == call[c].todo[1][1]
             value == call[c].fresh
             stage == IF key = "players" THEN "index" ELSE "read"
  <2>1. /\ call' = [call EXCEPT ![c] = S!Got(c, value)] /\ entries' = S!Stored(key, value)
        /\ UNCHANGED <<tick, kickoff, started>> /\ call[c].stage = "fetch"
    BY <1>5 DEF S!Store, S!Key, S!world
  <2>2. /\ call' = [x \in Calls |-> IF x = c THEN call'[c] ELSE call[x]]
        /\ call'[c] = [call[c] EXCEPT
                 !.stage = stage, !.todo = Tail(@), !.asked = None, !.fresh = None,
                 !.got = IF key \in S!Watched THEN [@ EXCEPT ![key] = value] ELSE @]
    BY <1>1, <2>1 DEF S!Got, S!Key
  <2>3. /\ call[c].asked \in Nat /\ call[c].now \in Nat /\ call[c].now <= call[c].asked
        /\ call[c].asked <= tick /\ tick <= call[c].asked + MaxFetch
        /\ key = "schedule" => value \in BOOLEAN /\ (value => started)
        /\ key = "scores" => value \in Nat /\ Was(value, kickoff, call[c].asked + Notice)
    BY <1>1, <2>1 DEF CallOk, FetchOk
  <2> HIDE DEF key, value, stage
  <2>4. tick \in Nat /\ kickoff \in Nat
    BY <1>1 DEF World
  <2>5. key = "scores" => /\ Was(value, kickoff, call[c].now + 1)
                          /\ Was(value, kickoff, tick + Ttl["scores"])
    BY <2>3, <2>4 DEF Was
  <2>6. CallOk(call'[c], tick, kickoff, started)
    <3>1. stage # "fetch"
      BY DEF stage
    <3>2. CallShape(call[c])
      BY <1>1 DEF CallOk
    <3>3. Gets(call'[c], call[c], key, value)
      BY <2>2, <3>1, <3>2, GotGets
    <3>4. QED
      BY <1>1, <2>3, <2>5, <3>3, GotIsOk
  <2>7. EntriesOk(entries', tick, kickoff, started)
    <3>1. \A x \in S!Watched : entries'[x] =
             IF x = key THEN [value |-> value, expires |-> tick + Ttl[key]]
             ELSE IF entries[x] # None /\ tick > entries[x].expires THEN None ELSE entries[x]
      BY <2>1 DEF S!Stored
    <3>2. entries' = [x \in S!Watched |-> entries'[x]]
      BY <2>1 DEF S!Stored
    <3>3. entries'["schedule"] # None =>
             entries'["schedule"].value \in BOOLEAN /\ (entries'["schedule"].value => started)
      <4>1. CASE key = "schedule"
        BY <2>3, <3>1, <4>1
      <4>2. CASE key # "schedule"
        BY <1>1, <3>1, <4>2 DEF EntriesOk
      <4>3. QED
        BY <4>1, <4>2
    <3>4. entries'["scores"] # None =>
             /\ entries'["scores"].value \in Nat /\ entries'["scores"].expires \in Nat
             /\ entries'["scores"].expires <= tick + Ttl["scores"]
             /\ Was(entries'["scores"].value, kickoff, entries'["scores"].expires)
      <4>1. CASE key = "scores"
        <5>1. entries'["scores"] = [value |-> value, expires |-> tick + Ttl["scores"]]
          BY <3>1, <4>1
        <5>2. QED
          BY <2>3, <2>4, <2>5, <4>1, <5>1
      <4>2. CASE key # "scores"
        <5>1. entries'["scores"] # None => entries'["scores"] = entries["scores"]
          BY <3>1, <4>2
        <5>2. QED
          BY <1>1, <5>1 DEF EntriesOk
      <4>3. QED
        BY <4>1, <4>2
    <3>5. QED
      BY <3>2, <3>3, <3>4 DEF EntriesOk
  <2>8. QED
    BY <1>1, <2>1, <2>2, <2>6, <2>7, CallKeeps
<1>6. ASSUME NEW c \in Calls, S!Fail(c) \/ S!Index(c) \/ S!Resolve(c) PROVE ReadsInv'
  <2>1. /\ UNCHANGED <<tick, kickoff, started, entries>>
        /\ call' = [x \in Calls |-> IF x = c THEN call'[c] ELSE call[x]]
    BY <1>1, <1>6 DEF S!Fail, S!Index, S!Resolve, S!world
  <2>2. CallShape(call[c])
    BY <1>1 DEF CallOk
  <2>3. /\ CallShape(call'[c]) /\ call'[c].stage # "fetch"
        /\ call'[c].now = call[c].now /\ call'[c].got = call[c].got
        /\ call'[c].locked = call[c].locked /\ call'[c].truth = call[c].truth
    <3>1. CASE S!Fail(c)
      <4> DEFINE failed_ == [call EXCEPT ![c] =
                   [@ EXCEPT !.stage = "failed", !.fresh = None, !.asked = None]]
                 without_ == [call EXCEPT ![c] =
                   [@ EXCEPT !.stage = "read", !.asked = None, !.fresh = None,
                             !.todo = IF S!Need(c) = "slate" THEN Tail(Tail(@)) ELSE Tail(@)]]
      <4>1. call' = failed_ \/ call' = without_
        BY <3>1 DEF S!Fail
      <4>2. CASE call' = failed_
        BY <1>1, <2>2, <4>2 DEF CallShape
      <4>3. CASE call' = without_
        BY <1>1, <2>2, <4>3 DEF CallShape
      <4>4. QED
        BY <4>1, <4>2, <4>3
    <3>2. CASE S!Index(c)
      BY <1>1, <2>2, <3>2 DEF CallShape, S!Index
    <3>3. CASE S!Resolve(c)
      BY <1>1, <2>2, <3>3 DEF CallShape, S!Resolve
    <3>4. QED
      BY <1>6, <3>1, <3>2, <3>3
  <2>4. CallOk(call'[c], tick, kickoff, started)
    BY <1>1, <2>3 DEF CallOk, GotOk, Honest
  <2>5. QED
    BY <1>1, <2>1, <2>4, CallKeeps
<1>7. ASSUME NEW c \in Calls, S!Answer(c) PROVE ReadsInv'
  <2> DEFINE got_ == call[c].got
             answer_ == IF got_["schedule"] = None THEN None
                        ELSE S!Locked(got_["schedule"], got_["scores"], call[c].now)
  <2>1. /\ call' = [call EXCEPT ![c].stage = "done", ![c].locked = answer_,
                ![c].truth = [then |-> kickoff <= call[c].now, by_now |-> kickoff <= tick]]
        /\ UNCHANGED <<tick, kickoff, started, entries>>
    BY <1>7 DEF S!Answer, S!world
  <2>2. call' = [x \in Calls |-> IF x = c THEN call'[c] ELSE call[x]]
    BY <1>1, <2>1
  <2>3. CallShape(call[c]) /\ GotOk(call[c], kickoff, started) /\ call[c].now \in Nat /\ call[c].now <= tick
    BY <1>1 DEF CallOk
  <2>4. /\ CallShape(call'[c]) /\ call'[c].stage = "done"
        /\ call'[c].now = call[c].now /\ call'[c].got = call[c].got /\ call'[c].locked = answer_
        /\ call'[c].truth = [then |-> kickoff <= call[c].now, by_now |-> kickoff <= tick]
    BY <1>1, <2>1, <2>3 DEF CallShape
  <2>5. /\ answer_ = FALSE => ~ (kickoff <= call[c].now)
        /\ answer_ = TRUE => kickoff <= tick
    <3>1. World(tick, kickoff, started)
      BY <1>1
    <3>2. CASE got_["schedule"] = None
      BY <3>2
    <3>3. CASE got_["schedule"] # None /\ got_["scores"] = None
      <4>1. answer_ = (IF got_["schedule"] THEN TRUE ELSE None)
        BY <3>3 DEF S!Locked
      <4>2. QED
        BY <2>3, <3>1, <3>3, <4>1 DEF GotOk, World
    <3>4. CASE got_["schedule"] # None /\ got_["scores"] # None
      <4>1. answer_ = (got_["schedule"] \/ got_["scores"] <= call[c].now)
        BY <3>4 DEF S!Locked
      <4>2. /\ got_["schedule"] \in BOOLEAN /\ (got_["schedule"] => kickoff <= tick)
            /\ got_["scores"] \in Nat /\ kickoff \in Nat /\ tick \in Nat
            /\ kickoff = got_["scores"]
               \/ (got_["scores"] >= call[c].now + 1 /\ kickoff >= call[c].now + 1)
        BY <2>3, <3>1, <3>4 DEF GotOk, World, Was
      <4>3. call[c].now \in Nat /\ call[c].now <= tick
        BY <2>3
      <4>4. CASE got_["schedule"] = TRUE
        BY <4>1, <4>2, <4>4
      <4>5. CASE got_["schedule"] = FALSE
        <5>1. answer_ = (got_["scores"] <= call[c].now)
          BY <4>1, <4>5
        <5> HIDE DEF answer_, got_
        <5>2. CASE got_["scores"] <= call[c].now
          <6>1. answer_ = TRUE
            BY <5>1, <5>2
          <6>2. kickoff <= tick
            BY <4>2, <4>3, <5>2
          <6>3. QED
            BY <6>1, <6>2
        <5>3. CASE ~ (got_["scores"] <= call[c].now)
          BY <4>2, <4>3, <5>1, <5>3
        <5>4. QED
          BY <5>2, <5>3
      <4>6. QED
        BY <4>2, <4>4, <4>5
    <3>5. QED
      BY <3>2, <3>3, <3>4
  <2> HIDE DEF answer_
  <2>6. Honest(call'[c])
    <3>1. call'[c].truth.then = (kickoff <= call[c].now) /\ call'[c].truth.by_now = (kickoff <= tick)
      BY <2>4
    <3>2. QED
      BY <2>4, <2>5, <3>1 DEF Honest
  <2>7. CallOk(call'[c], tick, kickoff, started)
    BY <2>3, <2>4, <2>6 DEF CallOk, GotOk
  <2>8. QED
    BY <1>1, <2>1, <2>2, <2>7, CallKeeps
<1>8. CASE S!Tick \/ S!Starts \/ S!Move \/ S!NewDump \/ UNCHANGED sVars
  <2>1. UNCHANGED <<call, entries>>
    BY <1>8 DEF S!Tick, S!Starts, S!Move, S!NewDump, sVars
  <2>2. \/ tick' = tick + 1 /\ kickoff' = kickoff /\ started' = started
        \/ tick' = tick /\ kickoff' = kickoff /\ started' = TRUE /\ kickoff <= tick
        \/ /\ tick' = tick /\ started' = started /\ kickoff' \in Nat
           /\ tick + Notice <= kickoff /\ tick + Notice <= kickoff'
        \/ tick' = tick /\ kickoff' = kickoff /\ started' = started
    BY <1>8 DEF S!Tick, S!Starts, S!Move, S!NewDump, sVars
  <2>3. ASSUME NEW c \in Calls, call[c].stage = "fetch", tick' = tick + 1
        PROVE  tick - call[c].asked < MaxFetch
    <3>1. tick \in Nat /\ call[c].asked \in Nat /\ call[c].asked # None
      BY <1>1, <2>3 DEF CallOk, FetchOk, World
    <3>2. S!Tick
      BY <1>8, <2>3, <3>1 DEF S!Starts, S!Move, S!NewDump, sVars
    <3>3. QED
      BY <3>1, <3>2 DEF S!Tick
  <2>4. /\ World(tick', kickoff', started') /\ EntriesOk(entries, tick', kickoff', started')
        /\ \A c \in Calls : CallOk(call[c], tick', kickoff', started')
    BY <1>1, <2>2, <2>3, WorldKeeps
  <2>5. QED
    BY <1>1, <2>1, <2>4 DEF ReadsInv
<1>9. QED
  BY <1>2, <1>3, <1>4, <1>5, <1>6, <1>7, <1>8 DEF S!Next

\* The invariant, of every behaviour that is of this machine.
LEMMA ReadsInvariant == Spec => [](which = "reads" => ReadsInv)
<1>1. Init => (which = "reads" => ReadsInv)
  <2> SUFFICES ASSUME S!Init PROVE ReadsInv
    BY DEF Init
  <2>1. /\ World(tick, kickoff, started) /\ EntriesOk(entries, tick, kickoff, started)
        /\ DOMAIN call = Calls /\ call = [c \in Calls |-> call[c]]
    BY Times DEF S!Init, World, EntriesOk
  <2>2. ASSUME NEW c \in Calls PROVE CallOk(call[c], tick, kickoff, started)
    <3>1. call[c] = S!Idle /\ tick = 0
      BY DEF S!Init
    <3>2. /\ CallShape(call[c]) /\ call[c].stage # "fetch" /\ call[c].now = 0
          /\ call[c].got = [key \in S!Watched |-> None] /\ call[c].locked = None
      BY <3>1 DEF S!Idle, CallShape
    <3>3. Honest(call[c])
      BY <3>2, Times DEF Honest
    <3>4. QED
      BY <3>1, <3>2, <3>3, Times DEF CallOk, GotOk
  <2>3. QED
    BY <2>1, <2>2 DEF ReadsInv
<1>2. (which = "reads" => ReadsInv) /\ [Next]_vars => (which = "reads" => ReadsInv)'
  <2> SUFFICES ASSUME which = "reads" => ReadsInv, [Next]_vars, which' = "reads"
               PROVE  ReadsInv'
    OBVIOUS
  <2>1. which = "reads"
    BY DEF Next, vars
  <2>2. QED
    BY <2>1, ReadsMoves, ReadsStep
<1>3. QED
  BY <1>1, <1>2, PTL DEF Spec

\* tools_league.go: for any times to live shorter than the notice a kickoff's move
\* is given, less what a fetch may take, the lock shown is the game's.
THEOREM LocksHonest == Spec => []LockIsHonest
<1>1. (which = "reads" => ReadsInv) => LockIsHonest
  BY DEF LockIsHonest, S!LockIsHonest, ReadsInv, CallOk, Honest
<1>2. QED
  BY <1>1, ReadsInvariant, PTL

-----------------------------------------------------------------------------
(* SleeperRuns. *)

\* A step of the whole is one of the runs, or leaves them alone.
LEMMA RunsMoves ==
    ASSUME which = "runs", [Next]_vars
    PROVE  which' = "runs" /\ [B!Next]_bVars
  BY DEF Next, vars, bVars

EndOf == [chat : B!Chats, done : BOOLEAN]
PostOf == [stage : {"idle", "mark", "dispatch", "done"}, chat : B!Chats \cup {None},
           next : B!Chats \cup {None}]

RunsType == /\ turns \in [B!Chats -> Nat] /\ due \in Seq(EndOf)
            /\ running \subseteq B!Chats /\ req \in [Requests -> PostOf]
            /\ \A r \in Requests : req[r].stage \in {"mark", "dispatch"} => req[r].chat \in B!Chats

RunsInv == RunsType /\ B!NoPhantomBadge

\* The list without its i-th.
Without(s, i) == SubSeq(s, 1, i - 1) \o SubSeq(s, i + 1, Len(s))

\* Taking an end out of the list leaves the others in it.
LEMMA EndsLeft ==
    ASSUME NEW s \in Seq(EndOf), NEW i \in DOMAIN s
    PROVE  /\ Without(s, i) \in Seq(EndOf)
           /\ \A j \in DOMAIN s \ {i} : \E k \in DOMAIN Without(s, i) : Without(s, i)[k] = s[j]
<1> DEFINE before == SubSeq(s, 1, i - 1)
           after == SubSeq(s, i + 1, Len(s))
<1>1. Len(s) \in Nat /\ i \in 1 .. Len(s) /\ DOMAIN s = 1 .. Len(s)
  OBVIOUS
<1>2. /\ before \in Seq(EndOf) /\ Len(before) = i - 1
      /\ \A j \in 1 .. i - 1 : before[j] = s[j]
  BY <1>1, SubSeqProperties
<1>3. /\ after \in Seq(EndOf) /\ Len(after) = Len(s) - i
      /\ \A j \in 1 .. Len(s) - i : after[j] = s[i + j]
  BY <1>1, SubSeqProperties
<1>4. Without(s, i) = before \o after
  BY DEF Without
<1> HIDE DEF before, after
<1> DEFINE both == before \o after
<1>5. /\ both \in Seq(EndOf) /\ Len(both) = Len(before) + Len(after)
      /\ \A k \in 1 .. Len(before) + Len(after) :
            both[k] = IF k <= Len(before) THEN before[k] ELSE after[k - Len(before)]
  BY <1>2, <1>3, ConcatProperties
<1> HIDE DEF both
<1>6. ASSUME NEW j \in DOMAIN s \ {i}
      PROVE  \E k \in DOMAIN both : both[k] = s[j]
  <2>1. DOMAIN both = 1 .. Len(s) - 1 /\ j \in 1 .. Len(s) /\ j # i
    BY <1>1, <1>2, <1>3, <1>5
  <2>2. \A k \in 1 .. Len(s) - 1 : both[k] = IF k <= i - 1 THEN before[k] ELSE after[k - (i - 1)]
    BY <1>1, <1>2, <1>3, <1>5
  <2>3. CASE j < i
    <3>1. j \in 1 .. i - 1 /\ j \in 1 .. Len(s) - 1 /\ j <= i - 1
      BY <1>1, <2>1, <2>3
    <3>2. QED
      BY <1>2, <2>1, <2>2, <3>1
  <2>4. CASE j > i
    <3>1. /\ j - 1 \in 1 .. Len(s) - 1 /\ ~ (j - 1 <= i - 1) /\ (j - 1) - (i - 1) = j - i
          /\ j - i \in 1 .. Len(s) - i /\ i + (j - i) = j
      BY <1>1, <2>1, <2>4
    <3>2. both[j - 1] = s[j]
      BY <1>3, <2>2, <3>1
    <3>3. QED
      BY <2>1, <3>1, <3>2
  <2>5. QED
    BY <1>1, <2>1, <2>3, <2>4
<1>7. QED
  BY <1>4, <1>5, <1>6 DEF both

\* Each step leaves behind every mark something that takes it away.
LEMMA RunsStep == ASSUME RunsInv, [B!Next]_bVars PROVE RunsInv'
<1> USE DEF RunsInv
<1>1. B!Notes \in B!Chats /\ \A p \in Posts : B!LocalID(p) \in B!Chats
  BY DEF B!Chats
<1>2. ASSUME NEW r \in Requests, B!Post(r) PROVE RunsInv'
  <2>1. PICK p \in Posts :
             req' = [req EXCEPT ![r] = [stage |-> "mark", chat |-> B!LocalID(p),
                                        next |-> IF p.job = "trends" THEN B!Notes ELSE None]]
    BY <1>2 DEF B!Post
  <2>2. UNCHANGED <<turns, due, running>> /\ req[r].stage = "idle"
    BY <1>2 DEF B!Post
  <2>3. RunsType'
    BY <1>1, <2>1, <2>2 DEF RunsType, PostOf
  <2>4. \A c : B!InFlight(c) => B!InFlight(c)'
    BY <2>1, <2>2 DEF RunsType, B!InFlight
  <2>5. B!NoPhantomBadge'
    BY <2>2, <2>4 DEF B!NoPhantomBadge, B!Ending
  <2>6. QED
    BY <2>3, <2>5
<1>3. ASSUME NEW r \in Requests, B!Mark(r) PROVE RunsInv'
  <2>1. /\ req[r].stage = "mark" /\ running' = running \cup {req[r].chat}
        /\ req' = [req EXCEPT ![r].stage = "dispatch"] /\ UNCHANGED <<turns, due>>
    BY <1>3 DEF B!Mark
  <2>2. RunsType'
    BY <2>1 DEF RunsType, PostOf
  <2>3. B!InFlight(req[r].chat)'
    BY <2>1 DEF RunsType, PostOf, B!InFlight
  <2>4. \A c : B!InFlight(c) => B!InFlight(c)'
    BY <2>1 DEF RunsType, B!InFlight
  <2>5. B!NoPhantomBadge'
    BY <2>1, <2>3, <2>4 DEF B!NoPhantomBadge, B!Ending
  <2>6. QED
    BY <2>2, <2>5
<1>4. ASSUME NEW r \in Requests, B!Accept(r) PROVE RunsInv'
  <2> DEFINE c == req[r].chat
  <2>1. PICK more \in {0, 1} : /\ turns[c] = 0 => more = 1
                               /\ turns' = [turns EXCEPT ![c] = @ + more]
    BY <1>4 DEF B!Accept
  <2>2. /\ req[r].stage = "dispatch" /\ req' = [req EXCEPT ![r] = B!After(@)]
        /\ UNCHANGED <<due, running>>
    BY <1>4 DEF B!Accept
  <2>3. c \in B!Chats
    BY <2>2 DEF RunsType
  <2> HIDE DEF c
  <2>4. turns' \in [B!Chats -> Nat] /\ turns'[c] > 0 /\ \A x \in B!Chats : turns[x] > 0 => turns'[x] > 0
    BY <2>1, <2>3 DEF RunsType
  <2>5. /\ B!After(req[r]) \in PostOf
        /\ B!After(req[r]).stage = "mark" => B!After(req[r]).chat \in B!Chats
        /\ B!After(req[r]).stage # "dispatch"
    BY DEF RunsType, PostOf, B!After
  <2>6. RunsType'
    BY <2>2, <2>4, <2>5 DEF RunsType
  <2>7. \A x : x # c /\ B!InFlight(x) => B!InFlight(x)'
    BY <2>2 DEF RunsType, B!InFlight, c
  <2>8. B!NoPhantomBadge'
    BY <2>2, <2>3, <2>4, <2>7 DEF B!NoPhantomBadge, B!Ending, RunsType
  <2>9. QED
    BY <2>6, <2>8
<1>5. ASSUME NEW r \in Requests, B!Refuse(r) PROVE RunsInv'
  <2>1. /\ req[r].stage = "dispatch" /\ running' = running \ {req[r].chat}
        /\ req' = [req EXCEPT ![r] = [@ EXCEPT !.stage = "done", !.chat = None]]
        /\ UNCHANGED <<turns, due>>
    BY <1>5 DEF B!Refuse, B!Refused
  <2>2. RunsType'
    BY <2>1 DEF RunsType, PostOf
  <2>3. \A c : c # req[r].chat /\ B!InFlight(c) => B!InFlight(c)'
    BY <2>1 DEF RunsType, B!InFlight
  <2>4. B!NoPhantomBadge'
    BY <2>1, <2>3 DEF B!NoPhantomBadge, B!Ending
  <2>5. QED
    BY <2>2, <2>4
<1>6. ASSUME NEW c \in B!Chats, B!End(c) PROVE RunsInv'
  <2>1. PICK done \in BOOLEAN : due' = Append(due, [chat |-> c, done |-> done])
    BY <1>6 DEF B!End
  <2>2. turns[c] > 0 /\ turns' = [turns EXCEPT ![c] = @ - 1] /\ UNCHANGED <<running, req>>
    BY <1>6 DEF B!End
  <2>3. /\ due' \in Seq(EndOf) /\ DOMAIN due' = 1 .. Len(due) + 1
        /\ due'[Len(due) + 1] = [chat |-> c, done |-> done]
        /\ \A i \in DOMAIN due : i \in DOMAIN due' /\ due'[i] = due[i]
    BY <2>1 DEF RunsType, EndOf
  <2>4. Len(due) + 1 \in DOMAIN due'
    BY <2>3 DEF RunsType
  <2>5. RunsType'
    BY <2>2, <2>3 DEF RunsType
  <2>6. B!Ending(c)' /\ \A x : B!Ending(x) => B!Ending(x)'
    BY <2>3, <2>4 DEF B!Ending
  <2>7. \A x \in B!Chats \ {c} : turns'[x] = turns[x]
    BY <2>2 DEF RunsType
  <2>8. B!NoPhantomBadge'
    BY <2>2, <2>6, <2>7 DEF B!NoPhantomBadge, B!InFlight, RunsType
  <2>9. QED
    BY <2>5, <2>8
<1>7. ASSUME NEW i \in DOMAIN due, B!RunEnded(i) PROVE RunsInv'
  <2>1. /\ running' = running \ {due[i].chat} /\ due' = Without(due, i)
        /\ UNCHANGED <<turns, req>>
    BY <1>7 DEF B!RunEnded, Without
  <2>2. /\ due' \in Seq(EndOf)
        /\ \A j \in DOMAIN due \ {i} : \E k \in DOMAIN due' : due'[k] = due[j]
    BY <2>1, EndsLeft DEF RunsType
  <2>3. \A x : x # due[i].chat /\ B!Ending(x) => B!Ending(x)'
    BY <2>2 DEF B!Ending
  <2>4. B!NoPhantomBadge'
    BY <2>1, <2>3 DEF B!NoPhantomBadge, B!InFlight
  <2>5. RunsType'
    BY <2>1, <2>2 DEF RunsType
  <2>6. QED
    BY <2>4, <2>5
<1>8. CASE (\E c \in B!Chats : B!DecideRun(c)) \/ UNCHANGED bVars
  <2>1. UNCHANGED <<turns, due, running, req>>
    BY <1>8 DEF B!DecideRun, bVars
  <2>2. QED
    BY <2>1 DEF RunsType, B!NoPhantomBadge, B!InFlight, B!Ending
<1>9. QED
  BY <1>2, <1>3, <1>4, <1>5, <1>6, <1>7, <1>8 DEF B!Next

\* run.go: with any number of POSTs, chats and runs, a mark that is left has
\* something to take it away.
THEOREM BadgesReal == Spec => []NoPhantomBadge
<1>1. Init => (which = "runs" => RunsInv)
  BY DEF Init, B!Init, B!Idle, RunsInv, RunsType, PostOf, B!NoPhantomBadge
<1>2. (which = "runs" => RunsInv) /\ [Next]_vars => (which = "runs" => RunsInv)'
  <2> SUFFICES ASSUME which = "runs" => RunsInv, [Next]_vars, which' = "runs"
               PROVE  RunsInv'
    OBVIOUS
  <2>1. which = "runs"
    BY DEF Next, vars
  <2>2. QED
    BY <2>1, RunsMoves, RunsStep
<1>3. (which = "runs" => RunsInv) => NoPhantomBadge
  BY DEF RunsInv, NoPhantomBadge
<1>4. QED
  BY <1>1, <1>2, <1>3, PTL DEF Spec

\* What is asked of an artifact is what it advises.
Advised(a, requests) ==
    \A i \in DOMAIN requests :
        LET q == requests[i]
        IN  /\ q.point = "trade_accept" =>
                  q.give \subseteq a.my_roster /\ q.get \subseteq a.partner_roster
            /\ q.point = "lineup_change" =>
                  \E s \in B!Range(a.starters) :
                      q.current = s.replaces /\ q.proposed = s.player /\ s.replaces # None
            /\ q.point = "waiver_priority" => \A j \in DOMAIN requests :
                  LET p == requests[j]
                      rank(x) == (CHOOSE c \in B!Range(a.candidates) : c.player = x).rank
                  IN  p.point = "waiver_priority" /\ rank(q.add) < rank(p.add)
                         => /\ q.baseline >= p.baseline
                            /\ rank(p.add) <= B!PriorityLevels => q.baseline > p.baseline

\* decisions.go 98: what is asked of a lineup is what it advises.
LEMMA LineupAdvice ==
    ASSUME NEW a, a.starters \in Seq(B!Range(a.starters))
    PROVE  Advised(a, B!lineupRequests(a))
<1> DEFINE J == {i \in DOMAIN a.starters : a.starters[i].replaces # None}
           rows == SelectAt(a.starters, J)
<1>1. \A k \in 1 .. Len(rows) : \E m \in J \cap 1 .. Len(a.starters) : rows[k] = a.starters[m]
  <2> HIDE DEF J
  <2> QED BY SelectAtElements
<1>2. rows \in Seq(B!Range(a.starters))
  <2> HIDE DEF J
  <2> QED BY SelectAtElements
<1>3. B!lineupRequests(a) = [i \in DOMAIN rows |->
           [point |-> "lineup_change", baseline |-> TRUE,
            current |-> rows[i].replaces, proposed |-> rows[i].player]]
  BY SameSelect DEF B!lineupRequests
<1>4. DOMAIN rows = 1 .. Len(rows)
  BY <1>2
<1>5. \A k \in 1 .. Len(rows) : rows[k] \in B!Range(a.starters) /\ rows[k].replaces # None
  BY <1>1 DEF B!Range
<1> HIDE DEF rows
<1> QED BY <1>3, <1>4, <1>5 DEF Advised

\* decisions.go 177: what is asked of trade talks is of offers between the two rosters.
LEMMA TradeAdvice ==
    ASSUME NEW a, B!IsTalk(a)
    PROVE  Advised(a, B!tradeRequests(a))
<1> DEFINE J == {i \in DOMAIN a.offers : a.offers[i].verdict \in {"send", "decline", "counter"}}
           judged == SelectAt(a.offers, J)
<1>1. a.offers \in Seq(B!Range(a.offers))
  BY DEF B!IsTalk
<1>2. judged \in Seq(B!Range(a.offers))
  <2> HIDE DEF J
  <2> QED BY <1>1, SelectAtElements
<1>3. B!tradeRequests(a) = [i \in DOMAIN judged |->
           [point |-> "trade_accept", baseline |-> B!userSide(judged[i], a).verdict = "send",
            give |-> B!userSide(judged[i], a).give, get |-> B!userSide(judged[i], a).get]]
  BY SameSelect DEF B!tradeRequests
<1>4. DOMAIN judged = 1 .. Len(judged) /\ \A k \in 1 .. Len(judged) : judged[k] \in B!Range(a.offers)
  <2> HIDE DEF J
  <2> QED BY <1>1, SelectAtElements
<1>5. ASSUME NEW o \in B!Range(a.offers)
      PROVE  B!userSide(o, a).give \subseteq a.my_roster /\ B!userSide(o, a).get \subseteq a.partner_roster
  <2>1. /\ o.give # {} /\ a.my_roster \cap a.partner_roster = {}
        /\ \/ o.give \subseteq a.my_roster /\ o.get \subseteq a.partner_roster
           \/ o.give \subseteq a.partner_roster /\ o.get \subseteq a.my_roster
    BY DEF B!IsTalk
  <2> QED BY <2>1 DEF B!userSide
<1> HIDE DEF judged
<1> QED BY <1>3, <1>4, <1>5 DEF Advised

\* decisions.go 134: what is asked of waivers ranks them as the advice does.
LEMMA WaiverAdvice ==
    ASSUME NEW a, B!IsWaivers(a)
    PROVE  Advised(a, B!waiverRequests(a))
<1> DEFINE C == B!Range(a.candidates)
           J == {i \in DOMAIN a.candidates : a.candidates[i].rank > 0}
           ranked == SelectAt(a.candidates, J)
           pickup(c, yes) == [point |-> "waiver_pickup", baseline |-> yes, add |-> c.player]
           others(c) == {o.player : o \in B!Range(ranked) \ {c}}
           adds == [i \in DOMAIN a.candidates |-> pickup(a.candidates[i], TRUE)]
           passed == [i \in DOMAIN a.also_checked |-> pickup(a.also_checked[i], FALSE)]
           order == [i \in DOMAIN ranked |->
                        [point |-> "waiver_priority", baseline |-> B!Level(ranked[i].rank),
                         add |-> ranked[i].player, others |-> others(ranked[i])]]
           last == IF Len(ranked) < 2 THEN <<>> ELSE order
           all == adds \o passed \o last
           rank(x) == (CHOOSE c \in C : c.player = x).rank
<1>1. /\ a.candidates \in Seq(C) /\ a.also_checked \in Seq(B!Range(a.also_checked))
      /\ \A c, o \in C : c.rank \in Int /\ (c.player = o.player => c = o)
  BY DEF B!IsWaivers
<1>2. /\ ranked \in Seq(C) /\ DOMAIN ranked = 1 .. Len(ranked)
      /\ \A k \in 1 .. Len(ranked) : ranked[k] \in C
  <2> HIDE DEF J, C
  <2> QED BY <1>1, SelectAtElements
<1>3. B!waiverRequests(a) = all
  BY SameSelect DEF B!waiverRequests
<1>4. \E H : adds \in Seq(H)
  <2>1. Len(a.candidates) \in Nat /\ DOMAIN a.candidates = 1 .. Len(a.candidates)
    BY <1>1
  <2>2. adds = [i \in 1 .. Len(a.candidates) |-> adds[i]]
    BY <2>1
  <2> HIDE DEF adds
  <2> QED BY <2>1, <2>2, IsASequence
<1>5. \E H : passed \in Seq(H)
  <2>1. Len(a.also_checked) \in Nat /\ DOMAIN a.also_checked = 1 .. Len(a.also_checked)
    BY <1>1
  <2>2. passed = [i \in 1 .. Len(a.also_checked) |-> passed[i]]
    BY <2>1
  <2> HIDE DEF passed
  <2> QED BY <2>1, <2>2, IsASequence
<1>6. \E H : last \in Seq(H)
  <2>1. Len(ranked) \in Nat
    BY <1>2
  <2>2. order = [i \in 1 .. Len(ranked) |-> order[i]]
    BY <1>2
  <2>3. \E H : order \in Seq(H)
    <3> HIDE DEF order, ranked
    <3> QED BY <2>1, <2>2, IsASequence
  <2> HIDE DEF order, ranked
  <2> QED BY <2>3
<1>7. ASSUME NEW i \in DOMAIN all
      PROVE  \/ all[i].point = "waiver_pickup"
             \/ \E c \in C : /\ all[i].point = "waiver_priority"
                             /\ all[i].baseline = B!Level(c.rank) /\ all[i].add = c.player
  <2>1. \A j \in DOMAIN adds : adds[j].point = "waiver_pickup"
    OBVIOUS
  <2>2. \A j \in DOMAIN passed : passed[j].point = "waiver_pickup"
    OBVIOUS
  <2>3. \A j \in DOMAIN last : /\ last[j].point = "waiver_priority" 
           /\ \E c \in C : last[j].baseline = B!Level(c.rank) /\ last[j].add = c.player
    <3> HIDE DEF ranked, C
    <3> QED BY <1>2
  <2> HIDE DEF adds, passed, last
  <2>4. \/ \E j \in DOMAIN adds : all[i] = adds[j] 
        \/ \E j \in DOMAIN passed : all[i] = passed[j]
        \/ \E j \in DOMAIN last : all[i] = last[j]
    BY <1>4, <1>5, <1>6
  <2> QED BY <2>1, <2>2, <2>3, <2>4
<1>8. ASSUME NEW c \in C PROVE rank(c.player) = c.rank
  <2>1. \A o \in C : o.player = c.player <=> o = c
    BY <1>1
  <2> HIDE DEF C
  <2>2. (CHOOSE o \in C : o.player = c.player) = c
    BY <2>1
  <2> QED BY <2>2
<1>9. ASSUME NEW c \in C, NEW o \in C, c.rank < o.rank
      PROVE  /\ B!Level(c.rank) >= B!Level(o.rank)
             /\ o.rank <= B!PriorityLevels => B!Level(c.rank) > B!Level(o.rank)
  BY <1>1, <1>9 DEF B!Level, B!PriorityLevels
<1> HIDE DEF all, C
<1>10. ASSUME NEW i \in DOMAIN all, NEW j \in DOMAIN all, all[i].point = "waiver_priority",
              all[j].point = "waiver_priority", rank(all[i].add) < rank(all[j].add)
       PROVE  /\ all[i].baseline >= all[j].baseline
              /\ rank(all[j].add) <= B!PriorityLevels => all[i].baseline > all[j].baseline
  <2>1. PICK c \in C : all[i].baseline = B!Level(c.rank) /\ all[i].add = c.player
    BY <1>7, <1>10
  <2>2. PICK o \in C : all[j].baseline = B!Level(o.rank) /\ all[j].add = o.player
    BY <1>7, <1>10
  <2>3. rank(all[i].add) = c.rank /\ rank(all[j].add) = o.rank
    <3> HIDE DEF rank
    <3> QED BY <2>1, <2>2, <1>8
  <2> HIDE DEF rank
  <2> QED BY <2>1, <2>2, <2>3, <1>9, <1>10
<1>11. \A i \in DOMAIN all : all[i].point \notin {"trade_accept", "lineup_change"}
  BY <1>7
<1>12. Advised(a, all)
  BY <1>10, <1>11 DEF Advised, C
<1> QED BY <1>3, <1>12

\* Who decides has an artifact that was asked about; what was asked is what it advises.
AdviceInv ==
    /\ artifact = [c \in B!Chats |-> artifact[c]]
    /\ \A c \in B!Chats : artifact[c] \in Artifacts[c[2]] \cup {None}
    /\ \A c \in deciding : c \in B!Chats /\ B!AskedAbout(c)
    /\ advice # None => Advised(advice.from, advice.asks)

\* A chat that decides has asked what its artifact advises.
LEMMA AdviceStep == ASSUME RunsType, AdviceInv, [B!Next]_bVars PROVE AdviceInv'
<1>1. ASSUME NEW c \in B!Chats, B!End(c) PROVE AdviceInv'
  <2>1. PICK a \in Artifacts[c[2]] \cup {artifact[c]} : artifact' = [artifact EXCEPT ![c] = a]
    BY <1>1 DEF B!End
  <2>2. UNCHANGED <<deciding, advice>>
    BY <1>1 DEF B!End
  <2> QED BY <2>1, <2>2 DEF AdviceInv
<1>2. ASSUME NEW i \in DOMAIN due, B!RunEnded(i) PROVE AdviceInv'
  <2>1. due[i].chat \in B!Chats
    <3>1. due \in Seq(EndOf)
      BY DEF RunsType
    <3>2. due[i] \in EndOf
      BY <3>1
    <3> QED BY <3>2 DEF EndOf
  <2>2. \A c \in deciding' : c \in deciding \/ (c = due[i].chat /\ B!AskedAbout(c))
    BY <1>2 DEF B!RunEnded
  <2>3. UNCHANGED <<artifact, advice>>
    BY <1>2 DEF B!RunEnded
  <2> QED BY <2>1, <2>2, <2>3 DEF AdviceInv
<1>3. ASSUME NEW c \in B!Chats, B!DecideRun(c) PROVE AdviceInv'
  <2> DEFINE a == artifact[c]
             requests == CASE c[2] = "lineup" -> B!lineupRequests(a)
                        [] c[2] = "waivers" -> B!waiverRequests(a)
                        [] OTHER -> B!tradeRequests(a)
  <2>1. /\ c \in deciding /\ deciding' = deciding \ {c} /\ UNCHANGED artifact
        /\ advice' = IF a = None \/ a = Prose THEN advice ELSE [chat |-> c, from |-> a, asks |-> requests]
    BY <1>3 DEF B!DecideRun
  <2>2. ASSUME a # None, a # Prose PROVE Advised(a, requests)
    <3>1. a \in Artifacts[c[2]] \ {None, Prose} /\ B!AskedAbout(c)
      BY <2>1, <2>2 DEF AdviceInv
    <3> HIDE DEF a
    <3>2. (CASE c[2] = "lineup" -> a.starters \in Seq(B!Range(a.starters))
            [] c[2] = "waivers" -> B!IsWaivers(a)
            [] OTHER -> B!IsTalk(a))
      BY <3>1, PartsAssumption DEF B!RunsAssumption
    <3>3. CASE c[2] = "lineup"
      <4>1. requests = B!lineupRequests(a)
        BY <3>3
      <4>2. a.starters \in Seq(B!Range(a.starters))
        BY <3>2, <3>3
      <4> HIDE DEF requests
      <4> QED BY <4>1, <4>2, LineupAdvice
    <3>4. CASE c[2] = "waivers"
      <4>1. requests = B!waiverRequests(a) /\ B!IsWaivers(a)
        BY <3>2, <3>4
      <4> HIDE DEF requests
      <4> QED BY <4>1, WaiverAdvice
    <3>5. CASE c[2] # "lineup" /\ c[2] # "waivers"
      <4>1. requests = B!tradeRequests(a) /\ B!IsTalk(a)
        BY <3>2, <3>5
      <4> HIDE DEF requests
      <4> QED BY <4>1, TradeAdvice
    <3> QED BY <3>3, <3>4, <3>5
  <2>3. advice' # None => Advised(advice'.from, advice'.asks)
    <3> HIDE DEF requests, a
    <3> QED BY <2>1, <2>2 DEF AdviceInv
  <2> QED BY <2>1, <2>3 DEF AdviceInv
<1>4. ASSUME UNCHANGED <<artifact, deciding, advice>> PROVE AdviceInv'
  BY <1>4 DEF AdviceInv
<1>5. ASSUME NEW r \in Requests, B!Post(r) \/ B!Mark(r) \/ B!Accept(r) \/ B!Refuse(r)
      PROVE  UNCHANGED <<artifact, deciding, advice>>
  BY <1>5 DEF B!Post, B!Mark, B!Accept, B!Refuse
<1>6. UNCHANGED bVars => UNCHANGED <<artifact, deciding, advice>>
  BY DEF bVars
<1> QED BY <1>1, <1>2, <1>3, <1>4, <1>5, <1>6 DEF B!Next

\* decisions.go 177: for any chats, artifacts and ends of runs, what the decisions of a
\* run are asked about is what its artifact advises.
THEOREM AdviceAsked == Spec => []AsksAreTheAdvice
<1> DEFINE IInv == which = "runs" => RunsInv /\ AdviceInv
<1>1. Init => IInv
  <2>1. Init => (which = "runs" => RunsInv)
    BY DEF Init, B!Init, B!Idle, RunsInv, RunsType, PostOf, B!NoPhantomBadge
  <2>2. Init /\ which = "runs" => B!Init
    BY DEF Init
  <2>3. B!Init => AdviceInv
    BY DEF B!Init, AdviceInv
  <2> QED BY <2>1, <2>2, <2>3
<1>2. IInv /\ [Next]_vars => IInv'
  <2> SUFFICES ASSUME which = "runs" => RunsInv /\ AdviceInv, [Next]_vars, which' = "runs"
               PROVE  RunsInv' /\ AdviceInv'
    OBVIOUS
  <2>1. which = "runs"
    BY DEF Next, vars
  <2>2. RunsType
    BY <2>1 DEF RunsInv
  <2>3. QED
    BY <2>1, <2>2, RunsMoves, RunsStep, AdviceStep
<1>3. IInv => AsksAreTheAdvice
  BY DEF AdviceInv, AsksAreTheAdvice, B!AsksAreTheAdvice, Advised
<1>4. QED
  BY <1>1, <1>2, <1>3, PTL DEF Spec

-----------------------------------------------------------------------------
(* InputArtifacts. *)

\* A step of the whole is one of the reader of lists, or leaves it alone.
LEMMA ArtifactsMove ==
    ASSUME which = "artifacts", [Next]_vars
    PROVE  which' = "artifacts" /\ [A!Next]_aVars
  BY DEF Next, vars, aVars

Bounds == [grown : Nat, inserted : Nat, deleted : Nat, failed : Nat]

\* Items are numbered as they come, so no list has one twice.
Numbers == 0 .. 99 + listBounds.grown + listBounds.inserted
ListsOk == /\ lists \in [DOMAIN lists -> Seq(Numbers)]
           /\ Changing \subseteq DOMAIN lists
           /\ listBounds.inserted = 0 => \A e \in DOMAIN lists : A!IsInjective(lists[e])

\* Between two pages: what the list held at first was read or is to be read; what
\* was read is the list up to the page that comes next, if nothing came in between.
Upto(n) == PageSize * n
Beyond(l, n) == {l[i] : i \in {i \in DOMAIN l : i > n}}
ReadingOk ==
    /\ page \in Nat \ {0}
    /\ page = 1 => got = <<>>
    /\ page > 1 => /\ A!Now.of \in DOMAIN lists
                   /\ Len(lists[A!Now.of]) > Upto(page - 1)
                   /\ got \in Seq(Numbers)
                   /\ listBounds.inserted = 0 => got = SubSeq(lists[A!Now.of], 1, Upto(page - 1))
                   /\ since \subseteq A!Range(got) \cup Beyond(lists[A!Now.of], Upto(page - 1))

NoneTwice(m) == A!IsInjective(m.content)
NoneMissing(m) == m.note = "whole" => m.since \subseteq A!Range(m.content)

ManifestOk == /\ manifest \in Seq({manifest[k] : k \in DOMAIN manifest})
              /\ \A k \in DOMAIN manifest : /\ listBounds.inserted = 0 => NoneTwice(manifest[k])
                                            /\ NoneMissing(manifest[k])

ListsInv == /\ listBounds \in Bounds
            /\ listBounds.deleted = 0 => ListsOk /\ ReadingOk /\ ManifestOk

\* Pages add up.
LEMMA Pages ==
    /\ \A n \in Nat : Upto(n) \in Nat /\ Upto(n + 1) = Upto(n) + PageSize
    /\ Upto(0) = 0 /\ PageSize \in Nat \ {0} /\ Cap \in Nat \ {0}
  BY PartsAssumption DEF Upto, A!ArtifactsAssumption

\* A prefix of a list without repetitions has none.
LEMMA PrefixInjective ==
    ASSUME NEW Items, NEW s \in Seq(Items), A!IsInjective(s), NEW n \in 0 .. Len(s)
    PROVE  /\ SubSeq(s, 1, n) \in Seq(Items) /\ Len(SubSeq(s, 1, n)) = n
           /\ A!IsInjective(SubSeq(s, 1, n))
<1> DEFINE p == SubSeq(s, 1, n)
<1>1. Len(s) \in Nat /\ n \in Nat /\ DOMAIN s = 1 .. Len(s)
  OBVIOUS
<1>2. \A i \in 1 .. n : s[i] \in Items
  BY <1>1
<1>3. p \in Seq(Items) /\ Len(p) = n /\ \A i \in 1 .. n : p[i] = s[i]
  BY <1>1, <1>2, SubSeqProperties
<1> HIDE DEF p
<1>4. DOMAIN p = 1 .. n
  BY <1>3
<1>5. A!IsInjective(p)
  BY <1>1, <1>3, <1>4 DEF A!IsInjective
<1>6. QED
  BY <1>3, <1>5 DEF p

\* The empty list has no repetitions.
LEMMA EmptyInjective == A!IsInjective(<<>>)
  BY DEF A!IsInjective

\* What is added to the manifest is sound if it is.
LEMMA ManifestGrows ==
    ASSUME NEW ms, ms \in Seq({ms[k] : k \in DOMAIN ms}), NEW m, NEW ms1, ms1 = Append(ms, m)
    PROVE  /\ ms1 \in Seq({ms1[k] : k \in DOMAIN ms1})
           /\ \A k \in DOMAIN ms1 : ms1[k] = m \/ (k \in DOMAIN ms /\ ms1[k] = ms[k])
<1> DEFINE Items == {ms[k] : k \in DOMAIN ms} \cup {m}
<1>1. ms \in Seq(Items) /\ m \in Items
  BY SeqMonotonic
<1> HIDE DEF Items
<1>2. /\ ms1 \in Seq(Items) /\ Len(ms) \in Nat /\ Len(ms1) = Len(ms) + 1 /\ DOMAIN ms1 = 1 .. Len(ms) + 1
      /\ DOMAIN ms = 1 .. Len(ms) /\ ms1[Len(ms) + 1] = m /\ \A k \in 1 .. Len(ms) : ms1[k] = ms[k]
  BY <1>1
<1>3. \A k \in DOMAIN ms1 : ms1[k] = m \/ (k \in DOMAIN ms /\ ms1[k] = ms[k])
  BY <1>2
<1>4. ms1 \in Seq({ms1[k] : k \in DOMAIN ms1})
  BY <1>2
<1>5. QED
  BY <1>3, <1>4

\* What a sequence with another after it holds.
LEMMA RangeConcat ==
    ASSUME NEW Items, NEW s \in Seq(Items), NEW t \in Seq(Items)
    PROVE  s \o t \in Seq(Items) /\ A!Range(s \o t) = A!Range(s) \cup A!Range(t)
<1> DEFINE r == s \o t
           m == Len(s)
           n == Len(t)
<1>1. /\ r \in Seq(Items) /\ Len(r) = m + n
      /\ \A i \in 1 .. m + n : r[i] = IF i <= m THEN s[i] ELSE t[i - m]
  BY ConcatProperties
<1>2. m \in Nat /\ n \in Nat /\ DOMAIN s = 1 .. m /\ DOMAIN t = 1 .. n
  OBVIOUS
<1> HIDE DEF r, m, n
<1>3. DOMAIN r = 1 .. m + n
  BY <1>1
<1>4. ASSUME NEW i \in 1 .. m PROVE s[i] \in A!Range(r)
  BY <1>1, <1>2, <1>3 DEF A!Range
<1>5. ASSUME NEW i \in 1 .. n PROVE t[i] \in A!Range(r)
  <2>1. m + i \in 1 .. m + n /\ ~(m + i <= m) /\ (m + i) - m = i
    BY <1>2
  <2>2. r[m + i] = t[i]
    BY <1>1, <2>1
  <2>3. QED
    BY <1>3, <2>1, <2>2 DEF A!Range
<1>6. ASSUME NEW i \in 1 .. m + n PROVE r[i] \in A!Range(s) \cup A!Range(t)
  <2>1. i <= m => i \in 1 .. m
    BY <1>2
  <2>2. ~(i <= m) => i - m \in 1 .. n
    BY <1>2
  <2>3. QED
    BY <1>1, <1>2, <2>1, <2>2 DEF A!Range
<1>7. A!Range(r) = A!Range(s) \cup A!Range(t)
  BY <1>2, <1>3, <1>4, <1>5, <1>6 DEF A!Range
<1>8. QED
  BY <1>1, <1>7 DEF r

\* A page continues what was read before it.
LEMMA PageContinues ==
    ASSUME NEW Items, NEW l \in Seq(Items), NEW n \in Nat, n = 0 \/ n < Len(l)
    PROVE  LET m == A!Least(n + PageSize, Len(l))
           IN  /\ m \in 0 .. Len(l)
               /\ SubSeq(l, 1, n) \o SubSeq(l, n + 1, m) = SubSeq(l, 1, m)
<1> DEFINE m == A!Least(n + PageSize, Len(l))
<1>1. /\ Len(l) \in Nat /\ m \in 0 .. Len(l) /\ n <= m
      /\ 1 \in 1 .. Len(l) + 1 /\ n \in 1 - 1 .. Len(l) /\ m \in n .. Len(l)
  <2>1. Len(l) \in Nat /\ PageSize \in Nat
    BY Pages
  <2>2. \A len, size \in Nat : n = 0 \/ n < len =>
           /\ A!Least(n + size, len) \in 0 .. len /\ n <= A!Least(n + size, len)
           /\ 1 \in 1 .. len + 1 /\ n \in 1 - 1 .. len /\ A!Least(n + size, len) \in n .. len
    BY DEF A!Least
  <2>3. QED
    BY <2>1, <2>2
<1> HIDE DEF m
<1>2. SubSeq(l, 1, n) \o SubSeq(l, n + 1, m) = SubSeq(l, 1, m)
  BY <1>1, ConcatAdjacentSubSeq
<1>3. QED
  BY <1>1, <1>2 DEF m

\* And what was to be read and is not in it is still to be read.
LEMMA PageHolds ==
    ASSUME NEW Items, NEW l \in Seq(Items), NEW n \in Nat, n = 0 \/ n < Len(l), NEW s \in Seq(Items),
           NEW stays, stays \subseteq A!Range(s) \cup Beyond(l, n)
    PROVE  LET m == A!Least(n + PageSize, Len(l))
               r == s \o SubSeq(l, n + 1, m)
           IN  r \in Seq(Items) /\ stays \subseteq A!Range(r) \cup Beyond(l, m)
<1> DEFINE m == A!Least(n + PageSize, Len(l))
           t == SubSeq(l, n + 1, m)
<1>1. Len(l) \in Nat /\ m \in 0 .. Len(l) /\ n <= m /\ DOMAIN l = 1 .. Len(l)
  <2>1. Len(l) \in Nat /\ PageSize \in Nat
    BY Pages
  <2>2. \A len, size \in Nat : n = 0 \/ n < len =>
           A!Least(n + size, len) \in 0 .. len /\ n <= A!Least(n + size, len)
    BY DEF A!Least
  <2>3. DOMAIN l = 1 .. Len(l)
    OBVIOUS
  <2>4. m \in 0 .. Len(l) /\ n <= m
    BY <2>1, <2>2
  <2>5. QED
    BY <2>1, <2>3, <2>4
<1> HIDE DEF m
<1>2. t \in Seq(Items) /\ DOMAIN t = 1 .. m - n /\ \A i \in 1 .. m - n : t[i] = l[n + i]
  <2>1. n + 1 \in Int /\ m \in Int /\ \A i \in n + 1 .. m : l[i] \in Items
    BY <1>1
  <2>2. /\ t \in Seq(Items) /\ Len(t) = IF n + 1 <= m THEN m - (n + 1) + 1 ELSE 0
        /\ \A i \in 1 .. m - (n + 1) + 1 : t[i] = l[(n + 1) + i - 1]
    BY <2>1, SubSeqProperties
  <2> HIDE DEF t
  <2>3. m - (n + 1) + 1 = m - n /\ Len(t) = m - n /\ \A i \in Nat : (n + 1) + i - 1 = n + i
    BY <1>1, <2>2
  <2>4. QED
    BY <2>2, <2>3
<1> HIDE DEF t
<1>3. ASSUME NEW i \in DOMAIN l, i > n PROVE l[i] \in A!Range(t) \cup Beyond(l, m)
  <2>1. CASE i > m
    BY <1>3, <2>1 DEF Beyond
  <2>2. CASE ~(i > m)
    <3>1. i - n \in 1 .. m - n /\ n + (i - n) = i
      BY <1>1, <1>3, <2>2
    <3>2. QED
      BY <1>2, <3>1 DEF A!Range
  <2>3. QED
    BY <2>1, <2>2
<1>4. s \o t \in Seq(Items) /\ A!Range(s \o t) = A!Range(s) \cup A!Range(t)
  BY <1>2, RangeConcat
<1>5. Beyond(l, n) \subseteq A!Range(t) \cup Beyond(l, m)
  BY <1>3 DEF Beyond
<1>6. QED
  BY <1>4, <1>5 DEF m, t

\* The next one is read from its first page.
LEMMA BeginReads ==
    ASSUME NEW rest, A!Begin(rest)
    PROVE  ReadingOk'
  BY DEF A!Begin, ReadingOk

\* What a step that only reads leaves of the counts.
KeptCounts == /\ listBounds' \in Bounds /\ listBounds'.deleted = listBounds.deleted
              /\ listBounds'.grown = listBounds.grown /\ listBounds'.inserted = listBounds.inserted

\* The host may be unable to write, and nothing else changes with that.
LEMMA WriteCounts ==
    ASSUME listBounds \in Bounds, NEW name, NEW content, NEW note, NEW whole,
           A!Write(name, content, note, whole)
    PROVE  KeptCounts
<1>1. listBounds' = listBounds \/ listBounds' = [listBounds EXCEPT !["failed"] = @ + 1]
  BY DEF A!Write, A!Within
<1>2. QED
  BY <1>1 DEF Bounds, KeptCounts

\* What is written is sound if the manifest is.
LEMMA WriteKeeps ==
    ASSUME listBounds \in Bounds, ManifestOk, NEW name, NEW content, NEW note, NEW whole,
           A!Write(name, content, note, whole),
           listBounds.inserted = 0 => A!IsInjective(content), note = "whole" => whole \subseteq A!Range(content)
    PROVE  ManifestOk'
<1> DEFINE m == [name |-> name, content |-> content, note |-> note, since |-> whole]
<1>1. listBounds'.inserted = listBounds.inserted
  BY WriteCounts DEF KeptCounts
<1>2. (listBounds.inserted = 0 => NoneTwice(m)) /\ NoneMissing(m)
  BY DEF NoneTwice, NoneMissing
<1>3. manifest' = Append(manifest, m) \/ manifest' = manifest
  BY DEF A!Write
<1> HIDE DEF m
<1>4. CASE manifest' = Append(manifest, m)
  <2>1. /\ manifest' \in Seq({manifest'[k] : k \in DOMAIN manifest'})
        /\ \A k \in DOMAIN manifest' : manifest'[k] = m \/ (k \in DOMAIN manifest /\ manifest'[k] = manifest[k])
    BY <1>4, ManifestGrows DEF ManifestOk
  <2>2. ASSUME NEW k \in DOMAIN manifest'
        PROVE  (listBounds.inserted = 0 => NoneTwice(manifest'[k])) /\ NoneMissing(manifest'[k])
    <3>1. CASE manifest'[k] = m
      BY <1>2, <3>1
    <3>2. CASE k \in DOMAIN manifest /\ manifest'[k] = manifest[k]
      <4>1. (listBounds.inserted = 0 => NoneTwice(manifest[k])) /\ NoneMissing(manifest[k])
        BY <3>2 DEF ManifestOk, NoneTwice, NoneMissing
      <4>2. QED
        BY <3>2, <4>1
    <3>3. QED
      BY <2>1, <2>2, <3>1, <3>2
  <2>3. \A k : NoneTwice(manifest[k])' = NoneTwice(manifest'[k]) /\ NoneMissing(manifest[k])' = NoneMissing(manifest'[k])
    BY DEF NoneTwice, NoneMissing
  <2>4. QED
    BY <1>1, <2>1, <2>2, <2>3 DEF ManifestOk
<1>5. CASE manifest' = manifest
  BY <1>1, <1>5 DEF ManifestOk, NoneTwice, NoneMissing
<1>6. QED
  BY <1>3, <1>4, <1>5

\* A page that is read leaves nothing out, and is the end of the list or not.
LEMMA PageStep ==
    ASSUME ListsInv, A!ReadList
    PROVE  ListsInv'
<1> DEFINE l == lists[A!Now.of]
           items == A!Read(l)
           stayed == A!Stayed(l)
<1>1. /\ A!Now.of \in DOMAIN lists /\ UNCHANGED lists
      /\ \/ /\ ~ A!AtCap(items) /\ Len(l) > PageSize * page
            /\ got' = items /\ page' = page + 1 /\ since' = stayed
            /\ UNCHANGED <<listBounds, todo, manifest>>
         \/ /\ A!AtCap(items)
            /\ A!Write(A!Now.name, SubSeq(items, 1, Cap), "cut off", stayed)
            /\ \E rest : A!Begin(rest)
         \/ /\ ~ A!AtCap(items) /\ Len(l) <= PageSize * page
            /\ A!Write(A!Now.name, items, "whole", stayed)
            /\ \E rest : A!Begin(rest)
  BY DEF A!ReadList, A!github
<1>2. listBounds \in Bounds
  BY DEF ListsInv
<1>3. KeptCounts
  BY <1>1, <1>2, WriteCounts DEF KeptCounts
<1> SUFFICES ASSUME listBounds.deleted = 0
             PROVE  ReadingOk' /\ ManifestOk'
  BY <1>1, <1>3 DEF ListsInv, ListsOk, KeptCounts, Numbers
<1>4. ListsOk /\ ReadingOk /\ ManifestOk
  BY DEF ListsInv
<1> DEFINE n == Upto(page - 1)
           m == A!Least(n + PageSize, Len(l))
<1>5. l \in Seq(Numbers) /\ (listBounds.inserted = 0 => A!IsInjective(l))
  BY <1>1, <1>4 DEF ListsOk
<1>6. /\ page \in Nat \ {0} /\ page - 1 \in Nat /\ n \in Nat
      /\ PageSize * page = n + PageSize /\ PageSize * (page - 1) = n
  <2>1. page \in Nat \ {0} /\ page - 1 \in Nat /\ (page - 1) + 1 = page
    BY <1>4 DEF ReadingOk
  <2>2. n \in Nat /\ Upto(page) = n + PageSize
    BY <2>1, Pages
  <2>3. QED
    BY <2>1, <2>2 DEF Upto
<1>7. /\ listBounds.inserted = 0 => got = SubSeq(l, 1, n)
      /\ n = 0 \/ n < Len(l)
      /\ got \in Seq(Numbers) /\ stayed \subseteq A!Range(got) \cup Beyond(l, n)
  <2>1. CASE page = 1
    <3>1. n = 0
      BY <2>1, Pages
    <3>2. SubSeq(l, 1, 0) = <<>> /\ got = <<>>
      BY <1>4, <2>1, SubSeqEmpty DEF ReadingOk
    <3>3. stayed = A!Range(l)
      BY <2>1 DEF A!Stayed
    <3> HIDE DEF stayed, l
    <3>4. A!Range(l) \subseteq Beyond(l, 0)
      BY <1>5 DEF A!Range, Beyond
    <3>5. QED
      BY <3>1, <3>2, <3>3, <3>4
  <2>2. CASE page > 1
    <3>1. stayed = since
      BY <2>2 DEF A!Stayed
    <3>2. QED
      BY <1>4, <1>5, <1>6, <2>2, <3>1 DEF ReadingOk
  <2>3. QED
    BY <1>6, <2>1, <2>2
<1>8. items = got \o SubSeq(l, n + 1, m)
  BY <1>6 DEF A!Read
<1> HIDE DEF l, stayed, items, n
<1>9. items \in Seq(Numbers) /\ stayed \subseteq A!Range(items) \cup Beyond(l, m)
  BY <1>5, <1>6, <1>7, <1>8, PageHolds
<1>10. listBounds.inserted = 0 => m \in 0 .. Len(l) /\ items = SubSeq(l, 1, m)
  BY <1>5, <1>6, <1>7, <1>8, PageContinues
<1>11. Len(l) \in Nat /\ Len(items) \in Nat
  BY <1>5, <1>9
<1> HIDE DEF m
<1>12. listBounds.inserted = 0 => A!IsInjective(items)
  BY <1>5, <1>10, PrefixInjective
<1>13. CASE /\ Len(l) > PageSize * page
            /\ got' = items /\ page' = page + 1 /\ since' = stayed
            /\ UNCHANGED <<listBounds, todo, manifest>>
  <2>1. m = n + PageSize
    BY <1>6, <1>11, <1>13, Pages DEF m, A!Least
  <2>2. page' \in Nat \ {0} /\ page' # 1 /\ page' - 1 = page /\ Upto(page) = m
    BY <1>6, <1>13, <2>1 DEF Upto
  <2>3. A!Now' = A!Now
    BY <1>13 DEF A!Now
  <2>4. lists'[A!Now'.of] = l /\ Numbers' = Numbers
    BY <1>1, <1>13, <2>3 DEF l, Numbers
  <2>5. A!Range(got)' = A!Range(items) /\ Beyond(lists[A!Now.of], Upto(page - 1))' = Beyond(l, m)
    BY <1>13, <2>2, <2>4 DEF A!Range, Beyond, Upto
  <2>6. ReadingOk'
    BY <1>1, <1>6, <1>9, <1>10, <1>13, <2>1, <2>2, <2>3, <2>4, <2>5 DEF ReadingOk
  <2>7. QED
    BY <1>4, <1>13, <2>6 DEF ManifestOk, NoneTwice, NoneMissing
<1>14. ASSUME A!AtCap(items), A!Write(A!Now.name, SubSeq(items, 1, Cap), "cut off", stayed),
              NEW rest, A!Begin(rest)
       PROVE  ReadingOk' /\ ManifestOk'
  <2>1. Cap \in 0 .. Len(items)
    <3>1. Len(items) >= Cap
      BY <1>14 DEF A!AtCap
    <3>2. Cap \in Nat
      BY Pages
    <3>3. QED
      BY <1>11, <3>1, <3>2
  <2>2. listBounds.inserted = 0 => A!IsInjective(SubSeq(items, 1, Cap))
    BY <1>9, <1>12, <2>1, PrefixInjective
  <2>3. ManifestOk'
    BY <1>2, <1>4, <1>14, <2>2, WriteKeeps
  <2>4. QED
    BY <1>14, <2>3, BeginReads
<1>15. ASSUME Len(l) <= PageSize * page, A!Write(A!Now.name, items, "whole", stayed),
              NEW rest, A!Begin(rest)
       PROVE  ReadingOk' /\ ManifestOk'
  <2>1. m = Len(l)
    BY <1>6, <1>11, <1>15, Pages DEF m, A!Least
  <2>2. Beyond(l, m) = {}
    BY <1>5, <1>11, <2>1 DEF Beyond
  <2>3. ManifestOk'
    BY <1>2, <1>4, <1>9, <1>12, <1>15, <2>2, WriteKeeps
  <2>4. QED
    BY <1>15, <2>3, BeginReads
<1>16. QED
  BY <1>1, <1>13, <1>14, <1>15

\* What comes in at the end, or before others.
LEMMA GrownList ==
    ASSUME NEW Items, NEW l \in Seq(Items), NEW x
    PROVE  LET l1 == Append(l, x)
           IN  /\ l1 \in Seq(Items \cup {x}) /\ Len(l1) = Len(l) + 1
               /\ \A n \in Nat : Beyond(l, n) \subseteq Beyond(l1, n)
               /\ \A n \in 0 .. Len(l) : SubSeq(l1, 1, n) = SubSeq(l, 1, n)
               /\ A!IsInjective(l) /\ x \notin Items => A!IsInjective(l1)
<1> DEFINE l1 == Append(l, x)
           More == Items \cup {x}
<1>1. /\ l1 \in Seq(More) /\ l \in Seq(More) /\ Len(l) \in Nat /\ DOMAIN l = 1 .. Len(l)
      /\ DOMAIN l1 = 1 .. Len(l) + 1 /\ Len(l1) = Len(l) + 1
      /\ l1[Len(l) + 1] = x /\ \A i \in 1 .. Len(l) : l1[i] = l[i] /\ l[i] \in Items
  <2>1. l \in Seq(More)
    BY SeqMonotonic
  <2>2. QED
    BY <2>1
<1> HIDE DEF l1, More
<1>2. \A n \in Nat : Beyond(l, n) \subseteq Beyond(l1, n)
  BY <1>1 DEF Beyond
<1>3. ASSUME NEW n \in 0 .. Len(l) PROVE SubSeq(l1, 1, n) = SubSeq(l, 1, n)
  <2>1. n \in Nat /\ \A i \in 1 .. n : l[i] \in Items /\ l1[i] = l[i]
    BY <1>1
  <2>2. /\ SubSeq(l, 1, n) \in Seq(Items) /\ Len(SubSeq(l, 1, n)) = n
        /\ \A i \in 1 .. n : SubSeq(l, 1, n)[i] = l[i]
    BY <2>1, SubSeqProperties
  <2>3. /\ SubSeq(l1, 1, n) \in Seq(Items) /\ Len(SubSeq(l1, 1, n)) = n
        /\ \A i \in 1 .. n : SubSeq(l1, 1, n)[i] = l1[i]
    BY <2>1, SubSeqProperties
  <2>4. QED
    BY <2>1, <2>2, <2>3, SeqEqual
<1>4. A!IsInjective(l) /\ x \notin Items => A!IsInjective(l1)
  BY <1>1 DEF A!IsInjective
<1>5. QED
  BY <1>1, <1>2, <1>3, <1>4 DEF l1, More

\* Those that come after move up, and are still to be read.
LEMMA InsertedList ==
    ASSUME NEW Items, NEW l \in Seq(Items), NEW x, NEW i \in DOMAIN l
    PROVE  LET l1 == A!Before(l, i, x)
           IN  /\ l1 \in Seq(Items \cup {x}) /\ Len(l1) = Len(l) + 1
               /\ \A n \in Nat : Beyond(l, n) \subseteq Beyond(l1, n)
<1> DEFINE l1 == A!Before(l, i, x)
           N == Len(l)
<1>1. N \in Nat /\ DOMAIN l = 1 .. N /\ i \in 1 .. N /\ \A k \in 1 .. N : l[k] \in Items
  OBVIOUS
<1>2. l1 = [k \in 1 .. N + 1 |-> IF k < i THEN l[k] ELSE IF k = i THEN x ELSE l[k - 1]]
  BY DEF A!Before
<1> HIDE DEF l1, N
<1>3. ASSUME NEW k \in 1 .. N + 1 PROVE l1[k] \in Items \cup {x}
  <2>1. k < i => k \in 1 .. N
    BY <1>1
  <2>2. ~(k < i) /\ k # i => k - 1 \in 1 .. N
    BY <1>1
  <2>3. QED
    BY <1>1, <1>2, <2>1, <2>2
<1>4. l1 \in Seq(Items \cup {x}) /\ Len(l1) = N + 1 /\ DOMAIN l1 = 1 .. N + 1
  BY <1>1, <1>2, <1>3
<1>5. ASSUME NEW n \in Nat, NEW k \in 1 .. N, k > n PROVE \E j \in 1 .. N + 1 : j > n /\ l1[j] = l[k]
  <2>1. CASE k < i
    BY <1>1, <1>2, <1>5, <2>1
  <2>2. CASE ~(k < i)
    <3>1. k + 1 \in 1 .. N + 1 /\ k + 1 > n /\ ~(k + 1 < i) /\ k + 1 # i /\ (k + 1) - 1 = k
      BY <1>1, <1>5, <2>2
    <3>2. l1[k + 1] = l[k]
      BY <1>2, <3>1
    <3>3. QED
      BY <3>1, <3>2
  <2>3. QED
    BY <2>1, <2>2
<1>6. \A n \in Nat : Beyond(l, n) \subseteq Beyond(l1, n)
  BY <1>1, <1>4, <1>5 DEF Beyond
<1>7. QED
  BY <1>4, <1>6 DEF l1, N

\* A list that got longer by a new item: what was read of it, and what is to come.
LEMMA LongerList ==
    ASSUME ListsOk, ReadingOk, ManifestOk, listBounds \in Bounds, listBounds' \in Bounds,
           listBounds'.grown + listBounds'.inserted = listBounds.grown + listBounds.inserted + 1,
           listBounds'.inserted = 0 => listBounds.inserted = 0,
           NEW e \in Changing, NEW l1, l1 \in Seq(Numbers \cup {A!New}), Len(l1) = Len(lists[e]) + 1,
           lists' = [lists EXCEPT ![e] = l1], UNCHANGED <<todo, got, page, since, manifest>>,
           \A n \in Nat : Beyond(lists[e], n) \subseteq Beyond(l1, n),
           listBounds'.inserted = 0 => /\ \A n \in 0 .. Len(lists[e]) : SubSeq(l1, 1, n) = SubSeq(lists[e], 1, n)
                                       /\ A!IsInjective(l1)
    PROVE  ListsOk' /\ ReadingOk' /\ ManifestOk'
<1> DEFINE l == lists[e]
           more == Numbers'
<1>1. Numbers \cup {A!New} \subseteq more
  BY DEF Bounds, Numbers, A!New
<1>2. e \in DOMAIN lists /\ l \in Seq(Numbers) /\ DOMAIN lists' = DOMAIN lists
  BY DEF ListsOk
<1>3. \A x \in DOMAIN lists : lists'[x] = IF x = e THEN l1 ELSE lists[x]
  OBVIOUS
<1> HIDE DEF more
<1>4. l1 \in Seq(more) /\ \A x \in DOMAIN lists : lists[x] \in Seq(more)
  <2>1. l1 \in Seq(more)
    BY <1>1, SeqMonotonic
  <2>2. Numbers \subseteq more
    BY <1>1
  <2>3. QED
    BY <2>1, <2>2, SeqMonotonic DEF ListsOk
<1>5. ListsOk'
  <2>1. lists' \in [DOMAIN lists' -> Seq(more)]
    BY <1>2, <1>3, <1>4
  <2>2. listBounds'.inserted = 0 => \A x \in DOMAIN lists' : A!IsInjective(lists'[x])
    BY <1>2, <1>3 DEF ListsOk
  <2>3. QED
    BY <1>2, <2>1, <2>2 DEF ListsOk, more, A!IsInjective
<1>6. ReadingOk'
  <2> DEFINE old == lists[A!Now.of]
             new == lists'[A!Now.of]
             n == Upto(page - 1)
  <2>1. A!Now' = A!Now
    BY DEF A!Now
  <2>2. SUFFICES ASSUME page > 1
                 PROVE  /\ A!Now.of \in DOMAIN lists' /\ Len(new) > n /\ got \in Seq(more)
                        /\ listBounds'.inserted = 0 => got = SubSeq(new, 1, n)
                        /\ since \subseteq A!Range(got) \cup Beyond(new, n)
    BY <2>1 DEF ReadingOk, more, A!Range, Beyond, Upto
  <2>3. /\ A!Now.of \in DOMAIN lists /\ Len(old) > n /\ n \in Nat /\ got \in Seq(Numbers)
        /\ listBounds.inserted = 0 => got = SubSeq(old, 1, n)
        /\ since \subseteq A!Range(got) \cup Beyond(old, n)
    <3>1. page - 1 \in Nat
      BY <2>2 DEF ReadingOk
    <3>2. QED
      BY <2>2, <3>1, Pages DEF ReadingOk
  <2>4. got \in Seq(more)
    <3>1. Numbers \subseteq more
      BY <1>1
    <3>2. QED
      BY <2>3, <3>1, SeqMonotonic
  <2>5. CASE A!Now.of # e
    BY <1>2, <1>3, <2>3, <2>4, <2>5
  <2>6. CASE A!Now.of = e
    <3>1. old = l /\ new = l1
      BY <1>3, <2>3, <2>6
    <3> HIDE DEF n, old, new
    <3>2. Len(l) \in Nat
      BY <1>2
    <3>3. n \in 0 .. Len(l) /\ Len(l1) > n
      BY <2>3, <3>1, <3>2
    <3>4. listBounds'.inserted = 0 => got = SubSeq(l1, 1, n)
      BY <2>3, <3>1, <3>3
    <3>5. since \subseteq A!Range(got) \cup Beyond(l1, n)
      BY <2>3, <3>1
    <3>6. QED
      BY <1>2, <2>3, <2>4, <3>1, <3>3, <3>4, <3>5
  <2>7. QED
    BY <2>5, <2>6
<1>7. ManifestOk'
  BY DEF ManifestOk, NoneTwice, NoneMissing, A!IsInjective, A!Range
<1>8. QED
  BY <1>5, <1>6, <1>7

\* Each step keeps what was read, and what is to be read, all there was.
LEMMA ListsStep == ASSUME ListsInv, [A!Next]_aVars PROVE ListsInv'
<1>1. listBounds \in Bounds
  BY DEF ListsInv
<1>2. ASSUME UNCHANGED lists, KeptCounts, listBounds.deleted = 0 PROVE ListsOk'
  BY <1>2 DEF ListsInv, ListsOk, KeptCounts, Numbers
<1>3. CASE A!ReadObject
  <2>1. PICK name, rest : A!Write(name, <<>>, "1 object", {}) /\ A!Begin(rest) /\ UNCHANGED lists
    BY <1>3 DEF A!ReadObject, A!github
  <2>2. KeptCounts
    BY <1>1, <2>1, WriteCounts
  <2>3. ReadingOk'
    BY <2>1, BeginReads
  <2>4. ManifestOk => ManifestOk'
    BY <1>1, <2>1, WriteKeeps, EmptyInjective
  <2>5. QED
    BY <1>2, <2>1, <2>2, <2>3, <2>4 DEF ListsInv, KeptCounts
<1>4. CASE A!Fail
  <2>1. PICK rest : A!Begin(rest)
    BY <1>4 DEF A!Fail
  <2>2. UNCHANGED <<lists, manifest>> /\ listBounds' = [listBounds EXCEPT !["failed"] = @ + 1]
    BY <1>4 DEF A!Fail, A!Skipped, A!Within, A!github
  <2>3. KeptCounts
    BY <1>1, <2>2 DEF Bounds, KeptCounts
  <2>4. ReadingOk'
    BY <2>1, BeginReads
  <2>5. ManifestOk => ManifestOk'
    BY <2>2, <2>3 DEF ManifestOk, NoneTwice, NoneMissing, KeptCounts
  <2>6. QED
    BY <1>2, <2>2, <2>3, <2>4, <2>5 DEF ListsInv, KeptCounts
<1>5. ASSUME NEW e \in Changing, A!Grow(e), UNCHANGED <<todo, got, page, manifest>> PROVE ListsInv'
  <2>1. /\ listBounds' = [listBounds EXCEPT !["grown"] = @ + 1] /\ UNCHANGED since
        /\ lists' = [lists EXCEPT ![e] = Append(lists[e], A!New)]
    BY <1>5 DEF A!Grow, A!Within
  <2>2. /\ listBounds' \in Bounds /\ listBounds'.deleted = listBounds.deleted
        /\ listBounds'.inserted = listBounds.inserted
        /\ listBounds'.grown + listBounds'.inserted = listBounds.grown + listBounds.inserted + 1
    BY <1>1, <2>1 DEF Bounds
  <2> SUFFICES ASSUME listBounds.deleted = 0, ListsOk, ReadingOk, ManifestOk
               PROVE  ListsOk' /\ ReadingOk' /\ ManifestOk'
    BY <2>2 DEF ListsInv
  <2> DEFINE l1 == Append(lists[e], A!New)
  <2>3. lists[e] \in Seq(Numbers) /\ A!New \notin Numbers /\ (listBounds.inserted = 0 => A!IsInjective(lists[e]))
    BY <1>1 DEF ListsOk, Bounds, Numbers, A!New
  <2>4. /\ l1 \in Seq(Numbers \cup {A!New}) /\ Len(l1) = Len(lists[e]) + 1
        /\ \A n \in Nat : Beyond(lists[e], n) \subseteq Beyond(l1, n)
        /\ \A n \in 0 .. Len(lists[e]) : SubSeq(l1, 1, n) = SubSeq(lists[e], 1, n)
        /\ listBounds.inserted = 0 => A!IsInjective(l1)
    <3> DEFINE x == A!New
               l == lists[e]
               Items == Numbers
    <3>1. l \in Seq(Items) /\ x \notin Items /\ (listBounds.inserted = 0 => A!IsInjective(l)) /\ l1 = Append(l, x)
      BY <2>3
    <3> HIDE DEF x, l, l1, Items
    <3>2. /\ l1 \in Seq(Items \cup {x}) /\ Len(l1) = Len(l) + 1
          /\ \A n \in Nat : Beyond(l, n) \subseteq Beyond(l1, n)
          /\ \A n \in 0 .. Len(l) : SubSeq(l1, 1, n) = SubSeq(l, 1, n)
          /\ A!IsInjective(l) => A!IsInjective(l1)
      BY <3>1, GrownList
    <3>3. QED
      BY <3>1, <3>2 DEF x, l, Items
  <2> HIDE DEF l1
  <2>5. lists' = [lists EXCEPT ![e] = l1]
    BY <2>1 DEF l1
  <2>6. QED
    BY <1>1, <1>5, <2>1, <2>2, <2>4, <2>5, LongerList
<1>6. ASSUME NEW e \in Changing, A!Insert(e), UNCHANGED <<todo, got, page, manifest>> PROVE ListsInv'
  <2>1. PICK i \in DOMAIN lists[e] : lists' = [lists EXCEPT ![e] = A!Before(lists[e], i, A!New)]
    BY <1>6 DEF A!Insert
  <2>2. listBounds' = [listBounds EXCEPT !["inserted"] = @ + 1] /\ UNCHANGED since
    BY <1>6 DEF A!Insert, A!Within
  <2>3. /\ listBounds' \in Bounds /\ listBounds'.deleted = listBounds.deleted /\ listBounds'.inserted # 0
        /\ listBounds'.grown + listBounds'.inserted = listBounds.grown + listBounds.inserted + 1
    BY <1>1, <2>2 DEF Bounds
  <2> SUFFICES ASSUME listBounds.deleted = 0, ListsOk, ReadingOk, ManifestOk
               PROVE  ListsOk' /\ ReadingOk' /\ ManifestOk'
    BY <2>3 DEF ListsInv
  <2> DEFINE l1 == A!Before(lists[e], i, A!New)
  <2>4. lists[e] \in Seq(Numbers)
    BY DEF ListsOk
  <2>5. /\ l1 \in Seq(Numbers \cup {A!New}) /\ Len(l1) = Len(lists[e]) + 1
        /\ \A n \in Nat : Beyond(lists[e], n) \subseteq Beyond(l1, n)
    BY <2>4, InsertedList
  <2> HIDE DEF l1
  <2>6. lists' = [lists EXCEPT ![e] = l1]
    BY <2>1 DEF l1
  <2>7. QED
    BY <1>1, <1>6, <2>2, <2>3, <2>5, <2>6, LongerList
<1>7. ASSUME NEW e \in Changing, A!Delete(e) PROVE ListsInv'
  <2>1. listBounds' = [listBounds EXCEPT !["deleted"] = @ + 1]
    BY <1>7 DEF A!Delete, A!Within
  <2>2. listBounds' \in Bounds /\ listBounds'.deleted # 0
    BY <1>1, <2>1 DEF Bounds
  <2>3. QED
    BY <2>2 DEF ListsInv
<1>8. CASE UNCHANGED aVars
  <2>1. UNCHANGED <<lists, listBounds, got, page, since, manifest, todo>>
    BY <1>8 DEF aVars
  <2>2. QED
    BY <2>1 DEF ListsInv, ListsOk, ReadingOk, ManifestOk, NoneTwice, NoneMissing, A!Now, Numbers, A!IsInjective,
                A!Range, Beyond, Upto
<1>9. CASE A!Thread
  BY <1>5, <1>6, <1>7, <1>9 DEF A!Thread
<1>10. QED
  BY <1>3, <1>4, <1>8, <1>9, PageStep DEF A!Next

\* artifactio.go: for any size of a page, any lists and any cap, a list nothing is
\* deleted from is handed over whole or as cut off, wherever it grows, and no item
\* twice if it grows at its end.
THEOREM ListsWhole == Spec => []ListsAreWhole
<1>1. Init => (which = "artifacts" => ListsInv)
  <2> SUFFICES ASSUME A!Init PROVE ListsInv
    BY DEF Init
  <2>1. /\ listBounds = [grown |-> 0, inserted |-> 0, deleted |-> 0, failed |-> 0] /\ lists \in Lists
        /\ got = <<>> /\ page = 1 /\ manifest = <<>>
    BY DEF A!Init
  <2>2. listBounds \in Bounds /\ Numbers = 0 .. 99
    BY <2>1 DEF Bounds, Numbers
  <2>3. ListsOk
    BY <2>1, <2>2, PartsAssumption DEF ListsOk, A!ArtifactsAssumption
  <2>4. ReadingOk /\ ManifestOk
    BY <2>1 DEF ReadingOk, ManifestOk
  <2>5. QED
    BY <2>2, <2>3, <2>4 DEF ListsInv
<1>2. (which = "artifacts" => ListsInv) /\ [Next]_vars => (which = "artifacts" => ListsInv)'
  <2> SUFFICES ASSUME which = "artifacts" => ListsInv, [Next]_vars, which' = "artifacts"
               PROVE  ListsInv'
    OBVIOUS
  <2>1. which = "artifacts"
    BY DEF Next, vars
  <2>2. QED
    BY <2>1, ArtifactsMove, ListsStep
<1>3. (which = "artifacts" => ListsInv) => ListsAreWhole
  <2> SUFFICES ASSUME ListsInv, listBounds.deleted = 0, NEW k \in DOMAIN manifest
               PROVE  /\ listBounds.inserted = 0 => A!IsInjective(manifest[k].content)
                      /\ manifest[k].note = "whole" => manifest[k].since \subseteq A!Range(manifest[k].content)
    BY DEF ListsAreWhole, A!ListsAreWhole
  <2>1. QED
    BY DEF ListsInv, ManifestOk, NoneTwice, NoneMissing
<1>4. QED
  BY <1>1, <1>2, <1>3, PTL DEF Spec

-----------------------------------------------------------------------------
(* Trends. *)

\* A step of the whole is one of the snapshots, or leaves them alone.
LEMMA TrendsMove ==
    ASSUME which = "trends", [Next]_vars
    PROVE  which' = "trends" /\ [T!Next]_tVars
  BY DEF Next, vars, tVars

SnapWriter == [stage : {"idle", "rosters", "dump", "stamp", "write", "rename"}, began : T!AllDays,
               rostered : SUBSET TrendPlayers, fact : [TrendPlayers -> Facts] \cup {None},
               snap : T!Snap \cup {None}]
SnapReader == [stage : {"idle", "old", "new", "noted", "names", "answered", "failed"}, dates : SUBSET T!AllDays,
               old : T!Snap \cup {None, Bad},
               answer : [from : T!AllDays, to : T!AllDays, trends : T!Said] \cup {None}]

TrendsType ==
    /\ day \in T!AllDays /\ fact \in [TrendPlayers -> Facts] /\ rostered \in SUBSET TrendPlayers
    /\ log \in [T!AllDays -> [TrendPlayers -> SUBSET Facts]]
    /\ dump \in [day : T!AllDays, fact : [TrendPlayers -> Facts]] \cup {None}
    /\ writer \in SnapWriter /\ reader \in SnapReader
    /\ files \in [T!AllDays -> T!Snap \cup {None, Bad}]
    /\ bounds \in [changes : Nat, crashes : Nat, rot : Nat]

\* What is said now is logged, and nothing is for the days to come; the copy of
\* the dump is of the day it is dated.
Logged ==
    /\ \A p \in TrendPlayers : fact[p] \in log[day][p]
    /\ \A d \in T!AllDays, p \in TrendPlayers : d > day => log[d][p] = {}
    /\ dump # None =>
          dump.day <= day /\ \A p \in TrendPlayers : dump.fact[p] \in log[dump.day][p]

SaidOk(snap) == \A p \in DOMAIN snap.players : snap.players[p] \in T!SaidAbout(p, snap.date)

\* A snapshot takes less than a day, the dump it is made of was at most a day old
\* when it began; and there is only one writer, so no file is of a later day than
\* the one it writes.
WriterOk ==
    /\ writer.stage # "idle" => writer.began <= day /\ day <= writer.began + 1
    /\ writer.stage = "stamp" =>
          /\ writer.fact \in [TrendPlayers -> Facts]
          /\ \E x \in T!AllDays :
                /\ x <= day /\ writer.began <= x + 1
                /\ \A p \in TrendPlayers : writer.fact[p] \in log[x][p]
    /\ writer.stage \in {"write", "rename"} =>
          /\ writer.snap # None /\ SaidOk(writer.snap) /\ writer.snap.date <= day
          /\ \A d \in T!AllDays : files[d] # None => d <= writer.snap.date

FilesOk ==
    /\ \A d \in T!AllDays : files[d] # None => d <= day
    /\ \A d \in T!AllDays : files[d] \notin {None, Bad} => files[d].date = d /\ SaidOk(files[d])
    /\ bounds.rot = 0 => \A d \in T!AllDays : files[d] # Bad

\* The two snapshots have been compared; the names may yet be missing.
Found == reader.stage \in {"names", "answered"}

\* The older snapshot is the oldest that can be read, and stays that: an earlier
\* day's file is not written any more.
ReaderOk ==
    /\ reader.stage \in {"old", "new"} =>
          T!Several(reader.dates) /\ \A d \in reader.dates : files[d] # None
    /\ reader.stage = "new" =>
          /\ reader.old # None /\ (bounds.rot = 0 => reader.old # Bad)
          /\ reader.old # Bad =>
                /\ SaidOk(reader.old) /\ reader.old.date \in reader.dates
                /\ \A e \in reader.dates : e < reader.old.date => files[e] = Bad
    /\ Found => reader.old \in T!Snap

\* TrendsHappened, of what was found.
AnswerHappened ==
    Found =>
        LET a == reader.answer
        IN  /\ a.from < a.to
            /\ \A p \in DOMAIN a.trends : p \in DOMAIN reader.old.players =>
                  /\ a.trends[p] \in T!SaidAbout(p, a.to)
                  /\ \E f \in T!SaidAbout(p, a.from) : f # a.trends[p]

\* AnswerSpansTheRange, of what was found.
AnswerSpans ==
    bounds.rot = 0 /\ (Found \/ reader.stage = "noted") /\ T!Several(reader.dates) =>
        /\ Found /\ {reader.answer.from, reader.answer.to} \subseteq reader.dates
        /\ \A d \in reader.dates : reader.answer.from <= d /\ d <= reader.answer.to

TrendsInv == /\ TrendsType /\ Logged /\ WriterOk /\ FilesOk /\ ReaderOk
             /\ AnswerHappened /\ AnswerSpans

\* What the assumptions say of days.
LEMMA Days == /\ LastDay \in Nat /\ None # Bad /\ None \notin T!Snap /\ Bad \notin T!Snap
              /\ Zero \in Facts /\ T!AllDays \subseteq Nat /\ 0 \in T!AllDays
  BY PartsAssumption DEF T!TrendsAssumption, T!AllDays

\* What was once said about a day goes on to have been said.
LEMMA SaidStays ==
    ASSUME \A x \in T!AllDays, p \in TrendPlayers : log[x][p] \subseteq log'[x][p],
           NEW p \in TrendPlayers, NEW d
    PROVE  T!SaidAbout(p, d) \subseteq T!SaidAbout(p, d)'
  BY DEF T!SaidAbout

\* What was said on a day is told of that day and of the two after it.
LEMMA SaidWhen ==
    ASSUME NEW p \in TrendPlayers, NEW d, NEW x \in T!AllDays, x <= d, d <= x + 2, NEW f \in log[x][p]
    PROVE  f \in T!SaidAbout(p, d)
  BY DEF T!SaidAbout

\* A snapshot is of some of the players.
LEMMA SnapPlayers ==
    ASSUME NEW snap \in T!Snap
    PROVE  /\ snap.date \in T!AllDays /\ snap.players \in T!Said
           /\ DOMAIN snap.players \subseteq TrendPlayers
           /\ \A p \in DOMAIN snap.players : snap.players[p] \in Facts
           /\ snap # None /\ snap # Bad
<1>1. snap.date \in T!AllDays /\ snap.players \in T!Said
  BY DEF T!Snap
<1>2. PICK them \in SUBSET TrendPlayers : snap.players \in [them -> Facts]
  BY <1>1 DEF T!Said
<1>3. QED
  BY <1>1, <1>2, Days

\* What the tool has read and answered is not touched by the ticker.
LEMMA WriterMoves ==
    ASSUME TrendsInv, UNCHANGED <<T!world, files, reader, bounds>>, TrendsType', Logged', WriterOk'
    PROVE  TrendsInv'
<1>1. UNCHANGED <<day, log, files, reader, bounds>>
  BY DEF T!world
<1>2. FilesOk'
  BY <1>1 DEF TrendsInv, FilesOk, SaidOk, T!SaidAbout
<1>3. ReaderOk'
  BY <1>1 DEF TrendsInv, ReaderOk, SaidOk, T!SaidAbout, T!Several, Found
<1>4. AnswerHappened' /\ AnswerSpans'
  BY <1>1 DEF TrendsInv, AnswerHappened, T!SaidAbout, AnswerSpans, T!Several, Found
<1>5. QED
  BY <1>2, <1>3, <1>4 DEF TrendsInv

\* A snapshot that has just begun has yet to read anything.
LEMMA TickerStep ==
    ASSUME TrendsInv, T!Fire \/ T!ReadRosters \/ T!WriteTemp \/ T!Skip
    PROVE  TrendsInv'
<1>1. TrendsType /\ Logged /\ WriterOk
  BY DEF TrendsInv
<1>2. UNCHANGED <<T!world, dump, files, reader, bounds>>
  BY DEF T!Fire, T!ReadRosters, T!WriteTemp, T!Skip, T!Written
<1>3. /\ day \in T!AllDays /\ day \in Nat /\ rostered \in SUBSET TrendPlayers /\ writer \in SnapWriter
      /\ T!NotWriting \in SnapWriter
  BY <1>1, Days DEF TrendsType, T!NotWriting, SnapWriter
<1>4. UNCHANGED <<day, fact, rostered, log, dump, files, reader, bounds>>
  BY <1>2 DEF T!world
<1>5. Logged'
  BY <1>1, <1>4 DEF Logged
<1>6. writer' \in SnapWriter /\ WriterOk'
  <2>1. CASE T!Fire
    <3>1. writer' = [stage |-> "rosters", began |-> day, rostered |-> {}, fact |-> None, snap |-> None]
      BY <2>1 DEF T!Fire, T!NotWriting
    <3>2. QED
      BY <1>3, <1>4, <3>1 DEF SnapWriter, WriterOk
  <2>2. CASE T!ReadRosters
    <3>1. writer.stage = "rosters" /\ writer' = [writer EXCEPT !.stage = "dump", !.rostered = rostered]
      BY <2>2 DEF T!ReadRosters
    <3>2. writer'.stage = "dump" /\ writer'.began = writer.began /\ writer' \in SnapWriter
      BY <1>3, <3>1 DEF SnapWriter
    <3>3. QED
      BY <1>1, <1>4, <3>1, <3>2 DEF WriterOk
  <2>3. CASE T!WriteTemp
    <3>1. writer.stage = "write" /\ writer' = [writer EXCEPT !.stage = "rename"]
      BY <2>3 DEF T!WriteTemp
    <3>2. /\ writer'.stage = "rename" /\ writer'.began = writer.began /\ writer'.snap = writer.snap
          /\ writer' \in SnapWriter
      BY <1>3, <3>1 DEF SnapWriter
    <3>3. QED
      BY <1>1, <1>4, <3>1, <3>2 DEF WriterOk, SaidOk, T!SaidAbout
  <2>4. CASE T!Skip
    <3>1. writer' = T!NotWriting /\ writer'.stage = "idle"
      BY <2>4 DEF T!Skip, T!NotWriting
    <3>2. QED
      BY <1>3, <3>1 DEF WriterOk
  <2>5. QED
    BY <2>1, <2>2, <2>3, <2>4
<1>7. TrendsType'
  BY <1>1, <1>4, <1>6 DEF TrendsType
<1>8. QED
  BY <1>2, <1>5, <1>6, <1>7, WriterMoves

\* The copy that may be kept is of the day the snapshot began, or the one before.
LEMMA DumpStep ==
    ASSUME TrendsInv, T!ReadDump
    PROVE  TrendsInv'
<1>1. TrendsType /\ Logged /\ WriterOk
  BY DEF TrendsInv
<1>2. UNCHANGED <<day, fact, rostered, log, files, reader, bounds>> /\ writer.stage = "dump"
  BY DEF T!ReadDump, T!world
<1>3. /\ day \in T!AllDays /\ day \in Nat /\ writer \in SnapWriter /\ fact \in [TrendPlayers -> Facts]
      /\ writer.began \in Nat /\ writer.began <= day
  <2>1. writer.began \in T!AllDays
    BY <1>1 DEF TrendsType, SnapWriter
  <2>2. QED
    BY <1>1, <1>2, <2>1, Days DEF TrendsType, WriterOk
<1>4. CASE T!MayBeLive(dump) /\ UNCHANGED dump /\ writer' = [writer EXCEPT !.stage = "stamp", !.fact = dump.fact]
  <2>1. /\ dump \in [day : T!AllDays, fact : [TrendPlayers -> Facts]] /\ day <= dump.day + 1
        /\ dump.day <= day /\ \A p \in TrendPlayers : dump.fact[p] \in log[dump.day][p]
    BY <1>1, <1>4 DEF T!MayBeLive, TrendsType, Logged
  <2>2. dump.day \in T!AllDays /\ dump.fact \in [TrendPlayers -> Facts]
    BY <2>1
  <2>3. /\ writer'.stage = "stamp" /\ writer'.began = writer.began /\ writer'.fact = dump.fact
        /\ writer' \in SnapWriter
    BY <1>3, <1>4, <2>2 DEF SnapWriter
  <2>4. WriterOk'
    <3>1. dump.day \in Nat
      BY <2>2, Days
    <3>2. writer.began <= dump.day + 1 /\ day <= writer.began + 1
      BY <1>1, <1>2, <1>3, <2>1, <3>1 DEF WriterOk
    <3>3. QED
      BY <1>2, <1>3, <2>1, <2>2, <2>3, <3>2 DEF WriterOk
  <2>5. TrendsType' /\ Logged'
    BY <1>1, <1>2, <1>4, <2>3 DEF TrendsType, Logged
  <2>6. QED
    BY <1>2, <2>4, <2>5, WriterMoves DEF T!world
<1>5. CASE dump' = [day |-> day, fact |-> fact] /\ writer' = [writer EXCEPT !.stage = "stamp", !.fact = fact]
  <2>1. /\ writer'.stage = "stamp" /\ writer'.began = writer.began /\ writer'.fact = fact
        /\ writer' \in SnapWriter
    BY <1>3, <1>5 DEF SnapWriter
  <2>2. \A p \in TrendPlayers : fact[p] \in log[day][p]
    BY <1>1 DEF Logged
  <2>3. WriterOk'
    <3>1. writer.began <= day + 1 /\ day <= writer.began + 1
      BY <1>1, <1>2, <1>3 DEF WriterOk
    <3>2. QED
      BY <1>2, <1>3, <2>1, <2>2, <3>1 DEF WriterOk
  <2>4. TrendsType'
    BY <1>1, <1>2, <1>3, <1>5, <2>1 DEF TrendsType
  <2>5. Logged'
    BY <1>1, <1>2, <1>3, <1>5, <2>2 DEF Logged
  <2>6. QED
    BY <1>2, <2>3, <2>4, <2>5, WriterMoves DEF T!world
<1>6. QED
  BY <1>4, <1>5 DEF T!ReadDump

\* The snapshot is dated at most two days after the dump was what Sleeper said.
LEMMA StampStep ==
    ASSUME TrendsInv, T!Stamp
    PROVE  TrendsInv'
<1>1. TrendsType /\ Logged /\ WriterOk /\ FilesOk
  BY DEF TrendsInv
<1>0. PICK known \in SUBSET writer.rostered :
        writer' = [writer EXCEPT !.stage = "write",
           !.snap = [date |-> day, players |-> [p \in known |-> writer.fact[p]]]]
  BY DEF T!Stamp
<1> DEFINE players_ == [p \in known |-> writer.fact[p]]
           snap_ == [date |-> day, players |-> players_]
<1>2. /\ UNCHANGED <<day, fact, rostered, log, dump, files, reader, bounds>> /\ writer.stage = "stamp"
      /\ writer' = [writer EXCEPT !.stage = "write", !.snap = snap_]
  BY <1>0 DEF T!Stamp, T!world
<1>3. /\ day \in T!AllDays /\ day \in Nat /\ writer \in SnapWriter /\ writer.began \in Nat
      /\ writer.rostered \in SUBSET TrendPlayers /\ writer.fact \in [TrendPlayers -> Facts]
  BY <1>1, <1>2, Days DEF TrendsType, WriterOk, SnapWriter
<1>4. known \subseteq TrendPlayers /\ players_ \in [known -> Facts] /\ players_ \in T!Said
  BY <1>0, <1>3 DEF T!Said
<1>5. snap_ \in T!Snap /\ snap_.date = day /\ snap_.players = players_ /\ snap_ # None
  BY <1>3, <1>4, Days DEF T!Snap
<1>6. SaidOk(snap_)
  <2>1. PICK x \in T!AllDays : /\ x <= day /\ writer.began <= x + 1
                               /\ \A p \in TrendPlayers : writer.fact[p] \in log[x][p]
    BY <1>1, <1>2 DEF WriterOk
  <2>2. day <= x + 2
    BY <1>1, <1>2, <1>3, <2>1, Days DEF WriterOk
  <2>3. \A p \in known : players_[p] \in T!SaidAbout(p, day)
    BY <1>3, <1>4, <2>1, <2>2, SaidWhen
  <2>4. QED
    BY <1>4, <1>5, <2>3 DEF SaidOk
<1> HIDE DEF snap_
<1>7. /\ writer'.stage = "write" /\ writer'.began = writer.began /\ writer'.snap = snap_
      /\ writer' \in SnapWriter
  BY <1>2, <1>3, <1>5 DEF SnapWriter
<1>8. WriterOk'
  <2>1. SaidOk(writer.snap)'
    BY <1>2, <1>6, <1>7 DEF SaidOk, T!SaidAbout
  <2>2. \A d \in T!AllDays : files[d] # None => d <= day
    BY <1>1 DEF FilesOk
  <2>3. QED
    BY <1>1, <1>2, <1>3, <1>5, <1>7, <2>1, <2>2 DEF WriterOk
<1>9. TrendsType' /\ Logged'
  BY <1>1, <1>2, <1>7 DEF TrendsType, Logged
<1>10. QED
  BY <1>2, <1>8, <1>9, WriterMoves DEF T!world

\* The day's file is replaced by one of its own date; those of the days before stay.
LEMMA RenameStep ==
    ASSUME TrendsInv, T!Rename
    PROVE  TrendsInv'
<1>1. TrendsType /\ Logged /\ WriterOk /\ FilesOk /\ ReaderOk /\ AnswerHappened /\ AnswerSpans
  BY DEF TrendsInv
<1> DEFINE s == writer.snap
<1>2. /\ UNCHANGED <<day, fact, rostered, log, dump, reader, bounds>> /\ writer.stage = "rename"
      /\ files' = [files EXCEPT ![s.date] = s] /\ writer' = T!NotWriting
  BY DEF T!Rename, T!world
<1>3. /\ s \in T!Snap /\ SaidOk(s) /\ s.date <= day
      /\ \A d \in T!AllDays : files[d] # None => d <= s.date
  BY <1>1, <1>2 DEF WriterOk, TrendsType, SnapWriter
<1>4. s.date \in T!AllDays /\ s # None /\ s # Bad
  BY <1>3, SnapPlayers
<1>5. \A d \in T!AllDays : files'[d] = IF d = s.date THEN s ELSE files[d]
  BY <1>1, <1>2, <1>4 DEF TrendsType
<1> HIDE DEF s
<1>6. TrendsType'
  <2>1. files' \in [T!AllDays -> T!Snap \cup {None, Bad}]
    BY <1>1, <1>2, <1>3 DEF TrendsType
  <2>2. writer' \in SnapWriter
    BY <1>2, Days DEF T!NotWriting, SnapWriter
  <2>3. QED
    BY <1>1, <1>2, <2>1, <2>2 DEF TrendsType
<1>7. Logged'
  BY <1>1, <1>2 DEF Logged
<1>8. WriterOk'
  BY <1>2 DEF WriterOk, T!NotWriting
<1>9. FilesOk'
  <2>1. \A d \in T!AllDays : files'[d] # None => d <= day
    BY <1>1, <1>3, <1>5 DEF FilesOk
  <2>2. \A d \in T!AllDays : files'[d] \notin {None, Bad} => files'[d].date = d /\ SaidOk(files[d])'
    <3> SUFFICES ASSUME NEW d \in T!AllDays, files'[d] \notin {None, Bad}
                 PROVE  files'[d].date = d /\ SaidOk(files[d])'
      OBVIOUS
    <3>1. CASE d = s.date
      BY <1>2, <1>3, <1>5, <3>1 DEF SaidOk, T!SaidAbout
    <3>2. CASE d # s.date
      BY <1>1, <1>2, <1>5, <3>2 DEF FilesOk, SaidOk, T!SaidAbout
    <3>3. QED
      BY <3>1, <3>2
  <2>3. bounds'.rot = 0 => \A d \in T!AllDays : files'[d] # Bad
    BY <1>1, <1>2, <1>4, <1>5 DEF FilesOk
  <2>4. QED
    BY <1>2, <2>1, <2>2, <2>3 DEF FilesOk
<1>10. ReaderOk'
  <2>1. reader.dates \subseteq T!AllDays
    BY <1>1 DEF TrendsType, SnapReader
  <2>2. reader.stage \in {"old", "new"} =>
            T!Several(reader.dates)' /\ \A d \in reader.dates : files'[d] # None
    BY <1>1, <1>2, <1>4, <1>5, <2>1 DEF ReaderOk, T!Several, Found
  <2>3. ASSUME reader.stage = "new", reader.old # Bad
        PROVE  /\ SaidOk(reader.old)' /\ reader.old.date \in reader.dates
               /\ \A e \in reader.dates : e < reader.old.date => files'[e] = Bad
    <3>1. /\ SaidOk(reader.old) /\ reader.old.date \in reader.dates
          /\ \A e \in reader.dates : e < reader.old.date => files[e] = Bad
          /\ files[reader.old.date] # None
      BY <1>1, <2>3 DEF ReaderOk, Found
    <3>2. SaidOk(reader.old)'
      BY <1>2, <3>1 DEF SaidOk, T!SaidAbout
    <3>3. reader.old.date <= s.date /\ s.date \in Nat /\ \A e \in reader.dates : e \in Nat
      BY <1>3, <1>4, <2>1, <3>1, Days
    <3>4. \A e \in reader.dates : e < reader.old.date => e # s.date
      BY <3>1, <3>3
    <3>5. QED
      BY <1>5, <2>1, <3>1, <3>2, <3>4
  <2>4. QED
    BY <1>1, <1>2, <2>2, <2>3 DEF ReaderOk, Found
<1>11. AnswerHappened' /\ AnswerSpans'
  BY <1>1, <1>2 DEF AnswerHappened, T!SaidAbout, AnswerSpans, T!Several, Found
<1>12. QED
  BY <1>6, <1>7, <1>8, <1>9, <1>10, <1>11 DEF TrendsInv

\* The days listed all have a file, and there are several or the tool says so.
LEMMA ListStep ==
    ASSUME TrendsInv, T!List
    PROVE  TrendsInv'
<1>1. TrendsType /\ Logged /\ WriterOk /\ FilesOk
  BY DEF TrendsInv
<1> DEFINE recent == {d \in T!AllDays : files[d] # None /\ d + Window >= day}
<1>2. /\ UNCHANGED <<day, fact, rostered, log, dump, writer, files, bounds>>
      /\ reader' = IF T!Several(recent)
                   THEN [T!NotReading EXCEPT !.stage = "old", !.dates = recent]
                   ELSE [T!NotReading EXCEPT !.stage = "noted", !.dates = recent]
  BY DEF T!List, T!world
<1>3. recent \subseteq T!AllDays /\ \A d \in recent : files[d] # None
  OBVIOUS
<1> HIDE DEF recent
<1>4. /\ reader'.dates = recent /\ reader' \in SnapReader
      /\ \/ reader'.stage = "old" /\ T!Several(recent)
         \/ reader'.stage = "noted" /\ ~T!Several(recent)
  <2>1. T!NotReading \in SnapReader
    BY DEF T!NotReading, SnapReader
  <2>2. CASE T!Several(recent)
    BY <1>2, <1>3, <2>1, <2>2 DEF SnapReader
  <2>3. CASE ~T!Several(recent)
    BY <1>2, <1>3, <2>1, <2>3 DEF SnapReader
  <2>4. QED
    BY <2>2, <2>3
<1>5. TrendsType'
  BY <1>1, <1>2, <1>4 DEF TrendsType
<1>6. Logged' /\ WriterOk' /\ FilesOk'
  BY <1>1, <1>2 DEF Logged, WriterOk, FilesOk, SaidOk, T!SaidAbout
<1>7. ReaderOk'
  BY <1>2, <1>3, <1>4 DEF ReaderOk, T!Several, Found
<1>8. AnswerHappened' /\ AnswerSpans'
  BY <1>4 DEF AnswerHappened, AnswerSpans, T!Several, Found
<1>9. QED
  BY <1>5, <1>6, <1>7, <1>8 DEF TrendsInv

\* A file that can be read is of its day and tells what was so.
LEMMA ReadableSnaps ==
    ASSUME TrendsInv, NEW from \in {"oldest", "newest"}, NEW snap, snap # Bad, T!firstReadable(from, snap)
    PROVE  \E d \in reader.dates :
              /\ d \in T!AllDays /\ files[d] # Bad /\ snap = files[d]
              /\ reader.stage \in {"old", "new"} => snap \in T!Snap /\ snap.date = d /\ SaidOk(snap)
              /\ \A e \in reader.dates : files[e] # Bad => IF from = "oldest" THEN d <= e ELSE e <= d
<1>1. TrendsType /\ FilesOk /\ ReaderOk
  BY DEF TrendsInv
<1>2. PICK d \in {d \in reader.dates : files[d] # Bad} :
        /\ snap = files[d]
        /\ \A e \in {e \in reader.dates : files[e] # Bad} : IF from = "oldest" THEN d <= e ELSE e <= d
  BY DEF T!firstReadable
<1>3. d \in reader.dates /\ d \in T!AllDays /\ files[d] # Bad
  BY <1>1, <1>2 DEF TrendsType, SnapReader
<1>4. ASSUME reader.stage \in {"old", "new"} PROVE snap \in T!Snap /\ snap.date = d /\ SaidOk(snap)
  <2>1. files[d] \notin {None, Bad} /\ files[d] \in T!Snap \cup {None, Bad}
    BY <1>1, <1>3, <1>4 DEF ReaderOk, TrendsType, Found
  <2>2. files[d].date = d /\ SaidOk(files[d])
    BY <1>1, <1>3, <2>1 DEF FilesOk
  <2>3. QED
    BY <1>2, <2>1, <2>2
<1>5. QED
  BY <1>2, <1>3, <1>4

\* As long as no file rots, there is one to be read.
LEMMA SomeReadable ==
    ASSUME TrendsInv, NEW from, T!firstReadable(from, Bad), reader.stage \in {"old", "new"}
    PROVE  bounds.rot # 0
<1>1. PICK d \in reader.dates : TRUE
  BY DEF TrendsInv, ReaderOk, T!Several, Found
<1>2. d \in T!AllDays
  BY <1>1 DEF TrendsInv, TrendsType, SnapReader
<1>3. CASE {e \in reader.dates : files[e] # Bad} = {}
  BY <1>1, <1>2, <1>3 DEF TrendsInv, FilesOk
<1>4. CASE \E e \in {e \in reader.dates : files[e] # Bad} : Bad = files[e]
  BY <1>4
<1>5. QED
  BY <1>3, <1>4 DEF T!firstReadable

\* The oldest snapshot that can be read is of a listed day and true of it.
LEMMA OldStep ==
    ASSUME TrendsInv, T!ReadOld
    PROVE  TrendsInv'
<1>1. TrendsType /\ Logged /\ WriterOk /\ FilesOk /\ ReaderOk
  BY DEF TrendsInv
<1>2. PICK old \in T!Snap \cup {Bad} :
        /\ T!firstReadable("oldest", old)
        /\ reader' = [reader EXCEPT !.stage = "new", !.old = old]
  BY DEF T!ReadOld
<1>3. UNCHANGED <<day, fact, rostered, log, dump, writer, files, bounds>> /\ reader.stage = "old"
  BY DEF T!ReadOld, T!world
<1>4. reader \in SnapReader
  BY <1>1 DEF TrendsType
<1>5. /\ reader'.stage = "new" /\ reader'.old = old /\ reader'.dates = reader.dates
      /\ reader' \in SnapReader
  BY <1>2, <1>4 DEF SnapReader
<1>6. TrendsType'
  BY <1>1, <1>3, <1>5 DEF TrendsType
<1>7. Logged' /\ WriterOk' /\ FilesOk'
  BY <1>1, <1>3 DEF Logged, WriterOk, FilesOk, SaidOk, T!SaidAbout
<1>8. old # None /\ (bounds.rot = 0 => old # Bad)
  BY <1>2, <1>3, Days, SomeReadable
<1>9. ASSUME old # Bad
      PROVE  /\ SaidOk(old) /\ old.date \in reader.dates
             /\ \A e \in reader.dates : e < old.date => files[e] = Bad
  <2>1. PICK d \in reader.dates :
              /\ d \in T!AllDays /\ old.date = d /\ SaidOk(old)
              /\ \A e \in reader.dates : files[e] # Bad => d <= e
    BY <1>2, <1>3, <1>9, ReadableSnaps
  <2>2. \A e \in reader.dates : e \in Nat
    BY <1>4, Days DEF SnapReader
  <2>3. QED
    BY <2>1, <2>2
<1>10. ReaderOk'
  <2>1. old # Bad => SaidOk(reader.old)'
    BY <1>3, <1>5, <1>9 DEF SaidOk, T!SaidAbout
  <2>2. T!Several(reader.dates)' /\ \A d \in reader.dates : files[d] # None
    BY <1>1, <1>3, <1>5 DEF ReaderOk, T!Several, Found
  <2>3. QED
    BY <1>3, <1>5, <1>8, <1>9, <2>1, <2>2 DEF ReaderOk, Found
<1>11. AnswerHappened' /\ AnswerSpans'
  BY <1>5 DEF AnswerHappened, AnswerSpans, Found
<1>12. QED
  BY <1>6, <1>7, <1>10, <1>11 DEF TrendsInv

\* What is told of two snapshots was told about their days, and differed.
LEMMA DiffTells ==
    ASSUME NEW old \in T!Snap, NEW new \in T!Snap, SaidOk(old), SaidOk(new),
           NEW p \in DOMAIN T!diffSnapshots(old, new), p \in DOMAIN old.players
    PROVE  /\ T!diffSnapshots(old, new)[p] \in T!SaidAbout(p, new.date)
           /\ old.players[p] \in T!SaidAbout(p, old.date)
           /\ old.players[p] # T!diffSnapshots(old, new)[p]
<1>1. p \in DOMAIN new.players /\ old.players[p] # new.players[p]
  BY DEF T!diffSnapshots, T!Differing, T!Of
<1>2. T!diffSnapshots(old, new)[p] = new.players[p]
  BY DEF T!diffSnapshots
<1>3. QED
  BY <1>1, <1>2 DEF SaidOk

\* What is reported is of some of the players.
LEMMA DiffType ==
    ASSUME NEW old \in T!Snap, NEW new \in T!Snap
    PROVE  T!diffSnapshots(old, new) \in T!Said
<1>1. T!Differing(old, new) \in SUBSET TrendPlayers
  BY SnapPlayers DEF T!Differing
<1>2. T!diffSnapshots(old, new) \in [T!Differing(old, new) -> Facts]
  BY SnapPlayers DEF T!diffSnapshots, T!Differing
<1>3. QED
  BY <1>1, <1>2 DEF T!Said

\* The older snapshot's day comes first, and no listed day that can be read is
\* outside the two.
LEMMA NewStep ==
    ASSUME TrendsInv, T!ReadNew
    PROVE  TrendsInv'
<1>1. TrendsType /\ Logged /\ WriterOk /\ FilesOk /\ ReaderOk
  BY DEF TrendsInv
<1> DEFINE old == reader.old
<1>2. PICK new \in T!Snap \cup {Bad} :
        /\ T!firstReadable("newest", new)
        /\ reader' = IF Bad \in {old, new} \/ old.date = new.date
                     THEN [reader EXCEPT !.stage = "noted"]
                     ELSE [reader EXCEPT !.stage = "names",
                              !.answer = [from |-> old.date, to |-> new.date,
                                          trends |-> T!diffSnapshots(old, new)]]
  BY DEF T!ReadNew
<1>3. UNCHANGED <<day, fact, rostered, log, dump, writer, files, bounds>> /\ reader.stage = "new"
  BY DEF T!ReadNew, T!world
<1>4. reader \in SnapReader /\ old \in T!Snap \cup {Bad}
  BY <1>1, <1>3 DEF TrendsType, SnapReader, ReaderOk, Found
<1>5. Logged' /\ WriterOk' /\ FilesOk'
  BY <1>1, <1>3 DEF Logged, WriterOk, FilesOk, SaidOk, T!SaidAbout
<1>6. reader.dates \subseteq Nat
  BY <1>4, Days DEF SnapReader
<1>7. ASSUME old # Bad, new # Bad
      PROVE  /\ old \in T!Snap /\ new \in T!Snap /\ SaidOk(old) /\ SaidOk(new)
             /\ old.date \in reader.dates /\ new.date \in reader.dates /\ old.date <= new.date
             /\ \A e \in reader.dates : files[e] # Bad => old.date <= e /\ e <= new.date
  <2>1. /\ old \in T!Snap /\ SaidOk(old) /\ old.date \in reader.dates
        /\ \A e \in reader.dates : e < old.date => files[e] = Bad
    BY <1>1, <1>3, <1>4, <1>7 DEF ReaderOk, Found
  <2>2. PICK d \in reader.dates :
              /\ files[d] # Bad /\ new \in T!Snap /\ new.date = d /\ SaidOk(new)
              /\ \A e \in reader.dates : files[e] # Bad => e <= d
    BY <1>2, <1>3, <1>7, ReadableSnaps
  <2>3. QED
    BY <1>6, <2>1, <2>2
<1>8. bounds.rot = 0 => old # Bad /\ new # Bad /\ \A e \in reader.dates : files[e] # Bad
  <2>1. bounds.rot = 0 => old # Bad /\ new # Bad
    BY <1>1, <1>2, <1>3, SomeReadable DEF ReaderOk, Found
  <2>2. reader.dates \subseteq T!AllDays
    BY <1>4 DEF SnapReader
  <2>3. QED
    BY <1>1, <2>1, <2>2 DEF FilesOk
<1>9. CASE Bad \in {old, new} \/ old.date = new.date
  <2>1. reader'.stage = "noted" /\ reader'.dates = reader.dates /\ reader' \in SnapReader
    BY <1>2, <1>4, <1>9 DEF SnapReader
  <2>2. bounds.rot = 0 => ~T!Several(reader.dates)
    <3> SUFFICES ASSUME bounds.rot = 0, NEW d \in reader.dates, NEW e \in reader.dates, d # e PROVE FALSE
      BY DEF T!Several
    <3>1. old.date = new.date
      BY <1>8, <1>9
    <3>2. old.date \in Nat /\ d \in Nat /\ e \in Nat /\ old.date <= d /\ d <= old.date /\ old.date <= e /\ e <= old.date
      BY <1>6, <1>7, <1>8, <3>1
    <3>3. QED
      BY <3>2
  <2>3. AnswerSpans'
    BY <1>3, <2>1, <2>2 DEF AnswerSpans, T!Several, Found
  <2>4. TrendsType' /\ ReaderOk' /\ AnswerHappened'
    BY <1>1, <1>3, <2>1 DEF TrendsType, ReaderOk, AnswerHappened, Found
  <2>5. QED
    BY <1>5, <2>3, <2>4 DEF TrendsInv
<1>10. CASE ~(Bad \in {old, new} \/ old.date = new.date)
  <2> DEFINE a == [from |-> old.date, to |-> new.date, trends |-> T!diffSnapshots(old, new)]
  <2>1. /\ old \in T!Snap /\ new \in T!Snap /\ SaidOk(old) /\ SaidOk(new)
        /\ old.date \in reader.dates /\ new.date \in reader.dates /\ old.date < new.date
        /\ \A e \in reader.dates : files[e] # Bad => old.date <= e /\ e <= new.date
    BY <1>6, <1>7, <1>10
  <2>2. a \in [from : T!AllDays, to : T!AllDays, trends : T!Said]
    BY <2>1, SnapPlayers, DiffType
  <2>3. a.from = old.date /\ a.to = new.date /\ a.trends = T!diffSnapshots(old, new)
    OBVIOUS
  <2>4. reader' = [reader EXCEPT !.stage = "names", !.answer = a]
    BY <1>2, <1>10
  <2> HIDE DEF a
  <2>5. /\ reader'.stage = "names" /\ reader'.dates = reader.dates /\ reader'.old = old
        /\ reader'.answer = a /\ reader' \in SnapReader
    BY <1>4, <2>2, <2>4 DEF SnapReader
  <2>6. AnswerHappened'
    <3>1. ASSUME NEW p \in DOMAIN a.trends, p \in DOMAIN old.players
          PROVE  a.trends[p] \in T!SaidAbout(p, a.to) /\ \E f \in T!SaidAbout(p, a.from) : f # a.trends[p]
      BY <2>1, <2>3, <3>1, DiffTells
    <3>2. QED
      BY <1>3, <2>1, <2>3, <2>5, <3>1 DEF AnswerHappened, T!SaidAbout, Found
  <2>7. AnswerSpans'
    BY <1>3, <1>8, <2>1, <2>3, <2>5 DEF AnswerSpans, Found
  <2>8. TrendsType' /\ ReaderOk'
    BY <1>1, <1>3, <2>1, <2>5 DEF TrendsType, ReaderOk, Found
  <2>9. QED
    BY <1>5, <2>6, <2>7, <2>8 DEF TrendsInv
<1>11. QED
  BY <1>9, <1>10

\* The names are not kept with the answer, and a dump fetched for them is today's.
LEMMA NamesStep ==
    ASSUME TrendsInv, T!ReadNames
    PROVE  TrendsInv'
<1>1. TrendsType /\ Logged /\ WriterOk /\ FilesOk /\ ReaderOk /\ AnswerHappened /\ AnswerSpans
  BY DEF TrendsInv
<1>2. /\ UNCHANGED <<day, fact, rostered, log, writer, files, bounds>> /\ reader.stage = "names"
      /\ UNCHANGED dump \/ dump' = [day |-> day, fact |-> fact]
      /\ \/ reader' = [reader EXCEPT !.stage = "answered"]
         \/ reader' = [T!NotReading EXCEPT !.stage = "failed"]
  BY DEF T!ReadNames, T!world
<1>3. /\ day \in T!AllDays /\ day \in Nat /\ fact \in [TrendPlayers -> Facts] /\ reader \in SnapReader
      /\ \A p \in TrendPlayers : fact[p] \in log[day][p]
  BY <1>1, Days DEF TrendsType, Logged
<1>4. /\ reader' \in SnapReader
      /\ \/ /\ reader'.stage = "answered" /\ reader'.dates = reader.dates
            /\ reader'.old = reader.old /\ reader'.answer = reader.answer
         \/ reader'.stage = "failed"
  <2>1. CASE reader' = [reader EXCEPT !.stage = "answered"]
    BY <1>3, <2>1 DEF SnapReader
  <2>2. CASE reader' = [T!NotReading EXCEPT !.stage = "failed"]
    BY <2>2 DEF SnapReader, T!NotReading
  <2>3. QED
    BY <1>2, <2>1, <2>2
<1>5. TrendsType' /\ Logged'
  <2>1. CASE UNCHANGED dump
    BY <1>1, <1>2, <1>4, <2>1 DEF TrendsType, Logged
  <2>2. CASE dump' = [day |-> day, fact |-> fact]
    BY <1>1, <1>2, <1>3, <1>4, <2>2 DEF TrendsType, Logged
  <2>3. QED
    BY <1>2, <2>1, <2>2
<1>6. WriterOk' /\ FilesOk'
  BY <1>1, <1>2 DEF WriterOk, FilesOk, SaidOk, T!SaidAbout
<1>7. ReaderOk' /\ AnswerHappened' /\ AnswerSpans'
  <2>1. CASE reader'.stage = "failed"
    BY <2>1 DEF ReaderOk, AnswerHappened, AnswerSpans, Found
  <2>2. CASE reader'.stage = "answered"
    BY <1>1, <1>2, <1>4, <2>2
       DEF ReaderOk, AnswerHappened, AnswerSpans, Found, T!SaidAbout, T!Several
  <2>3. QED
    BY <1>4, <2>1, <2>2
<1>8. QED
  BY <1>5, <1>6, <1>7 DEF TrendsInv

\* What was told of a day is not taken back as more is told.
LEMMA LogGrows ==
    ASSUME TrendsType, \A x \in T!AllDays, p \in TrendPlayers : log[x][p] \subseteq log'[x][p],
           NEW snap \in T!Snap, SaidOk(snap)
    PROVE  SaidOk(snap)'
<1>1. DOMAIN snap.players \subseteq TrendPlayers
  BY SnapPlayers
<1>2. \A p \in DOMAIN snap.players : T!SaidAbout(p, snap.date) \subseteq T!SaidAbout(p, snap.date)'
  BY <1>1, SaidStays
<1>3. QED
  BY <1>2 DEF SaidOk

\* So the world's moves leave the snapshots and the answer true.
LEMMA WorldMoves ==
    ASSUME TrendsInv, UNCHANGED <<dump, writer, files, reader, bounds>> \/
                      (UNCHANGED <<dump, writer, files, reader>> /\ bounds'.rot = bounds.rot),
           \A x \in T!AllDays, p \in TrendPlayers : log[x][p] \subseteq log'[x][p],
           day' \in Nat, day <= day', writer.stage # "idle" => day' <= writer.began + 1,
           TrendsType', Logged'
    PROVE  TrendsInv'
<1>1. TrendsType /\ Logged /\ WriterOk /\ FilesOk /\ ReaderOk /\ AnswerHappened /\ AnswerSpans
  BY DEF TrendsInv
<1>2. UNCHANGED <<dump, writer, files, reader>> /\ bounds'.rot = bounds.rot
  OBVIOUS
<1>3. day \in Nat /\ writer \in SnapWriter /\ reader \in SnapReader /\ writer.began \in Nat
  BY <1>1, Days DEF TrendsType, SnapWriter
<1>4. WriterOk'
  <2>1. writer.stage # "idle" => writer.began <= day' /\ day' <= writer.began + 1
    BY <1>1, <1>3 DEF WriterOk
  <2>2. writer.stage = "stamp" =>
            /\ writer.fact \in [TrendPlayers -> Facts]
            /\ \E x \in T!AllDays :
                  /\ x <= day' /\ writer.began <= x + 1
                  /\ \A p \in TrendPlayers : writer.fact[p] \in log'[x][p]
    <3> SUFFICES ASSUME writer.stage = "stamp"
                 PROVE  /\ writer.fact \in [TrendPlayers -> Facts]
                        /\ \E x \in T!AllDays :
                              /\ x <= day' /\ writer.began <= x + 1
                              /\ \A p \in TrendPlayers : writer.fact[p] \in log'[x][p]
      OBVIOUS
    <3>1. PICK x \in T!AllDays : /\ x <= day /\ writer.began <= x + 1
                                 /\ \A p \in TrendPlayers : writer.fact[p] \in log[x][p]
      BY <1>1 DEF WriterOk
    <3>2. x <= day' /\ \A p \in TrendPlayers : writer.fact[p] \in log'[x][p]
      BY <1>3, <3>1, Days
    <3>3. QED
      BY <1>1, <3>1, <3>2 DEF WriterOk
  <2>3. writer.stage \in {"write", "rename"} =>
            /\ writer.snap # None /\ SaidOk(writer.snap)' /\ writer.snap.date <= day'
            /\ \A d \in T!AllDays : files[d] # None => d <= writer.snap.date
    <3> SUFFICES ASSUME writer.stage \in {"write", "rename"}
                 PROVE  /\ writer.snap # None /\ SaidOk(writer.snap)' /\ writer.snap.date <= day'
                        /\ \A d \in T!AllDays : files[d] # None => d <= writer.snap.date
      OBVIOUS
    <3>1. /\ writer.snap \in T!Snap /\ SaidOk(writer.snap) /\ writer.snap.date <= day
          /\ \A d \in T!AllDays : files[d] # None => d <= writer.snap.date
      BY <1>1, <1>3 DEF WriterOk, SnapWriter
    <3>2. \A snap \in T!Snap : SaidOk(snap) => SaidOk(snap)'
      BY <1>1, LogGrows
    <3>3. writer.snap.date <= day'
      <4>1. writer.snap.date \in Nat
        BY <3>1, SnapPlayers, Days
      <4>2. QED
        BY <1>3, <3>1, <4>1
    <3>4. SaidOk(writer.snap)'
      <4>1. PICK snap \in T!Snap : snap = writer.snap /\ SaidOk(snap)
        BY <3>1
      <4>2. SaidOk(snap)'
        BY <3>2, <4>1
      <4>3. QED
        BY <1>2, <4>1, <4>2 DEF SaidOk, T!SaidAbout
    <3>5. QED
      BY <3>1, <3>3, <3>4, Days
  <2>4. QED
    BY <1>2, <2>1, <2>2, <2>3 DEF WriterOk
<1>5. FilesOk'
  <2>1. \A d \in T!AllDays : files[d] # None => d <= day'
    BY <1>1, <1>3, Days DEF FilesOk
  <2>2. ASSUME NEW d \in T!AllDays, files[d] \notin {None, Bad}
        PROVE  files[d].date = d /\ SaidOk(files[d])'
    <3>1. files[d] \in T!Snap /\ SaidOk(files[d]) /\ files[d].date = d
      BY <1>1, <2>2 DEF TrendsType, FilesOk
    <3>2. PICK snap \in T!Snap : snap = files[d] /\ SaidOk(snap)
      BY <3>1
    <3>3. SaidOk(snap)'
      BY <1>1, <3>2, LogGrows
    <3>4. QED
      BY <1>2, <3>1, <3>2, <3>3 DEF SaidOk, T!SaidAbout
  <2>3. QED
    BY <1>1, <1>2, <2>1, <2>2 DEF FilesOk
<1>6. ReaderOk'
  <2>1. reader.stage = "new" /\ reader.old # Bad => SaidOk(reader.old)'
    <3> SUFFICES ASSUME reader.stage = "new", reader.old # Bad PROVE SaidOk(reader.old)'
      OBVIOUS
    <3>1. reader.old \in T!Snap /\ SaidOk(reader.old)
      BY <1>1, <1>3 DEF ReaderOk, SnapReader, Found
    <3>2. PICK snap \in T!Snap : snap = reader.old /\ SaidOk(snap)
      BY <3>1
    <3>3. SaidOk(snap)'
      BY <1>1, <3>2, LogGrows
    <3>4. QED
      BY <1>2, <3>2, <3>3 DEF SaidOk, T!SaidAbout
  <2>2. QED
    BY <1>1, <1>2, <2>1 DEF ReaderOk, T!Several, Found
<1>7. AnswerHappened'
  <2> DEFINE a == reader.answer
  <2> SUFFICES ASSUME Found
               PROVE  /\ a.from < a.to
                      /\ \A p \in DOMAIN a.trends : p \in DOMAIN reader.old.players =>
                            /\ a.trends[p] \in T!SaidAbout(p, a.to)'
                            /\ \E f \in T!SaidAbout(p, a.from)' : f # a.trends[p]
    BY <1>2 DEF AnswerHappened, T!SaidAbout, Found
  <2>1. a.from < a.to
    BY <1>1 DEF AnswerHappened, Found
  <2>2. ASSUME NEW p \in DOMAIN a.trends, p \in DOMAIN reader.old.players
        PROVE  /\ a.trends[p] \in T!SaidAbout(p, a.to)'
               /\ \E f \in T!SaidAbout(p, a.from)' : f # a.trends[p]
    <3>1. a.trends[p] \in T!SaidAbout(p, a.to) /\ \E f \in T!SaidAbout(p, a.from) : f # a.trends[p]
      BY <1>1, <2>2 DEF AnswerHappened, Found
    <3>2. p \in TrendPlayers
      BY <1>1, <2>2, SnapPlayers DEF ReaderOk, Found
    <3>3. QED
      BY <1>2, <3>1, <3>2 DEF T!SaidAbout
  <2>3. QED
    BY <2>1, <2>2
<1>8. AnswerSpans'
  BY <1>1, <1>2 DEF AnswerSpans, T!Several, Found
<1>9. QED
  BY <1>4, <1>5, <1>6, <1>7, <1>8 DEF TrendsInv

\* A new day begins its log with what is said then.
LEMMA DayStep ==
    ASSUME TrendsInv, T!NextDay
    PROVE  TrendsInv'
<1>1. TrendsType /\ Logged
  BY DEF TrendsInv
<1>2. /\ day < LastDay /\ day' = day + 1 /\ (writer.stage # "idle" => writer.began = day)
      /\ log' = [log EXCEPT ![day'] = [p \in TrendPlayers |-> {fact[p]}]]
      /\ UNCHANGED <<fact, rostered, dump, writer, files, reader, bounds>>
  BY DEF T!NextDay
<1>3. day \in Nat /\ day' \in T!AllDays /\ day' \in Nat /\ day' > day
  BY <1>1, <1>2, Days DEF TrendsType, T!AllDays
<1> DEFINE today == [p \in TrendPlayers |-> {fact[p]}]
<1>4. today \in [TrendPlayers -> SUBSET Facts] /\ \A p \in TrendPlayers : today[p] = {fact[p]}
  BY <1>1 DEF TrendsType
<1> HIDE DEF today
<1>5. /\ log' \in [T!AllDays -> [TrendPlayers -> SUBSET Facts]]
      /\ \A x \in T!AllDays : log'[x] = IF x = day' THEN today ELSE log[x]
  BY <1>1, <1>2, <1>3, <1>4 DEF TrendsType, today
<1>6. \A x \in T!AllDays, p \in TrendPlayers : log[x][p] \subseteq log'[x][p]
  BY <1>1, <1>3, <1>5 DEF Logged
<1>7. TrendsType'
  BY <1>1, <1>2, <1>3, <1>5 DEF TrendsType
<1>8. Logged'
  <2>1. \A p \in TrendPlayers : fact[p] \in log'[day'][p]
    BY <1>3, <1>4, <1>5
  <2>2. \A d \in T!AllDays, p \in TrendPlayers : d > day' => log'[d][p] = {}
    BY <1>1, <1>2, <1>3, <1>5, Days DEF Logged
  <2>3. dump # None =>
            dump.day <= day' /\ \A p \in TrendPlayers : dump.fact[p] \in log'[dump.day][p]
    <3> SUFFICES ASSUME dump # None
                 PROVE  dump.day <= day' /\ \A p \in TrendPlayers : dump.fact[p] \in log'[dump.day][p]
      OBVIOUS
    <3>1. /\ dump.day \in T!AllDays /\ dump.day \in Nat /\ dump.day <= day
          /\ \A p \in TrendPlayers : dump.fact[p] \in log[dump.day][p]
      BY <1>1, Days DEF TrendsType, Logged
    <3>2. QED
      BY <1>3, <1>6, <3>1
  <2>4. QED
    BY <1>2, <2>1, <2>2, <2>3 DEF Logged
<1>9. QED
  BY <1>2, <1>3, <1>6, <1>7, <1>8, WorldMoves

\* A counter that goes up is a number still, and not zero.
LEMMA BoundStep ==
    ASSUME TrendsType, NEW b \in {"changes", "crashes", "rot"}, NEW max, T!Within(b, max)
    PROVE  bounds' \in [changes : Nat, crashes : Nat, rot : Nat] /\ bounds'[b] # 0
           /\ (b # "rot" => bounds'.rot = bounds.rot)
<1>1. bounds' = [bounds EXCEPT ![b] = bounds[b] + 1] /\ bounds \in [changes : Nat, crashes : Nat, rot : Nat]
  BY DEF T!Within, TrendsType
<1>2. QED
  BY <1>1

\* What changes today is added to what was said today.
LEMMA ChangeStep ==
    ASSUME TrendsInv, T!Change
    PROVE  TrendsInv'
<1>1. TrendsType /\ Logged /\ WriterOk
  BY DEF TrendsInv
<1>2. /\ UNCHANGED <<day, dump, writer, files, reader>>
      /\ bounds' \in [changes : Nat, crashes : Nat, rot : Nat] /\ bounds'.rot = bounds.rot
  BY <1>1, BoundStep DEF T!Change
<1>3. /\ day \in T!AllDays /\ day \in Nat /\ day <= day'
      /\ (writer.stage # "idle" => day' <= writer.began + 1)
  BY <1>1, <1>2, Days DEF TrendsType, WriterOk
<1>4. ASSUME NEW p \in TrendPlayers, NEW f \in Facts,
             fact' = [fact EXCEPT ![p] = f], log' = [log EXCEPT ![day][p] = @ \cup {f}], UNCHANGED rostered
      PROVE  TrendsInv'
  <2> DEFINE row == [log[day] EXCEPT ![p] = @ \cup {f}]
  <2>1. log[day] \in [TrendPlayers -> SUBSET Facts]
    BY <1>1, <1>3 DEF TrendsType
  <2>2. /\ row \in [TrendPlayers -> SUBSET Facts]
        /\ \A q \in TrendPlayers : row[q] = IF q = p THEN log[day][p] \cup {f} ELSE log[day][q]
    BY <1>4, <2>1
  <2>3. log' = [log EXCEPT ![day] = row]
    BY <1>4
  <2> HIDE DEF row
  <2>4. /\ log' \in [T!AllDays -> [TrendPlayers -> SUBSET Facts]]
        /\ \A x \in T!AllDays : log'[x] = IF x = day THEN row ELSE log[x]
    BY <1>1, <1>3, <2>2, <2>3 DEF TrendsType
  <2>5. \A x \in T!AllDays, q \in TrendPlayers : log[x][q] \subseteq log'[x][q]
    BY <2>2, <2>4
  <2>6. /\ fact' \in [TrendPlayers -> Facts]
        /\ \A q \in TrendPlayers : fact'[q] = IF q = p THEN f ELSE fact[q]
    BY <1>1, <1>4 DEF TrendsType
  <2>7. TrendsType'
    BY <1>1, <1>2, <1>4, <2>4, <2>6 DEF TrendsType
  <2>8. Logged'
    <3>1. \A q \in TrendPlayers : fact'[q] \in log'[day'][q]
      BY <1>1, <1>2, <1>3, <2>2, <2>4, <2>6 DEF Logged
    <3>2. \A d \in T!AllDays, q \in TrendPlayers : d > day' => log'[d][q] = {}
      BY <1>1, <1>2, <1>3, <2>4 DEF Logged
    <3>3. dump # None =>
              dump.day <= day' /\ \A q \in TrendPlayers : dump.fact[q] \in log'[dump.day][q]
      BY <1>1, <1>2, <2>5 DEF TrendsType, Logged
    <3>4. QED
      BY <1>2, <3>1, <3>2, <3>3 DEF Logged
  <2>9. QED
    BY <1>2, <1>3, <2>5, <2>7, <2>8, WorldMoves
<1>5. ASSUME NEW p \in TrendPlayers, rostered' = (rostered \ {p}) \cup ({p} \ rostered), UNCHANGED <<fact, log>>
      PROVE  TrendsInv'
  <2>1. TrendsType'
    BY <1>1, <1>2, <1>5 DEF TrendsType
  <2>2. Logged'
    BY <1>1, <1>2, <1>5 DEF Logged
  <2>3. \A x \in T!AllDays, q \in TrendPlayers : log[x][q] \subseteq log'[x][q]
    BY <1>5
  <2>4. QED
    BY <1>2, <1>3, <2>1, <2>2, <2>3, WorldMoves
<1>6. QED
  BY <1>4, <1>5 DEF T!Change

\* A crash takes the writer, the reader and the copy, and no file.
LEMMA CrashStep ==
    ASSUME TrendsInv, T!Crash
    PROVE  TrendsInv'
<1>1. TrendsType /\ Logged /\ FilesOk
  BY DEF TrendsInv
<1>2. /\ UNCHANGED <<day, fact, rostered, log, files>>
      /\ dump' = None /\ writer' = T!NotWriting /\ reader' = T!NotReading
      /\ bounds' \in [changes : Nat, crashes : Nat, rot : Nat] /\ bounds'.rot = bounds.rot
  BY <1>1, BoundStep DEF T!Crash, T!world
<1>3. writer' \in SnapWriter /\ writer'.stage = "idle" /\ reader' \in SnapReader /\ reader'.stage = "idle"
  BY <1>2, Days DEF T!NotWriting, T!NotReading, SnapWriter, SnapReader
<1>4. TrendsType' /\ Logged' /\ FilesOk'
  BY <1>1, <1>2, <1>3 DEF TrendsType, Logged, FilesOk, SaidOk, T!SaidAbout
<1>5. WriterOk' /\ ReaderOk' /\ AnswerHappened' /\ AnswerSpans'
  BY <1>3 DEF WriterOk, ReaderOk, AnswerHappened, AnswerSpans, Found
<1>6. QED
  BY <1>4, <1>5 DEF TrendsInv

\* A file that rots takes nothing from the others.
LEMMA RotStep ==
    ASSUME TrendsInv, T!Rot
    PROVE  TrendsInv'
<1>1. TrendsType /\ Logged /\ WriterOk /\ FilesOk /\ ReaderOk /\ AnswerHappened
  BY DEF TrendsInv
<1>2. PICK d \in T!AllDays : files[d] \notin {None, Bad} /\ files' = [files EXCEPT ![d] = Bad]
  BY DEF T!Rot
<1>3. /\ UNCHANGED <<day, fact, rostered, log, dump, writer, reader>>
      /\ bounds' \in [changes : Nat, crashes : Nat, rot : Nat] /\ bounds'.rot # 0
  BY <1>1, BoundStep DEF T!Rot, T!world
<1>4. /\ files' \in [T!AllDays -> T!Snap \cup {None, Bad}]
      /\ \A e \in T!AllDays : files'[e] = IF e = d THEN Bad ELSE files[e]
  BY <1>1, <1>2 DEF TrendsType
<1>5. TrendsType' /\ Logged'
  BY <1>1, <1>3, <1>4 DEF TrendsType, Logged
<1>6. WriterOk'
  <2>1. \A e \in T!AllDays : files'[e] # None => files[e] # None
    BY <1>2, <1>4
  <2>2. QED
    BY <1>1, <1>3, <2>1 DEF WriterOk, SaidOk, T!SaidAbout
<1>7. FilesOk'
  BY <1>1, <1>2, <1>3, <1>4 DEF FilesOk, SaidOk, T!SaidAbout
<1>8. ReaderOk'
  <2>1. reader.dates \subseteq T!AllDays
    BY <1>1 DEF TrendsType, SnapReader
  <2>2. \A e \in reader.dates : (files[e] # None => files'[e] # None) /\ (files[e] = Bad => files'[e] = Bad)
    BY <1>4, <2>1, Days
  <2>3. QED
    BY <1>1, <1>3, <2>2 DEF ReaderOk, SaidOk, T!SaidAbout, T!Several, Found
<1>9. AnswerHappened' /\ AnswerSpans'
  BY <1>1, <1>3 DEF AnswerHappened, T!SaidAbout, AnswerSpans, Found
<1>10. QED
  BY <1>5, <1>6, <1>7, <1>8, <1>9 DEF TrendsInv

\* Every step keeps the invariant.
LEMMA TrendsStep ==
    ASSUME TrendsInv, [T!Next]_tVars
    PROVE  TrendsInv'
<1>1. CASE UNCHANGED tVars
  <2>1. UNCHANGED <<T!world, dump, files, reader, bounds, writer>>
    BY <1>1 DEF tVars, T!world
  <2>2. TrendsType' /\ Logged' /\ WriterOk'
    BY <1>1 DEF tVars, TrendsInv, TrendsType, Logged, WriterOk, SaidOk, T!SaidAbout
  <2>3. QED
    BY <2>1, <2>2, WriterMoves
<1>2. QED
  BY <1>1, TickerStep, DumpStep, StampStep, RenameStep, ListStep, OldStep, NewStep, NamesStep,
     DayStep, ChangeStep, CrashStep, RotStep DEF T!Next

\* The invariant, of every behaviour that is of this machine.
LEMMA TrendsInvariant == Spec => [](which = "trends" => TrendsInv)
<1>1. Init => (which = "trends" => TrendsInv)
  <2> SUFFICES ASSUME T!Init PROVE TrendsInv
    BY DEF Init
  <2>1. /\ day = 0 /\ fact \in [TrendPlayers -> Facts] /\ rostered \in SUBSET TrendPlayers
        /\ log = [d \in T!AllDays |-> [p \in TrendPlayers |-> IF d = 0 THEN {fact[p]} ELSE {}]]
        /\ dump = None /\ writer = T!NotWriting
        /\ files = [d \in T!AllDays |-> None] /\ reader = T!NotReading
        /\ bounds = [changes |-> 0, crashes |-> 0, rot |-> 0]
    BY DEF T!Init
  <2>2. writer \in SnapWriter /\ writer.stage = "idle" /\ reader \in SnapReader /\ reader.stage = "idle"
    BY <2>1, Days DEF T!NotWriting, T!NotReading, SnapWriter, SnapReader
  <2>3. log \in [T!AllDays -> [TrendPlayers -> SUBSET Facts]]
    BY <2>1
  <2>4. TrendsType
    BY <2>1, <2>2, <2>3, Days DEF TrendsType
  <2>5. Logged
    BY <2>1, Days DEF Logged
  <2>6. FilesOk
    BY <2>1, Days DEF FilesOk
  <2>7. WriterOk /\ ReaderOk /\ AnswerHappened /\ AnswerSpans
    BY <2>2 DEF WriterOk, ReaderOk, AnswerHappened, AnswerSpans, Found
  <2>8. QED
    BY <2>4, <2>5, <2>6, <2>7 DEF TrendsInv
<1>2. (which = "trends" => TrendsInv) /\ [Next]_vars => (which = "trends" => TrendsInv)'
  <2> SUFFICES ASSUME which = "trends" => TrendsInv, [Next]_vars, which' = "trends"
               PROVE  TrendsInv'
    OBVIOUS
  <2>1. which = "trends"
    BY DEF Next, vars
  <2>2. QED
    BY <2>1, TrendsMove, TrendsStep
<1>3. QED
  BY <1>1, <1>2, PTL DEF Spec

\* snapshot.go, tools_trends.go: for any players, facts, span, crashes and files
\* gone bad, a snapshot tells what was so about its date, and what is reported as
\* a change of a player in both did change.
THEOREM TrendsTold == Spec => []TrendsHappened
<1>1. (which = "trends" => TrendsInv) => TrendsHappened
  <2> SUFFICES ASSUME TrendsInv PROVE T!TrendsHappened
    BY DEF TrendsHappened
  <2>1. \A d \in T!AllDays : files[d] \notin {None, Bad} =>
            \A p \in DOMAIN files[d].players : files[d].players[p] \in T!SaidAbout(p, d)
    BY DEF TrendsInv, FilesOk, SaidOk
  <2>2. QED
    BY <2>1 DEF TrendsInv, AnswerHappened, T!TrendsHappened, Found
<1>2. QED
  BY <1>1, TrendsInvariant, PTL

\* snapshot.go 128: "a reader or crash never sees a partial file", for any number
\* of crashes: as long as no file rots, the answer spans the days listed.
THEOREM RangeSpanned == Spec => []AnswerSpansTheRange
<1>1. (which = "trends" => TrendsInv) => AnswerSpansTheRange
  BY DEF AnswerSpansTheRange, T!AnswerSpansTheRange, TrendsInv, AnswerSpans, Found
<1>2. QED
  BY <1>1, TrendsInvariant, PTL

-----------------------------------------------------------------------------
(* Findings. *)

\* c says what f does, of one of the files.
Tells(c, f, paths) == c.path \in paths /\ c.body = f.body /\ F!ToldLine(c) = f.line

\* f is told of in what is posted.
Told(posted, d, given) ==
    \A i \in DOMAIN given :
        LET paths == IF d = None THEN {given[i].path} ELSE F!resolvePath(d, given[i].path)
        IN  paths # {} => \E c \in posted : Tells(c, given[i], paths)

\* A comment with a note is about the line the note names.
LEMMA AnchoredTells ==
    ASSUME None \notin Nat, NEW f, F!IsFinding(f), NEW file, NEW lines
    PROVE  LET c == F!Anchored(file, lines, f)
           IN  c.path = file /\ c.body = f.body /\ F!ToldLine(c) = f.line
<1>1. f.line \in Nat
  BY DEF F!IsFinding
<1>2. ASSUME NEW c, NEW n, NEW t, c = [path |-> file, body |-> f.body, line |-> n, told |-> t],
             (t = None /\ n = f.line) \/ t = f.line
      PROVE  c.path = file /\ c.body = f.body /\ F!ToldLine(c) = f.line
  <2>1. "told" \in DOMAIN c /\ c.told = t /\ c.line = n /\ c.path = file /\ c.body = f.body
    BY <1>2
  <2> QED BY <2>1, <1>1, <1>2 DEF F!ToldLine
<1> DEFINE n == IF f.line \in lines THEN f.line ELSE F!nearestCommentableLine(lines, f.line)
           t == IF f.line \in lines THEN None ELSE f.line
           c == F!Anchored(file, lines, f)
<1>3. c = [path |-> file, body |-> f.body, line |-> n, told |-> t]
  BY DEF F!Anchored
<1>4. (t = None /\ n = f.line) \/ t = f.line
  OBVIOUS
<1> HIDE DEF c, n, t
<1>5. c.path = file /\ c.body = f.body /\ F!ToldLine(c) = f.line
  BY <1>2, <1>3, <1>4
<1> QED BY <1>5 DEF c

\* A finding left in the body is one still, of the file it was found to be of.
LEMMA BareTells ==
    ASSUME NEW f, F!IsFinding(f), NEW file
    PROVE  LET c == [f EXCEPT !.path = file]
           IN  c.path = file /\ c.body = f.body /\ F!ToldLine(c) = f.line
<1>1. f = [path |-> f.path, line |-> f.line, body |-> f.body]
  BY DEF F!IsFinding
<1>2. ASSUME NEW c, c = [path |-> file, line |-> f.line, body |-> f.body]
      PROVE  c.path = file /\ c.body = f.body /\ F!ToldLine(c) = f.line
  <2>1. "told" \notin DOMAIN c /\ c.path = file /\ c.body = f.body /\ c.line = f.line
    BY <1>2
  <2> QED BY <2>1 DEF F!ToldLine
<1>3. [f EXCEPT !.path = file] = [path |-> file, line |-> f.line, body |-> f.body]
  BY <1>1
<1> QED BY <1>2, <1>3

\* A finding whose file is known is in a comment or in the body.
LEMMA PlacedTold ==
    ASSUME None \notin Nat, NEW d, NEW given, given \in Seq(F!Range(given)),
           \A i \in DOMAIN given : F!IsFinding(given[i])
    PROVE  LET p == F!validComments(d, given)
           IN  /\ \E U : p.in \in Seq(U)
               /\ \E U : p.out \in Seq(U)
               /\ \A i \in DOMAIN given : F!resolvePath(d, given[i].path) # {} =>
                    \E c \in F!Range(p.in) \cup F!Range(p.out) :
                        Tells(c, given[i], F!resolvePath(d, given[i].path))
<1> DEFINE R(f) == F!resolvePath(d, f.path)
           file(f) == CHOOSE x \in R(f) : TRUE
           lines(f) == F!parsePatch(d[file(f)])
           known == {i \in DOMAIN given : R(given[i]) # {}}
           bare == {i \in known : lines(given[i]) = {}}
           on == known \ bare
           placed == F!SelectAt(given, on)
           left == F!SelectAt(given, bare)
           comment(f) == F!Anchored(file(f), lines(f), f)
           moved(f) == [f EXCEPT !.path = file(f)]
           comments == [k \in DOMAIN placed |-> comment(placed[k])]
           firsts == F!FirstIndexes(comments)
           in == F!SelectAt(comments, firsts)
           out == [k \in DOMAIN left |-> moved(left[k])]
           p == F!validComments(d, given)
<1>1. p = [in |-> in, out |-> out]
  BY DEF F!validComments
<1>2. ASSUME NEW f, F!IsFinding(f), R(f) # {}
      PROVE  Tells(comment(f), f, R(f)) /\ Tells(moved(f), f, R(f))
  <2>1. file(f) \in R(f)
    BY <1>2
  <2> HIDE DEF file, R
  <2>2. Tells(comment(f), f, R(f))
    <3> DEFINE c == comment(f)
    <3>1. c.path = file(f) /\ c.body = f.body /\ F!ToldLine(c) = f.line
      <4> HIDE DEF lines
      <4> QED BY <1>2, AnchoredTells
    <3> HIDE DEF comment
    <3> QED BY <2>1, <3>1 DEF Tells
  <2>3. Tells(moved(f), f, R(f))
    <3> DEFINE c == moved(f)
    <3>1. c.path = file(f) /\ c.body = f.body /\ F!ToldLine(c) = f.line
      BY <1>2, BareTells
    <3> HIDE DEF moved
    <3> QED BY <2>1, <3>1 DEF Tells
  <2> QED BY <2>2, <2>3
<1> HIDE DEF comment, moved, lines
<1>3. /\ Len(placed) \in Nat /\ DOMAIN placed = 1 .. Len(placed)
      /\ \A m \in on \cap 1 .. Len(given) : \E k \in 1 .. Len(placed) : placed[k] = given[m]
  <2> HIDE DEF on
  <2>0. placed = SelectAt(given, on)
    BY SameSelect
  <2> HIDE DEF placed
  <2>1. placed \in Seq(F!Range(given))
    BY <2>0, SelectAtElements
  <2>2. Len(placed) \in Nat
    BY <2>1
  <2> QED BY <2>0, <2>2, SelectAtElements
<1>4. /\ Len(left) \in Nat /\ DOMAIN left = 1 .. Len(left)
      /\ \A m \in bare \cap 1 .. Len(given) : \E k \in 1 .. Len(left) : left[k] = given[m]
  <2> HIDE DEF bare
  <2>0. left = SelectAt(given, bare)
    BY SameSelect
  <2> HIDE DEF left
  <2>1. left \in Seq(F!Range(given))
    BY <2>0, SelectAtElements
  <2>2. Len(left) \in Nat
    BY <2>1
  <2> QED BY <2>0, <2>2, SelectAtElements
<1>5. PICK U : comments \in Seq(U) /\ Len(comments) = Len(placed)
  <2> HIDE DEF placed
  <2>1. comments = [k \in 1 .. Len(placed) |-> comments[k]]
    BY <1>3
  <2> HIDE DEF comments
  <2> QED BY <2>1, <1>3, IsASequence
<1>6. /\ in \in Seq(U) /\ DOMAIN in = 1 .. Len(in)
      /\ \A m \in firsts \cap 1 .. Len(comments) : \E n \in 1 .. Len(in) : in[n] = comments[m]
  <2> HIDE DEF comments, firsts
  <2>1. in = SelectAt(comments, firsts)
    BY SameSelect
  <2> HIDE DEF in, placed, R, known
  <2>2. comments \in Seq(U)
    BY <1>5
  <2>3. /\ SelectAt(comments, firsts) \in Seq(U)
        /\ DOMAIN SelectAt(comments, firsts) = 1 .. Len(SelectAt(comments, firsts))
    BY <2>2, SelectAtElements
  <2>4. \A m \in firsts \cap 1 .. Len(comments) :
           \E n \in 1 .. Len(SelectAt(comments, firsts)) : SelectAt(comments, firsts)[n] = comments[m]
    BY <2>2, SelectAtElements
  <2> QED BY <2>1, <2>3, <2>4
<1>7. \E V : out \in Seq(V)
  <2> HIDE DEF left
  <2>1. out = [k \in 1 .. Len(left) |-> out[k]]
    BY <1>4
  <2> HIDE DEF out
  <2> QED BY <2>1, <1>4, IsASequence
<1>8. ASSUME NEW i \in DOMAIN given, R(given[i]) # {}
      PROVE  \E c \in F!Range(in) \cup F!Range(out) : Tells(c, given[i], R(given[i]))
  <2>1. i \in 1 .. Len(given) /\ i \in known /\ (i \notin bare => i \in on)
    BY <1>8
  <2>2. CASE i \in bare
    <3>1. PICK k \in 1 .. Len(left) : left[k] = given[i]
      BY <1>4, <2>1, <2>2
    <3> HIDE DEF left
    <3>2. k \in DOMAIN out /\ out[k] = moved(given[i])
      BY <3>1, <1>4
    <3> HIDE DEF out, R
    <3> QED BY <3>2, <1>2, <1>8 DEF F!Range
  <2>3. CASE i \notin bare
    <3>1. PICK k \in 1 .. Len(placed) : placed[k] = given[i]
      BY <1>3, <2>1, <2>3
    <3> HIDE DEF placed
    <3>2. k \in 1 .. Len(comments) /\ comments[k] = comment(given[i])
      BY <3>1, <1>3, <1>5
    <3> HIDE DEF comments
    <3>3. PICK m \in firsts \cap 1 .. Len(comments) : comments[m] = comments[k]
      <4>1. firsts = FirstIndexes(comments)
        BY SameSelect
      <4> HIDE DEF firsts
      <4> QED BY <4>1, <1>5, <3>2, FirstComes
    <3> HIDE DEF in, firsts
    <3>4. PICK n \in 1 .. Len(in) : in[n] = comments[m]
      BY <1>6, <3>3
    <3>5. comment(given[i]) \in F!Range(in)
      BY <3>2, <3>3, <3>4, <1>6 DEF F!Range
    <3> HIDE DEF R
    <3> QED BY <3>5, <1>2, <1>8
  <2> QED BY <2>2, <2>3
<1>9. p.in = in /\ p.out = out
  BY <1>1
<1> HIDE DEF in, out, p
<1> QED BY <1>6, <1>7, <1>8, <1>9 DEF p

\* A step of the whole is one of the findings, or leaves them alone.
LEMMA FindingsMove ==
    ASSUME which = "findings", [Next]_vars
    PROVE  which' = "findings" /\ [F!Next]_fVars
  BY DEF Next, vars, fVars

\* The findings are told of once placed; what is posted is accepted.
FindingsInv ==
    /\ diff \in Diffs /\ findings \in Given /\ cached \in Diffs \cup {None}
    /\ \E U : inline \in Seq(U)
    /\ \E U : unanchored \in Seq(U)
    /\ phase = "staged" => read = None /\ inline = <<>> /\ unanchored = <<>>
    /\ phase # "staged" => Told(F!Posted, read, findings)
    /\ phase = "posted" => F!Accepts(inline)

\* b holds what s and t hold.
Joins(b, s, t) == F!Range(b) = F!Range(s) \cup F!Range(t)

\* Putting the comments into the body loses none of them.
LEMMA AllInTheBody ==
    ASSUME NEW U, NEW V, NEW s \in Seq(U), NEW t \in Seq(V), NEW b, b = s \o t
    PROVE  /\ b \in Seq(U \cup V)
           /\ Joins(b, s, t)
<1> DEFINE W == U \cup V
<1>1. s \in Seq(W) /\ t \in Seq(W)
  OBVIOUS
<1>2. /\ b \in Seq(W) /\ Len(b) = Len(s) + Len(t) /\ DOMAIN b = 1 .. Len(s) + Len(t)
      /\ \A i \in 1 .. Len(s) + Len(t) : b[i] = IF i <= Len(s) THEN s[i] ELSE t[i - Len(s)]
  <2> HIDE DEF W
  <2> QED BY <1>1, ConcatProperties
<1>3. /\ Len(s) \in Nat /\ Len(t) \in Nat /\ DOMAIN s = 1 .. Len(s) /\ DOMAIN t = 1 .. Len(t)
  OBVIOUS
<1>4. ASSUME NEW x \in F!Range(b) PROVE x \in F!Range(s) \cup F!Range(t)
  <2>1. PICK i \in 1 .. Len(s) + Len(t) : x = b[i]
    BY <1>2 DEF F!Range
  <2>2. CASE i <= Len(s)
    <3>1. i \in DOMAIN s /\ x = s[i]
      BY <2>1, <2>2, <1>2, <1>3
    <3> QED BY <3>1 DEF F!Range
  <2>3. CASE ~(i <= Len(s))
    <3>1. i - Len(s) \in DOMAIN t /\ x = t[i - Len(s)]
      BY <2>1, <2>3, <1>2, <1>3
    <3> QED BY <3>1 DEF F!Range
  <2> QED BY <2>2, <2>3
<1>5. ASSUME NEW x \in F!Range(s) PROVE x \in F!Range(b)
  <2>1. PICK i \in 1 .. Len(s) : x = s[i]
    BY <1>3 DEF F!Range
  <2>2. i \in DOMAIN b /\ b[i] = x
    BY <2>1, <1>2, <1>3
  <2> QED BY <2>2 DEF F!Range
<1>6. ASSUME NEW x \in F!Range(t) PROVE x \in F!Range(b)
  <2>1. PICK i \in 1 .. Len(t) : x = t[i]
    BY <1>3 DEF F!Range
  <2>2. Len(s) + i \in DOMAIN b /\ b[Len(s) + i] = x
    BY <2>1, <1>2, <1>3
  <2> QED BY <2>2 DEF F!Range
<1>7. F!Range(b) = F!Range(s) \cup F!Range(t)
  BY <1>4, <1>5, <1>6
<1> QED BY <1>2, <1>7 DEF Joins

\* Each step keeps the findings where they are told of.
LEMMA FindingsStep == ASSUME FindingsInv, [F!Next]_fVars PROVE FindingsInv'
<1> USE PartsAssumption DEF F!FindingsAssumption
<1>1. CASE F!Push \/ F!Cache
  <2>1. /\ UNCHANGED <<findings, read, inline, unanchored, phase>>
        /\ diff' \in Diffs /\ cached' \in Diffs \cup {None}
        /\ phase = "posted" => UNCHANGED diff
    BY <1>1 DEF F!Push, F!Cache, FindingsInv
  <2>2. Told(F!Posted, read, findings) => Told(F!Posted, read, findings)'
    BY <2>1 DEF Told, Tells, F!Posted
  <2>3. phase = "posted" /\ F!Accepts(inline) => F!Accepts(inline)'
    BY <2>1 DEF F!Accepts
  <2> QED BY <2>1, <2>2, <2>3 DEF FindingsInv
<1>2. CASE F!Place
  <2> DEFINE d == IF cached # None THEN cached ELSE diff
             p == F!validComments(d, findings)
  <2>1. /\ read' = d /\ inline' = p.in /\ unanchored' = p.out /\ cached' = d
        /\ phase' = "placed" /\ UNCHANGED <<diff, findings>>
    BY <1>2 DEF F!Place
  <2>2. d \in Diffs /\ d # None
    BY DEF FindingsInv
  <2>3. findings \in Seq(F!Range(findings)) /\ \A i \in DOMAIN findings : F!IsFinding(findings[i])
    BY DEF FindingsInv
  <2>4. /\ \E U : p.in \in Seq(U)
        /\ \E U : p.out \in Seq(U)
        /\ \A i \in DOMAIN findings : F!resolvePath(d, findings[i].path) # {} =>
              \E c \in F!Range(p.in) \cup F!Range(p.out) :
                  Tells(c, findings[i], F!resolvePath(d, findings[i].path))
    <3> HIDE DEF d
    <3> QED BY <2>3, PlacedTold
  <2> HIDE DEF d, p
  <2>5. F!Posted' = F!Range(p.in) \cup F!Range(p.out)
    BY <2>1 DEF F!Posted
  <2>6. Told(F!Posted', d, findings)
    BY <2>2, <2>4, <2>5 DEF Told
  <2>7. Told(F!Posted, read, findings)'
    BY <2>1, <2>6
  <2> QED BY <2>1, <2>2, <2>4, <2>7 DEF FindingsInv
<1>3. CASE F!PlaceBlind
  <2>1. /\ phase = "staged" /\ phase' = "placed" /\ unanchored' = findings
        /\ UNCHANGED <<diff, cached, findings, read, inline>>
    BY <1>3 DEF F!PlaceBlind
  <2>2. read = None /\ inline = <<>> /\ findings \in Seq(F!Range(findings))
    BY <2>1 DEF FindingsInv
  <2>3. ASSUME NEW i \in DOMAIN findings PROVE Tells(findings[i], findings[i], {findings[i].path})
    <3> DEFINE f == findings[i]
    <3>1. f = [path |-> f.path, line |-> f.line, body |-> f.body]
      BY DEF FindingsInv, F!IsFinding
    <3> HIDE DEF f
    <3>2. "told" \notin DOMAIN f
      BY <3>1
    <3>3. Tells(f, f, {f.path})
      BY <3>2 DEF Tells, F!ToldLine
    <3> QED BY <3>3 DEF f
  <2>4. \A i \in DOMAIN findings : findings[i] \in F!Posted'
    BY <2>1 DEF F!Posted, F!Range
  <2>5. Told(F!Posted', None, findings)
    BY <2>3, <2>4 DEF Told
  <2>6. Told(F!Posted, read, findings)'
    BY <2>1, <2>2, <2>5
  <2> QED BY <2>1, <2>2, <2>6 DEF FindingsInv
<1>4. CASE F!Submit
  <2>1. /\ phase = "placed" /\ phase' = "posted" /\ UNCHANGED <<diff, cached, findings, read>>
        /\ IF F!Accepts(inline) THEN UNCHANGED <<inline, unanchored>>
           ELSE inline' = <<>> /\ unanchored' = unanchored \o inline
    BY <1>4 DEF F!Submit
  <2>2. PICK U : inline \in Seq(U)
    BY DEF FindingsInv
  <2>3. PICK V : unanchored \in Seq(V)
    BY DEF FindingsInv
  <2>4. /\ F!Posted' = F!Posted
        /\ \E W : inline' \in Seq(W)
        /\ \E W : unanchored' \in Seq(W)
    <3>1. CASE F!Accepts(inline)
      BY <2>1, <2>2, <2>3, <3>1 DEF F!Posted
    <3>2. CASE ~F!Accepts(inline)
      <4>1. unanchored' = unanchored \o inline
        BY <2>1, <3>2
      <4>5. unanchored' \in Seq(V \cup U)
        BY <2>2, <2>3, <4>1, AllInTheBody
      <4>2. F!Range(unanchored') = F!Range(unanchored) \cup F!Range(inline)
        <5>1. Joins(unanchored', unanchored, inline)
          BY <2>2, <2>3, <4>1, AllInTheBody
        <5> QED BY <5>1 DEF Joins
      <4>3. <<>> \in Seq(U) /\ F!Range(<<>>) = {}
        BY DEF F!Range
      <4> QED BY <2>1, <3>2, <4>5, <4>2, <4>3 DEF F!Posted
    <3> QED BY <3>1, <3>2
  <2>5. Told(F!Posted, read, findings)
    BY <2>1 DEF FindingsInv
  <2>6. Told(F!Posted, read, findings)'
    BY <2>1, <2>4, <2>5
  <2>7. F!Accepts(inline)'
    <3>1. CASE F!Accepts(inline)
      BY <2>1, <3>1 DEF F!Accepts
    <3>2. CASE ~F!Accepts(inline)
      BY <2>1, <3>2 DEF F!Accepts
    <3> QED BY <3>1, <3>2
  <2> QED BY <2>1, <2>4, <2>6, <2>7 DEF FindingsInv
<1>5. CASE F!SubmitFails \/ UNCHANGED fVars
  <2>1. /\ UNCHANGED <<diff, cached, findings, read, inline, unanchored>>
        /\ UNCHANGED phase \/ (phase = "placed" /\ phase' = "failed")
    BY <1>5 DEF F!SubmitFails, fVars
  <2>2. Told(F!Posted, read, findings) => Told(F!Posted, read, findings)'
    BY <2>1 DEF Told, Tells, F!Posted
  <2>3. F!Accepts(inline) => F!Accepts(inline)'
    BY <2>1 DEF F!Accepts
  <2> QED BY <2>1, <2>2, <2>3 DEF FindingsInv
<1> QED BY <1>1, <1>2, <1>3, <1>4, <1>5 DEF F!Next

\* app.go 657, tools.go 758: for any diff, push, cache and findings, what the review
\* found in a file of the diff is told of, inline or in the body, and GitHub accepts
\* the comments that are posted.
THEOREM FindingsTold == Spec => []FindingsReachTheReview
<1>1. Init => (which = "findings" => FindingsInv)
  <2>1. Init /\ which = "findings" => F!Init
    BY DEF Init
  <2>2. F!Init => FindingsInv
    <3>1. \E U : <<>> \in Seq(U)
      OBVIOUS
    <3> QED BY <3>1 DEF F!Init, FindingsInv
  <2> QED BY <2>1, <2>2
<1>2. (which = "findings" => FindingsInv) /\ [Next]_vars => (which = "findings" => FindingsInv)'
  <2> SUFFICES ASSUME which = "findings" => FindingsInv, [Next]_vars, which' = "findings"
               PROVE  FindingsInv'
    OBVIOUS
  <2>1. which = "findings"
    BY DEF Next, vars
  <2>2. QED
    BY <2>1, FindingsMove, FindingsStep
<1>3. (which = "findings" => FindingsInv) => FindingsReachTheReview
  BY DEF FindingsInv, FindingsReachTheReview, F!FindingsReachTheReview, Told, Tells
<1>4. QED
  BY <1>1, <1>2, <1>3, PTL DEF Spec

-----------------------------------------------------------------------------
(* DecisionRecords. *)

\* Of a sequence's first comings there are as many as it has elements.
LEMMA EachOnce ==
    ASSUME NEW U, NEW s \in Seq(U)
    PROVE  Len(SelectAt(s, FirstIndexes(s))) = Cardinality({s[i] : i \in DOMAIN s})
<1> DEFINE J == FirstIndexes(s)
           r == SelectAt(s, J)
           R == {s[i] : i \in DOMAIN s}
<1>1. r \in Seq(U) /\ Picks(r, s, J \cap 1 .. Len(s))
  <2> HIDE DEF J
  <2> QED BY SelectAtPicks
<1>2. ASSUME NEW k \in 1 .. Len(s) PROVE \E m \in J \cap 1 .. Len(s) : s[m] = s[k]
  BY FirstComes
<1> DEFINE M == Len(r)
<1>3. M \in Nat /\ DOMAIN r = 1 .. M
  <2> HIDE DEF r
  <2> QED BY <1>1
<1>4. PICK g \in [1 .. M -> J \cap 1 .. Len(s)] :
        /\ \A i, j \in 1 .. M : i < j => g[i] < g[j]
        /\ \A m \in J \cap 1 .. Len(s) : \E i \in 1 .. M : g[i] = m
        /\ \A i \in 1 .. M : r[i] = s[g[i]]
  <2> HIDE DEF J, r
  <2> QED BY <1>1 DEF Picks
<1>5. \A m \in J \cap 1 .. Len(s), n \in J \cap 1 .. Len(s) : m < n => s[m] # s[n]
  BY DEF FirstIndexes
<1> HIDE DEF J
<1>6. ASSUME NEW i \in 1 .. M, NEW j \in 1 .. M, i < j PROVE r[i] # r[j]
  <2> HIDE DEF r, M
  <2>1. /\ g[i] \in J \cap 1 .. Len(s) /\ g[j] \in J \cap 1 .. Len(s) /\ g[i] < g[j]
    BY <1>4, <1>6
  <2>2. s[g[i]] # s[g[j]]
    BY <2>1, <1>5
  <2> QED BY <2>2, <1>4
<1> DEFINE h == [i \in 1 .. M |-> r[i]]
<1>7. h \in [1 .. M -> R]
  <2> HIDE DEF r, M
  <2>1. \A i \in 1 .. M : r[i] = s[g[i]] /\ g[i] \in DOMAIN s
    BY <1>4
  <2> QED BY <2>1
<1>8. \A a, b \in 1 .. M : h[a] = h[b] => a = b
  <2> HIDE DEF r, M
  <2> QED BY <1>3, <1>6
<1>9. ASSUME NEW x \in R PROVE \E i \in 1 .. M : h[i] = x
  <2>1. PICK k \in 1 .. Len(s) : x = s[k]
    OBVIOUS
  <2>2. PICK m \in J \cap 1 .. Len(s) : s[m] = x
    BY <1>2, <2>1
  <2> HIDE DEF r, M
  <2>3. PICK i \in 1 .. M : g[i] = m
    BY <2>2, <1>4
  <2> QED BY <2>2, <2>3, <1>4
<1> HIDE DEF r, M, R, h
<1>10. h \in Bijection(1 .. M, R)
  BY <1>7, <1>8, <1>9 DEF Bijection, Injection, Surjection, IsInjective
<1>11. ExistsBijection(1 .. M, R)
  BY <1>10 DEF ExistsBijection
<1>12. Cardinality(R) = M
  BY <1>3, <1>11, FS_CountingElements
<1> QED BY <1>12 DEF M, r, R, J

\* A list that is cut accounts for all of its items.
LEMMA FitCounts ==
    ASSUME NEW U, NEW items \in Seq(U), NEW n
    PROVE  Len(D!fitList(items, n).kept) + D!fitList(items, n).more = Len(items)
<1> DEFINE fits(k) == D!Sum(SubSeq(items, 1, k)) <= n
           N == Len(items)
           Fit(k) == (\A j \in 1 .. k : fits(j)) /\ (k < N => ~fits(k + 1))
           whole == CHOOSE k \in 0 .. N : Fit(k)
           room == n - D!Sum(SubSeq(items, 1, whole))
           cut == whole < N /\ room > 2 * D!markerBytes
           head == SubSeq(items, 1, whole)
           part == D!clip(items[whole + 1], room)
           one == IF cut THEN <<part>> ELSE <<>>
           r == D!fitList(items, n)
<1>1. r = [kept |-> head \o one, more |-> N - whole - (IF cut THEN 1 ELSE 0)]
  BY DEF D!fitList
<1> HIDE DEF fits
<1>2. N \in Nat
  OBVIOUS
<1>3. \E k \in 0 .. N : Fit(k)
  <2> DEFINE E == {j \in 1 .. N : ~fits(j)}
  <2> HIDE DEF N
  <2>1. CASE E = {}
    <3>1. \A j \in 1 .. N : fits(j)
      BY <2>1
    <3>2. Fit(N) /\ N \in 0 .. N
      BY <3>1, <1>2
    <3> QED BY <3>2
  <2>2. CASE E # {}
    <3>1. E \in SUBSET Nat
      BY <1>2
    <3>2. PICK j \in E : \A m \in E : j <= m
      <4> HIDE DEF E
      <4> QED BY <2>2, <3>1, LeastNat
    <3>3. j \in 1 .. N /\ ~fits(j) /\ \A m \in 1 .. N : m < j => fits(m)
      BY <1>2, <3>2
    <3>4. j - 1 \in 0 .. N /\ (j - 1) + 1 = j
      BY <1>2, <3>3
    <3>5. \A m \in 1 .. j - 1 : fits(m)
      BY <1>2, <3>3
    <3>6. Fit(j - 1)
      BY <3>3, <3>4, <3>5
    <3> HIDE DEF Fit
    <3> QED BY <3>4, <3>6
  <2> QED BY <2>1, <2>2
<1>4. whole \in 0 .. N
  <2> HIDE DEF Fit, N
  <2> QED BY <1>3
<1> HIDE DEF whole, Fit
<1>5. head \in Seq(U) /\ Len(head) = whole
  BY <1>4, SubSeqProperties
<1> HIDE DEF head
<1>6. one \in Seq({part}) /\ Len(one) = IF cut THEN 1 ELSE 0
  <2> HIDE DEF cut, part
  <2>1. CASE cut
    BY <2>1
  <2>2. CASE ~cut
    BY <2>2
  <2> QED BY <2>1, <2>2
<1> HIDE DEF one, cut
<1>7. Len(head \o one) = Len(head) + Len(one)
  <2>1. head \in Seq(U \cup {part}) /\ one \in Seq(U \cup {part})
    BY <1>5, <1>6
  <2> QED BY <2>1, ConcatProperties
<1>8. Len(r.kept) = whole + (IF cut THEN 1 ELSE 0) /\ r.more = N - whole - (IF cut THEN 1 ELSE 0)
  BY <1>1, <1>5, <1>6, <1>7
<1> HIDE DEF r, N
<1>9. Len(r.kept) + r.more = N
  BY <1>2, <1>4, <1>8
<1> QED BY <1>9 DEF r, N

\* A verdict's state accounts for so many findings, files and hunks.
Accounts(v, made, changed, hunks) ==
    /\ Len(v.findings.kept) + v.findings.more = made
    /\ Len(v.files.kept) + v.files.more = changed
    /\ Len(v.hunks.kept) + v.hunks.more = hunks

\* What is cut down accounts for all there was.
LEMMA VerdictCounts ==
    ASSUME NEW title \in Nat, NEW text \in Nat,
           NEW U, NEW made \in Seq(U), NEW V, NEW changed \in Seq(V), NEW W, NEW hunks \in Seq(W)
    PROVE  Accounts(D!fitVerdict(title, text, made, changed, hunks), Len(made), Len(changed), Len(hunks))
<1> DEFINE head == D!clip(title, D!titleCap) + D!clip(text, D!prBodyCap)
           room == D!verdictBudget - head
           n == Len(made)
           share == D!Least(room, D!findingsBudget)
           per == D!Most(D!minFindingCap, share \div n)
           keep == IF n = 0 THEN 0 ELSE D!Least(n, D!Most(1, share \div per))
           kept == [i \in 1 .. keep |-> [path |-> made[i].pathLen, text |-> D!clip(made[i].len, per)]]
           used == D!Sum([i \in 1 .. keep |-> kept[i].path + kept[i].text + 35])
                   + (IF keep < n THEN D!moreLen(n - keep, D!findingsWords) + 35 ELSE 0)
           fitted == D!fitList(changed, D!Least(room - used, D!filesBudget))
           left == room - used - D!Sum(fitted.kept) - D!moreLen(fitted.more, D!moreWords)
           v == D!fitVerdict(title, text, made, changed, hunks)
<1>1. v = [head |-> head, findings |-> [kept |-> kept, more |-> n - keep], files |-> fitted,
           hunks |-> D!fitList(hunks, left)]
  BY DEF D!fitVerdict
<1>2. Len(fitted.kept) + fitted.more = Len(changed)
  BY FitCounts
<1>3. Len(D!fitList(hunks, left).kept) + D!fitList(hunks, left).more = Len(hunks)
  <2> HIDE DEF left
  <2> QED BY FitCounts
<1>4. keep \in 0 .. n /\ n \in Nat
  <2>1. n \in Nat
    OBVIOUS
  <2>2. D!clip(title, D!titleCap) \in Int /\ D!clip(text, D!prBodyCap) \in Int
    BY DEF D!clip, D!Most, D!markerRunes, D!titleCap, D!prBodyCap
  <2>3. share \in Int
    BY <2>2 DEF D!Least, D!verdictBudget, D!findingsBudget
  <2> HIDE DEF share, n
  <2>4. CASE n = 0
    BY <2>4
  <2>5. CASE n # 0
    <3> DEFINE q == share \div n
    <3>1. q \in Int
      BY <2>1, <2>3, <2>5
    <3> HIDE DEF q
    <3>2. per \in Int /\ per >= 120
      <4>1. per = D!Most(120, q)
        BY DEF q, D!minFindingCap
      <4> QED BY <4>1, <3>1 DEF D!Most
    <3> HIDE DEF per
    <3> DEFINE p == share \div per
    <3>3. p \in Int
      BY <2>3, <3>2
    <3>4. keep = D!Least(n, D!Most(1, p))
      BY <2>5
    <3> HIDE DEF p, keep
    <3> QED BY <2>1, <2>5, <3>3, <3>4 DEF D!Least, D!Most
  <2> QED BY <2>1, <2>4, <2>5
<1> HIDE DEF keep, n
<1>5. Len(kept) = keep
  BY <1>4
<1> HIDE DEF fitted, left, kept
<1>6. /\ v.findings.kept = kept /\ v.findings.more = n - keep
      /\ v.files = fitted /\ v.hunks = D!fitList(hunks, left)
  BY <1>1
<1> HIDE DEF v
<1>7. Len(v.findings.kept) + v.findings.more = n
  BY <1>4, <1>5, <1>6
<1> QED BY <1>2, <1>3, <1>6, <1>7 DEF n, v, Accounts

\* A step of the whole is one of the records, or leaves them alone.
LEMMA RecordsMove ==
    ASSUME which = "records", [Next]_vars
    PROVE  which' = "records" /\ [D!Next]_dVars
  BY DEF Next, vars, dVars

\* The i-th question is whether a finding blocks.
Blocking(i) == asks[i].point = "finding.blocking"

\* The first comings of the findings.
Firsts == FirstIndexes(review.comments) \cap 1 .. Len(review.comments)

\* What the records are made of.
RecordsType ==
    /\ review \in Reviews /\ diffRead \in Patches \cup {None, <<>>} /\ patch \in Patches
    /\ next \in 1 .. Len(review.comments) + 2
    /\ \E U : asks \in Seq(U)
    /\ diffRead = None => asks = <<>>

\* The first coming of each finding has been asked about once it has had its turn.
Asking ==
    /\ \A i \in DOMAIN asks : Blocking(i) =>
          /\ asks[i].baseline = (D!baseline(asks[i].about) = "blocking")
          /\ \E j \in Firsts : j < next /\ asks[i].about = review.comments[j]
    /\ \A j \in Firsts : j < next =>
          \E i \in DOMAIN asks : Blocking(i) /\ asks[i].about = review.comments[j]
    /\ \A i, k \in DOMAIN asks : Blocking(i) /\ Blocking(k) /\ asks[i].about = asks[k].about => i = k

\* A verdict's state accounts for all the findings, files and hunks.
Counted(v) ==
    Accounts(v, Cardinality(D!Range(review.comments)), Cardinality(DOMAIN diffRead),
             Len(D!HunksOf(D!Asked)))

\* The verdict comes last.
Judged == \A i \in DOMAIN asks : asks[i].point = "review.verdict" =>
              next = Len(review.comments) + 2 /\ Counted(asks[i].about)

\* The findings asked about, then the verdict.
RecordsInv == RecordsType /\ Asking /\ Judged

\* decisions.go 190: a finding is asked about at its first coming only.
LEMMA FindingStep == ASSUME RecordsInv, D!AskFinding PROVE RecordsInv'
<1> DEFINE N == Len(review.comments)
           c == review.comments[next]
           base == D!baseline(c)
           severity == [point |-> "finding.severity", about |-> c, baseline |-> base]
           blocking == [point |-> "finding.blocking", about |-> c, baseline |-> base = "blocking"]
           n == Len(asks)
           m == Len(asks')
<1>1. /\ diffRead # None /\ next <= N /\ next' = next + 1 /\ UNCHANGED <<review, patch, diffRead>>
      /\ asks' = IF next \notin D!FirstIndexes(review.comments) THEN asks
                 ELSE IF base = "" THEN Append(asks, blocking)
                 ELSE asks \o <<severity, blocking>>
  BY DEF D!AskFinding
<1>0. next <= N /\ next' = next + 1
  BY <1>1
<1>2. N \in Nat /\ next \in 1 .. N /\ next' \in 1 .. N + 2
  <2>1. review.comments \in Seq(D!Range(review.comments))
    BY PartsAssumption DEF D!RecordsAssumption, RecordsInv, RecordsType
  <2>2. N \in Nat
    BY <2>1
  <2>3. next \in 1 .. N + 2
    BY DEF RecordsInv, RecordsType
  <2> HIDE DEF N
  <2> QED BY <2>2, <2>3, <1>0
<1>3. PICK U : asks \in Seq(U)
  BY DEF RecordsInv, RecordsType
<1>4. n \in Nat /\ DOMAIN asks = 1 .. n
  BY <1>3
<1>5. D!FirstIndexes(review.comments) = FirstIndexes(review.comments)
  BY SameSelect
<1>6. Firsts' = Firsts
  BY <1>1 DEF Firsts
<1> HIDE DEF n, N, c, base
<1>7. next # N + 2 /\ next' # N + 2
  BY <1>0, <1>2
<1>8. \A i \in DOMAIN asks : asks[i].point # "review.verdict"
  BY <1>7 DEF RecordsInv, Judged, N
<1>9. CASE next \notin Firsts
  <2>1. asks' = asks
    BY <1>1, <1>2, <1>5, <1>9 DEF Firsts, N
  <2>2. RecordsType'
    BY <2>1, <1>1, <1>2 DEF RecordsInv, RecordsType, N
  <2>3. \A j \in Firsts : j < next' <=> j < next
    <3>1. \A j \in Firsts : j \in Nat /\ j # next
      BY <1>9 DEF Firsts
    <3>2. next \in Nat /\ next' = next + 1
      BY <1>0, <1>2
    <3> QED BY <3>1, <3>2
  <2>4. Asking'
    <3>1. review' = review
      BY <1>1
    <3>2. Asking
      BY DEF RecordsInv
    <3> QED BY <2>1, <2>3, <3>1, <3>2, <1>6 DEF Asking, Blocking
  <2>5. Judged'
    BY <2>1, <1>8 DEF Judged
  <2> QED BY <2>2, <2>4, <2>5 DEF RecordsInv
<1>10. CASE next \in Firsts
  <2>1. next \in D!FirstIndexes(review.comments)
    BY <1>10, <1>5 DEF Firsts
  <2>2. /\ \E V : asks' \in Seq(V)
        /\ m \in Nat /\ m > n /\ DOMAIN asks' = 1 .. m /\ \A i \in 1 .. n : asks'[i] = asks[i]
        /\ asks'[m] = blocking
        /\ \A i \in n + 1 .. m - 1 : asks'[i] = severity
    <3>1. CASE base = ""
      <4>1. asks' = Append(asks, blocking)
        BY <1>1, <2>1, <3>1
      <4> HIDE DEF blocking
      <4>2. asks' \in Seq(U \cup {blocking}) /\ m = n + 1
        BY <1>3, <4>1 DEF n
      <4>3. DOMAIN asks' = 1 .. m /\ asks'[m] = blocking /\ \A i \in 1 .. n : asks'[i] = asks[i]
        BY <1>3, <1>4, <4>1, <4>2 DEF n
      <4> QED BY <4>2, <4>3, <1>4
    <3>2. CASE base # ""
      <4> DEFINE two == <<severity, blocking>>
      <4>1. asks' = asks \o two
        BY <1>1, <2>1, <3>2
      <4>2. two \in Seq({severity, blocking}) /\ Len(two) = 2 /\ two[1] = severity /\ two[2] = blocking
        <5> HIDE DEF severity, blocking
        <5> QED OBVIOUS
      <4> HIDE DEF two
      <4> DEFINE V == U \cup {severity, blocking}
      <4>3. asks \in Seq(V) /\ two \in Seq(V)
        <5> HIDE DEF severity, blocking
        <5> QED BY <1>3, <4>2
      <4> HIDE DEF severity, blocking, V
      <4>4. /\ asks' \in Seq(V) /\ m = n + 2
            /\ \A i \in 1 .. n + 2 : asks'[i] = IF i <= n THEN asks[i] ELSE two[i - n]
        <5>1. /\ asks \o two \in Seq(V) /\ Len(asks \o two) = Len(asks) + Len(two)
              /\ \A i \in 1 .. Len(asks) + Len(two) :
                    (asks \o two)[i] = IF i <= Len(asks) THEN asks[i] ELSE two[i - Len(asks)]
          BY <4>3, ConcatProperties
        <5>2. Len(asks) + Len(two) = n + 2
          BY <4>2 DEF n
        <5> QED BY <4>1, <5>1, <5>2 DEF n
      <4>5. DOMAIN asks' = 1 .. m
        BY <4>4
      <4>6. \A i \in 1 .. n : asks'[i] = asks[i]
        BY <1>4, <4>4
      <4>7. asks'[n + 1] = severity /\ asks'[n + 2] = blocking
        BY <1>4, <4>2, <4>4
      <4>8. \A i \in n + 1 .. m - 1 : i = n + 1
        BY <1>4, <4>4
      <4> QED BY <1>4, <4>4, <4>5, <4>6, <4>7, <4>8
    <3> QED BY <3>1, <3>2
  <2>3. RecordsType'
    BY <2>2, <1>1, <1>2 DEF RecordsInv, RecordsType, N
  <2>4. /\ asks'[m].point = "finding.blocking" /\ asks'[m].about = c
        /\ asks'[m].baseline = (D!baseline(c) = "blocking")
    BY <2>2 DEF base
  <2>5. \A i \in DOMAIN asks' : \/ i \in DOMAIN asks /\ asks'[i] = asks[i]
                                \/ i = m
                                \/ asks'[i].point = "finding.severity"
    <3>0. m \in Nat /\ m > n /\ DOMAIN asks' = 1 .. m
      BY <2>2
    <3> HIDE DEF m
    <3>1. \A i \in 1 .. m : i \in 1 .. n \/ i = m \/ i \in n + 1 .. m - 1
      BY <3>0, <1>4
    <3>2. \A i \in n + 1 .. m - 1 : asks'[i].point = "finding.severity"
      BY <2>2
    <3>3. \A i \in 1 .. n : i \in DOMAIN asks /\ asks'[i] = asks[i]
      BY <2>2, <1>4
    <3> QED BY <3>0, <3>1, <3>2, <3>3
  <2>6. m \in DOMAIN asks' /\ \A i \in DOMAIN asks : i \in DOMAIN asks' /\ asks'[i] = asks[i]
    BY <2>2, <1>4
  <2> HIDE DEF m, severity, blocking
  <2>7. c = review.comments[next]
    BY DEF c
  <2>8. \A j \in Firsts : review.comments[j] = c => j = next
    <3>1. \A j, k \in Firsts : j < k => review.comments[j] # review.comments[k]
      BY DEF Firsts, FirstIndexes
    <3>2. \A j \in Firsts : j \in Nat
      BY DEF Firsts
    <3> QED BY <3>1, <3>2, <2>7, <1>10
  <2>9. \A i \in DOMAIN asks : Blocking(i) => asks[i].about # c
    <3> SUFFICES ASSUME NEW i \in DOMAIN asks, Blocking(i), asks[i].about = c PROVE FALSE
      OBVIOUS
    <3>1. PICK j \in Firsts : j < next /\ review.comments[j] = c
      BY DEF RecordsInv, Asking
    <3> QED BY <3>1, <2>8, <1>2
  <2>10. next < next' /\ \A j \in Firsts : j < next' <=> j < next \/ j = next
    <3>1. \A j \in Firsts : j \in Nat
      BY DEF Firsts
    <3>2. next \in Nat /\ next' = next + 1
      BY <1>0, <1>2
    <3> QED BY <3>1, <3>2
  <2>11. ASSUME NEW i \in DOMAIN asks', Blocking(i)'
         PROVE  /\ asks'[i].baseline = (D!baseline(asks'[i].about) = "blocking")
                /\ \E j \in Firsts : j < next' /\ asks'[i].about = review.comments[j]
    <3>1. CASE i = m
      BY <2>4, <2>7, <2>10, <1>10, <3>1
    <3>2. CASE i \in DOMAIN asks /\ asks'[i] = asks[i]
      BY <2>10, <2>11, <3>2 DEF Blocking, RecordsInv, Asking
    <3> QED BY <2>5, <2>11, <3>1, <3>2 DEF Blocking
  <2>12. ASSUME NEW j \in Firsts, j < next'
         PROVE  \E i \in DOMAIN asks' : Blocking(i)' /\ asks'[i].about = review.comments[j]
    <3>1. CASE j = next
      BY <2>4, <2>6, <2>7, <3>1 DEF Blocking
    <3>2. CASE j < next
      <4>1. PICK i \in DOMAIN asks : Blocking(i) /\ asks[i].about = review.comments[j]
        BY <3>2 DEF RecordsInv, Asking
      <4> QED BY <4>1, <2>6 DEF Blocking
    <3> QED BY <2>10, <2>12, <3>1, <3>2
  <2>13. ASSUME NEW i \in DOMAIN asks', NEW k \in DOMAIN asks', Blocking(i)', Blocking(k)',
                asks'[i].about = asks'[k].about
         PROVE  i = k
    <3>1. (i \in DOMAIN asks /\ asks'[i] = asks[i]) \/ i = m
      BY <2>5, <2>13 DEF Blocking
    <3>2. (k \in DOMAIN asks /\ asks'[k] = asks[k]) \/ k = m
      BY <2>5, <2>13 DEF Blocking
    <3> QED BY <3>1, <3>2, <2>4, <2>9, <2>13 DEF Blocking, RecordsInv, Asking
  <2>14. Asking'
    BY <2>11, <2>12, <2>13, <1>1, <1>6 DEF Asking
  <2>15. Judged'
    BY <2>4, <2>5, <1>8 DEF Judged
  <2> QED BY <2>3, <2>14, <2>15 DEF RecordsInv
<1> QED BY <1>9, <1>10

\* Cardinality of the part is the one of FiniteSets.
LEMMA RecordSets ==
    \A set : D!Cardinality(set) = Cardinality(set) /\ D!IsFiniteSet(set) = IsFiniteSet(set)
  BY Zenon DEF D!Cardinality, Cardinality, D!IsFiniteSet, IsFiniteSet

\* The counts a verdict is held against are of what does not change.
LEMMA CountsStay ==
    ASSUME UNCHANGED <<review, diffRead>>, NEW x, Counted(x)
    PROVE  Counted(x)'
<1>1. review' = review /\ diffRead' = diffRead
  OBVIOUS
<1>2. D!Asked' = D!Asked
  BY <1>1 DEF D!Asked
<1>3. \A s : D!HunksOf(s)' = D!HunksOf(s)
  BY <1>1 DEF D!HunksOf, D!resolvePath
<1>4. D!HunksOf(D!Asked)' = D!HunksOf(D!Asked)
  BY <1>2, <1>3
<1> QED BY <1>1, <1>4 DEF Counted

\* What the verdict's state is made of is made of sequences.
LEMMA Materials ==
    ASSUME RecordsType, diffRead # None
    PROVE  /\ \E U : D!Asked \in Seq(U)
           /\ Len(D!Asked) = Cardinality(D!Range(review.comments))
           /\ \E U : D!Files \in Seq(U)
           /\ Len(D!Files) = Cardinality(DOMAIN diffRead)
           /\ \E U : D!HunksOf(D!Asked) \in Seq(U)
<1> DEFINE s == review.comments
           V == D!Range(s)
           r == D!Asked
           n == Cardinality(DOMAIN diffRead)
<1>1. s \in Seq(V)
  BY PartsAssumption DEF D!RecordsAssumption, RecordsType
<1>2. r = SelectAt(s, FirstIndexes(s))
  BY SameSelect DEF D!Asked
<1>3. r \in Seq(V) /\ DOMAIN r = 1 .. Len(r)
  BY <1>1, <1>2, SelectAtElements
<1>4. Len(r) = Cardinality(V)
  <2>1. V = {s[i] : i \in DOMAIN s}
    BY DEF D!Range
  <2> HIDE DEF V, s
  <2> QED BY <2>1, <1>1, <1>2, EachOnce
<1>5. IsFiniteSet(DOMAIN diffRead)
  <2>1. CASE diffRead = <<>>
    <3>1. DOMAIN diffRead = {}
      BY <2>1
    <3> QED BY <3>1, FS_EmptySet
  <2>2. CASE diffRead \in Patches
    BY <2>2, RecordSets, PartsAssumption DEF D!RecordsAssumption
  <2> QED BY <2>1, <2>2 DEF RecordsType
<1>6. n \in Nat
  BY <1>5, FS_CardinalityType
<1>7. D!Files = [i \in 1 .. n |-> 40]
  BY RecordSets DEF D!Files, D!PathLen
<1>8. D!Files \in Seq({40}) /\ Len(D!Files) = n
  <2> HIDE DEF n
  <2> QED BY <1>6, <1>7
<1> HIDE DEF r
<1>9. \E U : D!HunksOf(r) \in Seq(U)
  <2> DEFINE at(c) == {h \in UNION {{p} \X DOMAIN diffRead[p] : p \in D!resolvePath(c)} :
                    c.line \in diffRead[h[1]][h[2]].lines}
             J == {i \in DOMAIN r : at(r[i]) # {}}
             anchored == D!SelectAt(r, J)
             hunks == [i \in DOMAIN anchored |-> CHOOSE h \in at(anchored[i]) : TRUE]
             firsts == D!FirstIndexes(hunks)
             each == D!SelectAt(hunks, firsts)
             lens == [i \in DOMAIN each |-> diffRead[each[i][1]][each[i][2]].len]
  <2>1. D!HunksOf(r) = lens
    BY DEF D!HunksOf
  <2> HIDE DEF J
  <2>2. anchored = SelectAt(r, J)
    BY SameSelect
  <2> HIDE DEF anchored
  <2>3. anchored \in Seq(V) /\ DOMAIN anchored = 1 .. Len(anchored)
    <3> HIDE DEF V
    <3> QED BY <1>3, <2>2, SelectAtElements
  <2>4. hunks = [i \in 1 .. Len(anchored) |-> hunks[i]] /\ Len(anchored) \in Nat
    <3>1. hunks = [i \in DOMAIN anchored |-> hunks[i]]
      <4> HIDE DEF at
      <4> QED OBVIOUS
    <3> HIDE DEF hunks
    <3> QED BY <2>3, <3>1
  <2> HIDE DEF hunks
  <2>5. PICK U : hunks \in Seq(U)
    BY <2>4, IsASequence
  <2> HIDE DEF firsts
  <2>6. each = SelectAt(hunks, firsts)
    BY SameSelect
  <2> HIDE DEF each
  <2>7. each \in Seq(U) /\ DOMAIN each = 1 .. Len(each)
    BY <2>5, <2>6, SelectAtElements
  <2>8. lens = [i \in 1 .. Len(each) |-> lens[i]] /\ Len(each) \in Nat
    BY <2>7
  <2> HIDE DEF lens
  <2>9. \E W : lens \in Seq(W)
    BY <2>8, IsASequence
  <2> QED BY <2>1, <2>9
<1> QED BY <1>3, <1>4, <1>8, <1>9 DEF r

\* decisions.go 236: the verdict is asked about last, over all there was.
LEMMA VerdictStep == ASSUME RecordsInv, D!AskVerdict PROVE RecordsInv'
<1> DEFINE N == Len(review.comments)
           n == Len(asks)
           told == [i \in DOMAIN D!Asked |-> [pathLen |-> D!PathLen, len |-> D!Asked[i].len]]
           about(t, b) == D!fitVerdict(t, b, told, D!Files, D!HunksOf(D!Asked))
           verdict(t, b) == [point |-> "review.verdict", baseline |-> review.verdict, about |-> about(t, b)]
<1>1. /\ diffRead # None /\ next = N + 1 /\ next' = next + 1 /\ UNCHANGED <<review, patch, diffRead>>
  BY DEF D!AskVerdict
<1>2. PICK t \in {review.title, 0}, b \in {review.body, 0} :
          asks' = asks \/ asks' = Append(asks, verdict(t, b))
  BY DEF D!AskVerdict
<1>3. N \in Nat
  <2>1. review.comments \in Seq(D!Range(review.comments))
    BY PartsAssumption DEF D!RecordsAssumption, RecordsInv, RecordsType
  <2> QED BY <2>1
<1>4. PICK U : asks \in Seq(U)
  BY DEF RecordsInv, RecordsType
<1>5. n \in Nat /\ DOMAIN asks = 1 .. n
  BY <1>4
<1>6. t \in Nat /\ b \in Nat
  BY PartsAssumption DEF D!RecordsAssumption, RecordsInv, RecordsType
<1>7. Counted(about(t, b))
  <2>0. RecordsType
    BY DEF RecordsInv
  <2>1. /\ \E V : D!Asked \in Seq(V)
        /\ Len(D!Asked) = Cardinality(D!Range(review.comments))
        /\ \E V : D!Files \in Seq(V)
        /\ Len(D!Files) = Cardinality(DOMAIN diffRead)
        /\ \E V : D!HunksOf(D!Asked) \in Seq(V)
    BY <1>1, <2>0, Materials
  <2> DEFINE r == D!Asked
             changed == D!Files
             hunks == D!HunksOf(D!Asked)
  <2> HIDE DEF r
  <2>2. Len(r) \in Nat /\ DOMAIN r = 1 .. Len(r) /\ told = [i \in DOMAIN r |-> told[i]]
    <3>1. \E V : r \in Seq(V)
      BY <2>1 DEF r
    <3>2. told = [i \in DOMAIN r |-> told[i]]
      BY DEF r
    <3> QED BY <3>1, <3>2
  <2> HIDE DEF told, changed, hunks
  <2>3. told = [i \in 1 .. Len(r) |-> told[i]]
    BY <2>2
  <2>4. PICK V : told \in Seq(V) /\ Len(told) = Len(r)
    BY <2>2, <2>3, IsASequence
  <2>5. PICK W : changed \in Seq(W)
    BY <2>1 DEF changed
  <2>6. PICK H : hunks \in Seq(H)
    BY <2>1 DEF hunks
  <2> DEFINE v == D!fitVerdict(t, b, told, changed, hunks)
  <2>7. Accounts(v, Len(told), Len(changed), Len(hunks))
    BY <1>6, <2>4, <2>5, <2>6, VerdictCounts
  <2>8. v = about(t, b)
    BY DEF changed, hunks
  <2> HIDE DEF v, about
  <2> QED BY <2>1, <2>4, <2>7, <2>8 DEF Counted, r, changed, hunks
<1> HIDE DEF about, N
<1>8. PICK a : a = about(t, b)
  OBVIOUS
<1> DEFINE q == [point |-> "review.verdict", baseline |-> review.verdict, about |-> a]
<1>9. Counted(a)'
  <2>1. ASSUME NEW x, Counted(x) PROVE Counted(x)'
    BY <1>1, <2>1, CountsStay
  <2> QED BY <1>7, <1>8, <2>1
<1>10. next' = N' + 2 /\ next # N + 2
  BY <1>1, <1>3 DEF N
<1>11. \A i \in DOMAIN asks : asks[i].point # "review.verdict"
  BY <1>10 DEF RecordsInv, Judged, N
<1>12. CASE asks' = asks
  <2>1. RecordsType'
    BY <1>1, <1>3, <1>12 DEF RecordsInv, RecordsType, N
  <2>2. Judged'
    BY <1>11, <1>12 DEF Judged
  <2>3. Firsts' = Firsts /\ \A j \in Firsts : j < next /\ j < next'
    BY <1>1, <1>3 DEF Firsts, N
  <2>4. Asking'
    <3>1. review' = review
      BY <1>1
    <3>2. Asking
      BY DEF RecordsInv
    <3> QED BY <1>12, <2>3, <3>1, <3>2 DEF Asking, Blocking
  <2> QED BY <2>1, <2>2, <2>4 DEF RecordsInv
<1>13. CASE asks' = Append(asks, q)
  <2> HIDE DEF q
  <2> DEFINE m == n + 1
  <2>1. asks' \in Seq(U \cup {q}) /\ Len(asks') = m
    BY <1>4, <1>13
  <2>2. DOMAIN asks' = 1 .. m /\ asks'[m] = q /\ \A i \in 1 .. n : asks'[i] = asks[i]
    BY <1>4, <1>5, <1>13, <2>1
  <2>3. q.point = "review.verdict" /\ q.about = a
    BY DEF q
  <2> HIDE DEF n
  <2>4. \A i \in DOMAIN asks' : (i \in DOMAIN asks /\ asks'[i] = asks[i]) \/ (i = m /\ asks'[i] = q)
    BY <1>5, <2>2
  <2>5. \A i \in DOMAIN asks : i \in DOMAIN asks' /\ asks'[i] = asks[i]
    BY <1>5, <2>2
  <2>6. RecordsType'
    BY <1>1, <1>3, <2>1 DEF RecordsInv, RecordsType, N
  <2>7. Judged'
    BY <1>9, <1>10, <1>11, <2>3, <2>4 DEF Judged, N
  <2>8. Firsts' = Firsts /\ \A j \in Firsts : j < next /\ j < next'
    BY <1>1, <1>3 DEF Firsts, N
  <2>9. Asking'
    <3>1. review' = review
      BY <1>1
    <3>2. Asking
      BY DEF RecordsInv
    <3>3. \A i \in DOMAIN asks' : Blocking(i)' => i \in DOMAIN asks /\ asks'[i] = asks[i] /\ Blocking(i)
      BY <2>3, <2>4 DEF Blocking
    <3>4. \A i \in DOMAIN asks : Blocking(i) => Blocking(i)'
      BY <2>5 DEF Blocking
    <3> QED BY <2>5, <2>8, <3>1, <3>2, <3>3, <3>4 DEF Asking
  <2> QED BY <2>6, <2>7, <2>9 DEF RecordsInv
<1> QED BY <1>2, <1>8, <1>12, <1>13 

\* Each step keeps the records.
LEMMA RecordsStep == ASSUME RecordsInv, [D!Next]_dVars PROVE RecordsInv'
<1>1. CASE D!ReadPatch
  <2>1. diffRead = None /\ diffRead' \in {patch, <<>>} /\ UNCHANGED <<review, patch, next, asks>>
    BY <1>1 DEF D!ReadPatch
  <2>2. asks = <<>>
    BY <2>1 DEF RecordsInv, RecordsType
  <2>3. RecordsType'
    BY <2>1, <2>2 DEF RecordsInv, RecordsType
  <2>4. Judged'
    BY <2>1, <2>2 DEF Judged
  <2>5. Asking'
    BY <2>1 DEF RecordsInv, Asking, Blocking, Firsts
  <2> QED BY <2>3, <2>4, <2>5 DEF RecordsInv
<1>2. CASE UNCHANGED dVars
  <2>1. \A x : Counted(x) => Counted(x)'
    BY <1>2, CountsStay DEF dVars
  <2> QED BY <1>2, <2>1 DEF dVars, RecordsInv, RecordsType, Asking, Blocking, Firsts, Judged
<1> QED BY <1>1, <1>2, FindingStep, VerdictStep DEF D!Next

\* decisions.go 236: for any review and patch, every finding is asked about once, as
\* blocking or not, and the verdict's state counts all findings, files and hunks.
THEOREM RecordsCovered == Spec => []RecordsCoverTheReview
<1>1. Init => (which = "records" => RecordsInv)
  <2>1. Init /\ which = "records" => D!Init
    BY DEF Init
  <2>2. ASSUME D!Init PROVE RecordsInv
    <3>1. /\ review \in Reviews /\ patch \in Patches /\ diffRead = None /\ next = 1 /\ asks = <<>>
      BY <2>2 DEF D!Init
    <3>2. Len(review.comments) \in Nat
      <4>1. review.comments \in Seq(D!Range(review.comments))
        BY <3>1, PartsAssumption DEF D!RecordsAssumption
      <4> QED BY <4>1
    <3>3. \E U : <<>> \in Seq(U)
      OBVIOUS
    <3>4. \A j \in Firsts : ~(j < 1)
      BY DEF Firsts
    <3> QED BY <3>1, <3>2, <3>3, <3>4 DEF RecordsInv, RecordsType, Asking, Judged
  <2> QED BY <2>1, <2>2
<1>2. (which = "records" => RecordsInv) /\ [Next]_vars => (which = "records" => RecordsInv)'
  <2> SUFFICES ASSUME which = "records" => RecordsInv, [Next]_vars, which' = "records"
               PROVE  RecordsInv'
    OBVIOUS
  <2>1. which = "records"
    BY DEF Next, vars
  <2>2. QED
    BY <2>1, RecordsMove, RecordsStep
<1>3. (which = "records" => RecordsInv) => RecordsCoverTheReview
  <2> SUFFICES ASSUME RecordsInv, D!Done PROVE D!RecordsCoverTheReview
    BY DEF RecordsCoverTheReview, D!RecordsCoverTheReview
  <2> DEFINE s == review.comments
  <2>1. s \in Seq(D!Range(s))
    BY PartsAssumption DEF D!RecordsAssumption, RecordsInv, RecordsType
  <2>2. next \in Nat /\ next > Len(s)
    <3>1. Len(s) \in Nat /\ next \in 1 .. Len(s) + 2
      BY <2>1 DEF RecordsInv, RecordsType
    <3> QED BY <3>1 DEF D!Done
  <2>3. ASSUME NEW c \in D!Range(s)
        PROVE  /\ \E i \in DOMAIN asks : D!About(c, "finding.blocking") = {i}
               /\ \A i \in D!About(c, "finding.blocking") :
                     asks[i].baseline = ("blocking" = IF c.severity \in D!Severities
                                                     THEN c.severity ELSE c.label)
    <3>1. PICK k \in 1 .. Len(s) : c = s[k]
      BY <2>1 DEF D!Range
    <3>2. PICK j \in FirstIndexes(s) \cap 1 .. Len(s) : s[j] = c
      <4> HIDE DEF s
      <4> QED BY <2>1, <3>1, FirstComes
    <3>3. j \in Firsts /\ j < next
      BY <2>1, <2>2, <3>2 DEF Firsts
    <3>4. PICK i \in DOMAIN asks : Blocking(i) /\ asks[i].about = c
      BY <3>2, <3>3 DEF RecordsInv, Asking
    <3>5. D!About(c, "finding.blocking") = {i}
      BY <3>4 DEF D!About, Blocking, RecordsInv, Asking
    <3>6. asks[i].baseline = (D!baseline(c) = "blocking")
      BY <3>4 DEF RecordsInv, Asking
    <3>7. D!baseline(c) = IF c.severity \in D!Severities THEN c.severity ELSE c.label
      BY DEF D!baseline
    <3>8. asks[i].baseline = ("blocking" = IF c.severity \in D!Severities
                                           THEN c.severity ELSE c.label)
      BY <3>6, <3>7
    <3> QED BY <3>5, <3>8
  <2>4. ASSUME asks # <<>>, D!Verdict.point = "review.verdict" PROVE Counted(D!Verdict.about)
    <3>1. PICK U : asks \in Seq(U)
      BY DEF RecordsInv, RecordsType
    <3>2. Len(asks) \in DOMAIN asks /\ D!Verdict = asks[Len(asks)]
      BY <2>4, <3>1 DEF D!Verdict
    <3> QED BY <2>4, <3>2 DEF RecordsInv, Judged
  <2> QED BY <2>3, <2>4, RecordSets DEF D!RecordsCoverTheReview, Counted, Accounts
<1>4. QED
  BY <1>1, <1>2, <1>3, PTL DEF Spec

-----------------------------------------------------------------------------
(* Draft. *)

\* Where one sequence goes on after another.
LEMMA Joined ==
  ASSUME NEW U, NEW g \in Seq(U), NEW t \in Seq(U)
  PROVE  /\ g \o t \in Seq(U) /\ Len(g \o t) = Len(g) + Len(t)
         /\ \A j \in 1 .. Len(g) : (g \o t)[j] = g[j]
         /\ \A j \in 1 .. Len(t) : (g \o t)[Len(g) + j] = t[j]
  OBVIOUS

\* f has what FlattenSeq has come to after each of the sequences.
Flattens(f, seqs) ==
    /\ P!FlattenSeq(seqs) = f[Len(seqs)]
    /\ \A i \in 1 .. Len(seqs) : f[i] = IF i = 1 THEN seqs[1] ELSE f[i - 1] \o seqs[i]

\* FlattenSeq's recursion has the solution it says.
LEMMA FlattenDef ==
  ASSUME NEW U, NEW R \in Nat \ {0}, NEW seqs \in [1 .. R -> Seq(U)], Len(seqs) = R
  PROVE  \E f \in [1 .. R -> Seq(U)] : Flattens(f, seqs)
<1> DEFINE Q == Seq(U)
           step(q, k) == IF k = 1 THEN seqs[k] ELSE q \o seqs[k]
           H == [k \in 1 .. R |-> [q \in Q |-> step(q, k)]]
           eq(f) == f = [k \in 1 .. Len(seqs) |-> IF k = 1 THEN seqs[k] ELSE f[k - 1] \o seqs[k]]
           h == CHOOSE g : eq(g)
           e == <<>>
<1>1. e \in Q /\ \A k \in 1 .. R, q \in Q : step(q, k) \in Q
  OBVIOUS
<1>2. P!FlattenSeq(seqs) = h[R]
  BY DEF P!FlattenSeq
<1> HIDE DEF Q, eq, h, e
<1>3. H \in [1 .. R -> [Q -> Q]]
  <2> HIDE DEF step
  <2> QED BY <1>1
<1>4. PICK f \in [0 .. R -> Q] : f[0] = e /\ \A k \in 1 .. R : f[k] = H[k][f[k - 1]]
  <2> HIDE DEF H
  <2>1. Solvable(R, Q, e, H)
    BY <1>1, <1>3, Recursion
  <2> QED BY <2>1 DEF Solvable
<1> DEFINE c == [k \in 1 .. R |-> f[k]]
<1>5. ASSUME NEW k \in 1 .. R PROVE f[k] = step(f[k - 1], k)
  <2>1. f[k - 1] \in Q
    BY <1>4
  <2> HIDE DEF step
  <2> QED BY <2>1, <1>4
<1>6. ASSUME NEW k \in 1 .. R PROVE c[k] = IF k = 1 THEN seqs[k] ELSE c[k - 1] \o seqs[k]
  <2>1. CASE k = 1
    BY <2>1, <1>5
  <2>2. CASE k # 1
    <3>1. k - 1 \in 1 .. R
      BY <2>2
    <3> QED BY <2>2, <3>1, <1>5
  <2> QED BY <2>1, <2>2
<1>7. eq(c)
  <2>1. c = [k \in 1 .. R |-> c[k]]
    OBVIOUS
  <2> HIDE DEF c
  <2> QED BY <1>6, <2>1 DEF eq
<1>8. eq(h)
  BY <1>7 DEF h
<1>9. h = [k \in 1 .. R |-> IF k = 1 THEN seqs[k] ELSE h[k - 1] \o seqs[k]]
  BY <1>8 DEF eq
<1>10. \A k \in 1 .. R : h[k] = IF k = 1 THEN seqs[1] ELSE h[k - 1] \o seqs[k]
  BY <1>9
<1>11. h \in [1 .. R -> Q]
  <2> DEFINE E == {k \in 0 .. R : k = 0 \/ h[k] \in Q}
  <2>1. 0 \in E
    OBVIOUS
  <2>2. ASSUME NEW n \in 0 .. R - 1, n \in E PROVE n + 1 \in E
    <3>1. n + 1 \in 1 .. R /\ (n + 1) - 1 = n
      OBVIOUS
    <3>2. h[n + 1] = IF n = 0 THEN seqs[1] ELSE h[n] \o seqs[n + 1]
      BY <3>1, <1>10
    <3>3. seqs[1] \in Q /\ seqs[n + 1] \in Q
      BY <3>1 DEF Q
    <3>4. CASE n = 0
      BY <3>1, <3>2, <3>3, <3>4
    <3>5. CASE n # 0
      <4>1. h[n] \in Q
        BY <2>2, <3>5
      <4>2. h[n] \o seqs[n + 1] \in Q
        BY <4>1, <3>3 DEF Q
      <4>3. h[n + 1] = h[n] \o seqs[n + 1]
        BY <3>2, <3>5
      <4>4. h[n + 1] \in Q
        BY <4>2, <4>3
      <4> QED BY <3>1, <4>4
    <3> QED BY <3>4, <3>5
  <2>3. 0 .. R \subseteq E
    <3> HIDE DEF E
    <3> QED BY <2>1, <2>2, UpTo
  <2>4. h = [k \in 1 .. R |-> h[k]]
    BY <1>9
  <2>5. \A k \in 1 .. R : h[k] \in Q
    BY <2>3
  <2> QED BY <2>4, <2>5
<1> QED BY <1>2, <1>10, <1>11 DEF Flattens, Q

\* Rows of the same length make a sequence in which they follow one another.
Rows(t, seqs, R, n) ==
    /\ Len(t) = R * n
    /\ \A r \in 1 .. R, k \in 1 .. n : t[(r - 1) * n + k] = seqs[r][k]

\* FlattenSeq lays rows of the same length one after another.
LEMMA FlattenRows ==
  ASSUME NEW U, NEW R \in Nat \ {0}, NEW n \in Nat \ {0},
         NEW seqs \in [1 .. R -> Seq(U)], Len(seqs) = R, \A r \in 1 .. R : Len(seqs[r]) = n
  PROVE  P!FlattenSeq(seqs) \in Seq(U) /\ Rows(P!FlattenSeq(seqs), seqs, R, n)
<1>1. PICK f \in [1 .. R -> Seq(U)] : Flattens(f, seqs)
  BY FlattenDef
<1> DEFINE Z == {i \in 0 .. R : i = 0 \/ Rows(f[i], seqs, i, n)}
<1>2. 0 \in Z
  OBVIOUS
<1>3. ASSUME NEW i \in 0 .. R - 1, i \in Z PROVE i + 1 \in Z
  <2>1. i + 1 \in 1 .. R /\ (i + 1) - 1 = i
    OBVIOUS
  <2>2. f[i + 1] = IF i = 0 THEN seqs[1] ELSE f[i] \o seqs[i + 1]
    <3>1. \A j \in 1 .. R : f[j] = IF j = 1 THEN seqs[1] ELSE f[j - 1] \o seqs[j]
      BY <1>1 DEF Flattens
    <3>2. f[i + 1] = IF i + 1 = 1 THEN seqs[1] ELSE f[(i + 1) - 1] \o seqs[i + 1]
      BY <2>1, <3>1
    <3>3. (i + 1 = 1) <=> (i = 0)
      OBVIOUS
    <3> QED BY <2>1, <3>2, <3>3
  <2>3. CASE i = 0
    <3>1. f[1] = seqs[1] /\ 1 * n = n /\ Len(seqs[1]) = n
      BY <2>2, <2>3
    <3>2. \A r \in 1 .. 1, k \in 1 .. n : (r - 1) * n + k = k /\ r = 1
      OBVIOUS
    <3>3. Rows(f[1], seqs, 1, n)
      BY <3>1, <3>2 DEF Rows
    <3> QED BY <2>1, <2>3, <3>3
  <2>4. CASE i # 0
    <3> DEFINE g == f[i]
               t == seqs[i + 1]
    <3>1. Rows(g, seqs, i, n) /\ i \in 1 .. R
      BY <1>3, <2>4
    <3>2. g \in Seq(U) /\ t \in Seq(U) /\ f[i + 1] = g \o t /\ Len(t) = n
      BY <2>1, <2>2, <2>4, <3>1
    <3> HIDE DEF g, t
    <3>3. Len(g) = i * n /\ i * n \in Nat
      BY <3>1 DEF Rows
    <3>4. Len(g \o t) = i * n + n
      <4>1. Len(g \o t) = Len(g) + Len(t)
        BY <3>2, Joined
      <4> QED BY <4>1, <3>2, <3>3
    <3>5. (i + 1) * n = i * n + n
      OBVIOUS
    <3>6. ASSUME NEW r \in 1 .. i + 1, NEW k \in 1 .. n
          PROVE  (g \o t)[(r - 1) * n + k] = seqs[r][k]
      <4>1. CASE r = i + 1
        <5>1. (r - 1) * n + k = Len(g) + k
          BY <4>1, <3>3
        <5>2. (g \o t)[Len(g) + k] = t[k]
          <6>1. \A j \in 1 .. n : (g \o t)[Len(g) + j] = t[j]
            BY <3>2, Joined
          <6> QED BY <6>1
        <5> QED BY <5>1, <5>2, <4>1 DEF t
      <4>2. CASE r # i + 1
        <5>1. r \in 1 .. i
          BY <4>2
        <5>2. r * n <= i * n
          BY <5>1
        <5>3. (r - 1) * n = r * n - n /\ (r - 1) * n \in Nat /\ r * n \in Nat
          BY <5>1
        <5>4. (r - 1) * n + k \in 1 .. Len(g)
          <6> DEFINE a == (r - 1) * n
                     b == r * n
                     c == i * n
          <6>1. a = b - n /\ a \in Nat /\ b \in Nat /\ b <= c /\ c \in Nat /\ Len(g) = c
            BY <5>2, <5>3, <3>3
          <6> HIDE DEF a, b, c
          <6>2. a + k \in 1 .. Len(g)
            BY <6>1
          <6> QED BY <6>2 DEF a
        <5>5. (g \o t)[(r - 1) * n + k] = g[(r - 1) * n + k]
          <6> DEFINE j == (r - 1) * n + k
          <6>1. j \in 1 .. Len(g)
            BY <5>4
          <6> HIDE DEF j
          <6>2. (g \o t)[j] = g[j]
            BY <6>1, <3>2, Joined
          <6> QED BY <6>2 DEF j
        <5> QED BY <5>1, <5>5, <3>1 DEF Rows
      <4> QED BY <4>1, <4>2
    <3>7. Rows(g \o t, seqs, i + 1, n)
      BY <3>4, <3>5, <3>6 DEF Rows
    <3>8. Rows(f[i + 1], seqs, i + 1, n)
      BY <3>2, <3>7
    <3> HIDE DEF Rows
    <3> QED BY <2>1, <3>8
  <2> QED BY <2>3, <2>4
<1>4. 0 .. R \subseteq Z
  <2> HIDE DEF Z
  <2> QED BY <1>2, <1>3, UpTo
<1>5. Rows(f[R], seqs, R, n)
  BY <1>4
<1> QED BY <1>1, <1>5 DEF Flattens

\* A step of the whole is one of the draft, or leaves it alone.
LEMMA DraftMoves ==
    ASSUME which = "draft", [Next]_vars
    PROVE  which' = "draft" /\ [P!Next]_pVars
  BY DEF Next, vars, pVars

\* Whose turn each pick of the draft is.
TurnsAre ==
    /\ Len(P!Turns) = Rounds * settings.teams /\ Len(P!Turns) \in Nat \ {0}
    /\ \A made \in 0 .. Len(P!Turns) - 1 :
          LET n == settings.teams
          IN  P!Turns[made + 1] = IF settings.type = "snake" /\ (made \div n + 1) % 2 = 0
                                  THEN n - (made % n) ELSE (made % n) + 1

\* draft.go 275: the turns go up and, in a snake, down again every other round.
LEMMA TurnsFollow == ASSUME settings \in Settings PROVE TurnsAre
<1> DEFINE n == settings.teams
           R == Rounds
           seqs == [r \in 1 .. R |-> P!Round(r)]
<1>1. n \in Nat \ {0} /\ R \in Nat \ {0}
  BY PartsAssumption DEF P!DraftAssumption
<1>2. ASSUME NEW r \in 1 .. R
      PROVE  /\ P!Round(r) \in Seq(1 .. n) /\ Len(P!Round(r)) = n
             /\ \A k \in 1 .. n : P!Round(r)[k] = IF settings.type = "snake" /\ r % 2 = 0
                                                THEN n - k + 1 ELSE k
  <2> DEFINE slots == [i \in 1 .. n |-> i]
             back == [i \in 1 .. n |-> slots[n - i + 1]]
  <2>1. slots \in Seq(1 .. n) /\ Len(slots) = n /\ P!Slots = slots
    BY <1>1 DEF P!Slots
  <2>2. P!Reverse(slots) = back
    <3> HIDE DEF slots
    <3> QED BY <2>1 DEF P!Reverse
  <2>3. \A k \in 1 .. n : back[k] = n - k + 1 /\ n - k + 1 \in 1 .. n
    BY <1>1
  <2>4. back \in Seq(1 .. n) /\ Len(back) = n
    <3>1. n \in Nat /\ back = [i \in 1 .. n |-> back[i]] /\ \A i \in 1 .. n : back[i] \in 1 .. n
      BY <1>1, <2>3
    <3> HIDE DEF back, n
    <3>2. back \in [1 .. n -> 1 .. n]
      BY <3>1
    <3> QED BY <3>1, <3>2
  <2>5. P!Round(r) = IF settings.type = "snake" /\ r % 2 = 0 THEN back ELSE slots
    BY <2>1, <2>2 DEF P!Round
  <2> HIDE DEF back
  <2> QED BY <2>1, <2>3, <2>4, <2>5
<1>3. seqs \in [1 .. R -> Seq(1 .. n)] /\ Len(seqs) = R /\ \A r \in 1 .. R : seqs[r] = P!Round(r)
  BY <1>1, <1>2
<1>4. P!Turns = P!FlattenSeq(seqs)
  BY DEF P!Turns
<1> HIDE DEF seqs, n, R
<1>5. Rows(P!Turns, seqs, R, n)
  <2>1. \A r \in 1 .. R : Len(seqs[r]) = n
    BY <1>2, <1>3
  <2> QED BY <1>1, <1>3, <1>4, <2>1, FlattenRows
<1>6. Len(P!Turns) = R * n /\ R * n \in Nat \ {0}
  BY <1>1, <1>5 DEF Rows
<1>7. ASSUME NEW made \in 0 .. R * n - 1
      PROVE  P!Turns[made + 1] = IF settings.type = "snake" /\ (made \div n + 1) % 2 = 0
                                 THEN n - (made % n) ELSE (made % n) + 1
  <2> DEFINE q == made \div n
             m == made % n
  <2>1. q \in Nat /\ m \in 0 .. n - 1 /\ made = q * n + m
    BY <1>1, <1>6
  <2> HIDE DEF q, m
  <2>2. q < R
    <3> SUFFICES ASSUME q >= R PROVE FALSE
      BY <1>1, <2>1
    <3>1. q * n >= R * n
      BY <1>1, <2>1
    <3> QED BY <1>1, <1>6, <2>1, <3>1
  <2>3. q + 1 \in 1 .. R /\ m + 1 \in 1 .. n /\ (q + 1) - 1 = q
    BY <1>1, <2>1, <2>2
  <2>4. P!Turns[((q + 1) - 1) * n + (m + 1)] = seqs[q + 1][m + 1]
    BY <1>5, <2>3 DEF Rows
  <2>5. ((q + 1) - 1) * n + (m + 1) = made + 1
    BY <1>1, <2>1, <2>3
  <2>6. P!Turns[made + 1] = P!Round(q + 1)[m + 1]
    BY <1>3, <2>3, <2>4, <2>5
  <2>7. n - (m + 1) + 1 = n - m
    BY <1>1, <2>1
  <2>8. P!Round(q + 1)[m + 1] = IF settings.type = "snake" /\ (q + 1) % 2 = 0
                               THEN n - (m + 1) + 1 ELSE m + 1
    BY <1>2, <2>3
  <2>9. P!Turns[made + 1] = IF settings.type = "snake" /\ (q + 1) % 2 = 0 THEN n - m ELSE m + 1
    BY <2>6, <2>7, <2>8
  <2> QED BY <2>9 DEF q, m
<1> QED BY <1>6, <1>7 DEF TurnsAre, n, R

\* Some of the draft's picks.
SomePicks(s) == s \in Seq(Players) /\ Len(s) <= Len(P!Turns)

\* The picks are some of the draft's; what was told is of some picks it had.
DraftInv ==
    /\ settings \in Settings
    /\ SomePicks(picks) /\ (status # "complete" => Len(picks) < Len(P!Turns))
    /\ picksCopy = None \/ SomePicks(picksCopy)
    /\ caller = [stage |-> caller.stage, status |-> caller.status, answer |-> caller.answer]
    /\ caller.stage = "answered" =>
          LET a == caller.answer
          IN  /\ SomePicks(a.picks) /\ a.slot = P!onClock(caller.status, Len(a.picks))
              /\ a.best \cap P!ToSet(a.picks) = {}

\* Each step keeps the draft and what was told of it.
LEMMA DraftStep == ASSUME DraftInv, [P!Next]_pVars PROVE DraftInv'
<1> DEFINE M == Len(P!Turns)
<1>1. settings' = settings
  BY DEF P!Next, pVars, P!Start, P!Pick, P!Expire, P!ReadDraft, P!ReadPicks, P!Return, P!sleeper
<1>2. P!Turns' = P!Turns
  BY <1>1 DEF P!Turns, P!Round, P!Slots
<1>3. M \in Nat \ {0}
  BY TurnsFollow DEF DraftInv, TurnsAre
<1>4. \A s : SomePicks(s)' = SomePicks(s)
  BY <1>2 DEF SomePicks
<1>5. \A said, made : P!onClock(said, made)' = P!onClock(said, made)
  BY <1>1 DEF P!onClock, P!draftRounds
<1> DEFINE Heard(c) == c.stage = "answered" =>
                  LET a == c.answer
                  IN  /\ SomePicks(a.picks) /\ a.slot = P!onClock(c.status, Len(a.picks))
                      /\ a.best \cap P!ToSet(a.picks) = {}
           Called(c) == c = [stage |-> c.stage, status |-> c.status, answer |-> c.answer] /\ Heard(c)
           Sleeper == SomePicks(picks) /\ (status # "complete" => Len(picks) < M)
           Copied == picksCopy = None \/ SomePicks(picksCopy)
<1>6. SUFFICES Sleeper' /\ Copied' /\ Called(caller)'
  BY <1>1 DEF DraftInv
<1>7. Sleeper /\ Copied /\ Called(caller)
  BY DEF DraftInv
<1> HIDE DEF M
<1>8. CASE P!Start
  BY <1>2, <1>4, <1>5, <1>7, <1>8 DEF P!Start, M
<1>9. CASE P!Pick
  <2>1. PICK p \in Players : picks' = Append(picks, p)
    BY <1>9 DEF P!Pick
  <2>2. /\ status = "drafting" /\ status' = IF Len(picks') = M THEN "complete" ELSE status
        /\ UNCHANGED <<picksCopy, caller>>
    BY <1>2, <1>9 DEF P!Pick, M
  <2>3. picks \in Seq(Players) /\ Len(picks) \in Nat /\ Len(picks) < M
    BY <1>7, <2>2 DEF SomePicks
  <2>4. picks' \in Seq(Players) /\ Len(picks') = Len(picks) + 1
    BY <2>1, <2>3
  <2>5. Sleeper'
    <3>1. Len(picks') <= M /\ (status' # "complete" => Len(picks') < M)
      BY <1>3, <2>2, <2>3, <2>4
    <3> QED BY <1>2, <2>4, <3>1 DEF SomePicks, M
  <2>6. Copied'
    BY <1>4, <1>7, <2>2
  <2>7. Called(caller)'
    BY <1>4, <1>5, <1>7, <2>2
  <2> QED BY <2>5, <2>6, <2>7
<1>10. CASE P!Expire
  BY <1>2, <1>4, <1>5, <1>7, <1>10 DEF P!Expire, P!sleeper, M
<1>11. CASE P!ReadDraft
  <2>1. UNCHANGED <<picks, status, picksCopy>> /\ caller'.stage = "picks"
    BY <1>11 DEF P!ReadDraft, P!sleeper, P!Idle
  <2>2. caller' = [stage |-> caller'.stage, status |-> caller'.status, answer |-> caller'.answer]
    BY <1>11 DEF P!ReadDraft, P!Idle
  <2> QED BY <1>2, <1>4, <1>7, <2>1, <2>2 DEF M
<1>12. CASE P!ReadPicks
  <2> DEFINE shown == picksCopy'
             slot == P!onClock(caller.status, Len(shown))
             best == IF caller.status = "drafting" THEN P!bestAvailable(P!ToSet(shown)) ELSE {}
             a == [picks |-> shown, slot |-> slot, best |-> best]
  <2>1. /\ picksCopy' = IF picksCopy # None THEN picksCopy ELSE picks
        /\ caller' = [caller EXCEPT !.stage = "answered", !.answer = a]
        /\ UNCHANGED <<picks, status>>
    BY <1>12 DEF P!ReadPicks, P!sleeper
  <2>2. SomePicks(shown)
    BY <1>7, <2>1
  <2>3. best \cap P!ToSet(shown) = {}
    BY DEF P!bestAvailable
  <2> HIDE DEF best, slot
  <2>4. a.picks = shown /\ a.slot = slot /\ a.best = best
    OBVIOUS
  <2> HIDE DEF a
  <2>5. caller' = [stage |-> "answered", status |-> caller.status, answer |-> a]
    BY <1>7, <2>1
  <2>6. caller'.stage = "answered" /\ caller'.status = caller.status /\ caller'.answer = a
    BY <2>5
  <2>7. Sleeper' /\ Copied'
    BY <1>2, <1>4, <1>7, <2>1, <2>2 DEF M
  <2>9. Heard(caller)'
    BY <1>4, <1>5, <2>2, <2>3, <2>4, <2>6 DEF slot
  <2> QED BY <2>5, <2>6, <2>7, <2>9
<1>13. CASE P!Return
  <2>1. UNCHANGED <<picks, status, picksCopy>> /\ caller' = P!Idle
    BY <1>13 DEF P!Return, P!sleeper
  <2> QED BY <1>2, <1>4, <1>7, <2>1 DEF M, P!Idle
<1>14. CASE UNCHANGED pVars
  BY <1>2, <1>4, <1>5, <1>7, <1>14 DEF pVars, M
<1> QED BY <1>8, <1>9, <1>10, <1>11, <1>12, <1>13, <1>14 DEF P!Next

\* draft.go 275: for any teams, rounds and picks, who is said to be on the clock is who
\* makes the next pick, nobody when there is none, and nobody is recommended who is taken.
THEOREM ClockFollows == Spec => []ClockFollowsThePicks
<1> DEFINE IInv == which = "draft" => DraftInv
<1>1. Init => IInv
  <2>1. Init /\ which = "draft" => P!Init
    BY DEF Init
  <2>2. ASSUME P!Init PROVE DraftInv
    <3>1. /\ settings \in Settings /\ picks = <<>> /\ status = "pre_draft" /\ picksCopy = None
          /\ caller = [stage |-> "idle", status |-> None, answer |-> None]
      BY <2>2 DEF P!Init, P!Idle
    <3>2. Len(P!Turns) \in Nat \ {0}
      BY <3>1, TurnsFollow DEF TurnsAre
    <3>3. <<>> \in Seq(Players) /\ Len(<<>>) = 0
      OBVIOUS
    <3> QED BY <3>1, <3>2, <3>3 DEF DraftInv, SomePicks
  <2> QED BY <2>1, <2>2
<1>2. IInv /\ [Next]_vars => IInv'
  <2> SUFFICES ASSUME which = "draft" => DraftInv, [Next]_vars, which' = "draft" PROVE DraftInv'
    OBVIOUS
  <2>1. which = "draft"
    BY DEF Next, vars
  <2>2. QED
    BY <2>1, DraftMoves, DraftStep
<1>3. IInv => ClockFollowsThePicks
  <2> SUFFICES ASSUME DraftInv, caller.stage = "answered" PROVE P!ClockFollowsThePicks
    BY DEF ClockFollowsThePicks, P!ClockFollowsThePicks
  <2> DEFINE a == caller.answer
             made == Len(a.picks)
             n == settings.teams
             M == Len(P!Turns)
             rounds == P!draftRounds
  <2>1. /\ a.picks \in Seq(Players) /\ made <= M /\ a.slot = P!onClock(caller.status, made)
        /\ a.best \cap P!ToSet(a.picks) = {} /\ settings \in Settings
    BY DEF DraftInv, SomePicks
  <2>2. made \in Nat
    BY <2>1
  <2>3. TurnsAre
    BY <2>1, TurnsFollow
  <2>4. n \in Nat \ {0} /\ Rounds \in Nat \ {0} /\ None \notin Nat /\ rounds \in 0 .. Rounds
        /\ (settings.rounds = Rounds => rounds = Rounds)
    <3>1. /\ n \in Nat \ {0} /\ Rounds \in Nat \ {0} /\ None \notin Nat
          /\ settings.rounds \in {0, Rounds} /\ settings.starters \in 0 .. Rounds
      BY <2>1, PartsAssumption DEF P!DraftAssumption
    <3>2. rounds = IF settings.rounds > 0 THEN settings.rounds ELSE settings.starters
      BY DEF P!draftRounds
    <3> HIDE DEF rounds, n
    <3> QED BY <3>1, <3>2
  <2>5. M = Rounds * n /\ n * rounds <= M
    BY <2>3, <2>4 DEF TurnsAre
  <2> DEFINE turn == IF settings.type = "snake" /\ (made \div n + 1) % 2 = 0
                     THEN n - (made % n) ELSE (made % n) + 1
  <2>6. a.slot = IF caller.status # "drafting" \/ made >= n * rounds THEN None ELSE turn
    <3>1. n # 0
      BY <2>4
    <3> DEFINE round == made \div n + 1
               pos == made % n
    <3>2. a.slot = IF caller.status # "drafting" \/ n = 0 \/ made >= n * rounds THEN None
                   ELSE IF settings.type = "snake" /\ round % 2 = 0 THEN n - pos ELSE pos + 1
      BY <2>1 DEF P!onClock
    <3> QED BY <3>1, <3>2
  <2>7. turn # None
    <3> DEFINE pos == made % n
    <3>1. pos \in 0 .. n - 1
      BY <2>2, <2>4
    <3>2. n - pos \in Nat /\ pos + 1 \in Nat
      BY <2>4, <3>1
    <3>3. turn = n - pos \/ turn = pos + 1
      OBVIOUS
    <3> HIDE DEF turn, pos
    <3> QED BY <2>4, <3>2, <3>3
  <2>8. made < M => turn = P!Turns[made + 1]
    <3> SUFFICES ASSUME made < M PROVE P!Turns[made + 1] = turn
      OBVIOUS
    <3>1. M \in Nat \ {0}
      BY <2>3 DEF TurnsAre
    <3>2. made \in 0 .. M - 1
      BY <2>2, <3>1
    <3> HIDE DEF made
    <3>3. P!Turns[made + 1] = IF settings.type = "snake" /\ (made \div n + 1) % 2 = 0
                              THEN n - (made % n) ELSE (made % n) + 1
      BY <2>3, <3>2 DEF TurnsAre
    <3> QED BY <3>3
  <2> HIDE DEF turn, rounds, M
  <2>9. n * rounds \in Nat /\ M \in Nat
    BY <2>4, <2>5
  <2>10. a.slot # None => a.slot = P!Turns[made + 1]
    BY <2>2, <2>5, <2>6, <2>8, <2>9
  <2>11. caller.status = "drafting" /\ settings.rounds = Rounds => (a.slot = None) = (made = M)
    <3> SUFFICES ASSUME caller.status = "drafting", settings.rounds = Rounds
                 PROVE  (a.slot = None) <=> (made = M)
      OBVIOUS
    <3>1. n * rounds = M
      BY <2>4, <2>5
    <3> QED BY <2>1, <2>2, <2>6, <2>7, <2>9, <3>1
  <2> QED BY <2>1, <2>10, <2>11 DEF P!ClockFollowsThePicks, M
<1>4. QED
  BY <1>1, <1>2, <1>3, PTL DEF Spec

-----------------------------------------------------------------------------
(* Lineup. *)

\* Cardinality of the part is the one of FiniteSets.
LEMMA LineupSets ==
    \A set : L!Cardinality(set) = Cardinality(set) /\ L!IsFiniteSet(set) = IsFiniteSet(set)
  BY Zenon DEF L!Cardinality, Cardinality, L!IsFiniteSet, IsFiniteSet

\* How many of S come before x.
Rank(x, E, R) == Cardinality({y \in E : <<y, x>> \in R})

\* R is a strict total order of E.
StrictlyOrders(R, E) ==
    /\ \A x \in E : <<x, x>> \notin R
    /\ \A x, y, z \in E : <<x, y>> \in R /\ <<y, z>> \in R => <<x, z>> \in R
    /\ \A x, y \in E : x = y \/ <<x, y>> \in R \/ <<y, x>> \in R

\* The ranks in E are the numbers from 0 on, and follow R.
Ranked(E, R) ==
    /\ \A x \in E : Rank(x, E, R) \in 0 .. Cardinality(E) - 1
    /\ \A x, y \in E : <<x, y>> \in R => Rank(x, E, R) < Rank(y, E, R)
    /\ \A k \in 0 .. Cardinality(E) - 1 : \E x \in E : Rank(x, E, R) = k

\* In a strict order the ranks are the numbers from 0 on, each of one element.
LEMMA Ranks ==
    ASSUME NEW E, IsFiniteSet(E), NEW R, StrictlyOrders(R, E)
    PROVE  Ranked(E, R)
<1> DEFINE below(x) == {y \in E : <<y, x>> \in R}
           rank(x) == Cardinality(below(x))
           n == Cardinality(E)
<1>1. n \in Nat
  BY FS_CardinalityType
<1>2. ASSUME NEW x \in E PROVE IsFiniteSet(below(x)) /\ rank(x) \in 0 .. n - 1
  <2>1. below(x) \subseteq E \ {x}
    BY DEF StrictlyOrders
  <2>2. IsFiniteSet(E \ {x}) /\ Cardinality(E \ {x}) = n - 1
    BY FS_RemoveElement
  <2>3. IsFiniteSet(below(x)) /\ rank(x) <= n - 1
    <3> HIDE DEF below
    <3> QED BY <2>1, <2>2, FS_Subset
  <2>4. rank(x) \in Nat
    <3> HIDE DEF below
    <3> QED BY <2>3, FS_CardinalityType
  <2> QED BY <1>1, <2>3, <2>4
<1>3. ASSUME NEW x \in E, NEW y \in E, <<x, y>> \in R PROVE rank(x) < rank(y)
  <2>1. below(x) \subseteq below(y) /\ x \in below(y) /\ x \notin below(x)
    BY <1>3 DEF StrictlyOrders
  <2>2. rank(x) <= rank(y) /\ rank(x) # rank(y)
    <3>1. IsFiniteSet(below(y))
      BY <1>2
    <3> HIDE DEF below
    <3> QED BY <2>1, <3>1, FS_Subset
  <2>3. rank(x) \in Nat /\ rank(y) \in Nat
    <3> HIDE DEF below, rank, n
    <3> QED BY <1>1, <1>2
  <2> HIDE DEF rank
  <2> QED BY <2>2, <2>3
<1> DEFINE f == [x \in E |-> rank(x)]
           K == 0 .. n - 1
<1>4. f \in [E -> K]
  <2> HIDE DEF rank, n
  <2> QED BY <1>1, <1>2
<1>5. \A x, y \in E : f[x] = f[y] => x = y
  <2> HIDE DEF below, rank, n
  <2>1. ASSUME NEW x \in E, NEW y \in E, x # y PROVE rank(x) # rank(y)
    <3>1. <<x, y>> \in R \/ <<y, x>> \in R
      BY <2>1 DEF StrictlyOrders
    <3>2. rank(x) \in Nat /\ rank(y) \in Nat
      BY <1>1, <1>2
    <3> QED BY <1>3, <3>1, <3>2
  <2> QED BY <2>1
<1>6. IsFiniteSet(K) /\ Cardinality(K) = n
  <2> HIDE DEF n
  <2>1. 0 \in Int /\ n - 1 \in Int
    BY <1>1
  <2>2. IsFiniteSet(K) /\ Cardinality(K) = IF 0 > n - 1 THEN 0 ELSE n - 1 - 0 + 1
    BY <2>1, FS_Interval
  <2> QED BY <1>1, <2>2
<1>7. f \in Surjection(E, K)
  <2> HIDE DEF f, K
  <2>1. f \in Injection(E, K)
    BY <1>4, <1>5 DEF Injection, IsInjective
  <2> QED BY <1>6, <2>1, FS_Injection
<1>8. \A k \in K : \E x \in E : f[x] = k
  <2> HIDE DEF f, K
  <2> QED BY <1>7 DEF Surjection
<1>9. \A x \in E : rank(x) = Rank(x, E, R)
  BY DEF Rank
<1> HIDE DEF rank
<1> QED BY <1>2, <1>3, <1>8, <1>9 DEF Ranked

\* r has what is in X, each once, the highest first.
Standing(r, X, points) ==
    /\ r \in Seq(X)
    /\ \A x \in X : \E k \in 1 .. Len(r) : r[k] = x
    /\ \A k, l \in 1 .. Len(r) : r[k] = r[l] => k = l
    /\ \A k, l \in 1 .. Len(r) : k < l => points[r[k]] >= points[r[l]]

\* history_lineup.go 30: sortedByPoints puts the highest first.
LEMMA SortStands ==
    ASSUME NEW X, NEW ids \in Seq(X), NEW points,
           \A x \in X : points[x] \in Int,
           \A x \in X : \E k \in 1 .. Len(ids) : ids[k] = x,
           \A k, l \in 1 .. Len(ids) : ids[k] = ids[l] => k = l
    PROVE  Standing(L!sortedByPoints(ids, points), X, points)
<1> DEFINE n == Len(ids)
           E == 1 .. n
           v(i) == points[ids[i]]
           R == {p \in E \X E : v(p[1]) > v(p[2]) \/ (v(p[1]) = v(p[2]) /\ p[1] < p[2])}
           r == L!sortedByPoints(ids, points)
<1>1. n \in Nat /\ DOMAIN ids = E /\ \A i \in E : ids[i] \in X /\ v(i) \in Int
  OBVIOUS
<1>2. IsFiniteSet(E) /\ Cardinality(E) = n
  <2> HIDE DEF n
  <2>1. 1 \in Int /\ n \in Int
    BY <1>1
  <2>2. IsFiniteSet(E) /\ Cardinality(E) = IF 1 > n THEN 0 ELSE n - 1 + 1
    BY <2>1, FS_Interval
  <2> QED BY <1>1, <2>2
<1>3. StrictlyOrders(R, E)
  <2> DEFINE ahead(i, j) == v(i) > v(j) \/ (v(i) = v(j) /\ i < j)
  <2>1. \A x, y : <<x, y>> \in R <=> x \in E /\ y \in E /\ ahead(x, y)
    OBVIOUS
  <2>2. \A x \in E : ~ahead(x, x)
    BY <1>1
  <2>3. \A x, y, z \in E : ahead(x, y) /\ ahead(y, z) => ahead(x, z)
    BY <1>1
  <2>4. \A x, y \in E : x = y \/ ahead(x, y) \/ ahead(y, x)
    BY <1>1
  <2> HIDE DEF E, R, ahead
  <2> QED BY <2>1, <2>2, <2>3, <2>4 DEF StrictlyOrders
<1>4. Ranked(E, R)
  <2> HIDE DEF E, R
  <2> QED BY <1>2, <1>3, Ranks
<1> DEFINE ahead(j) == {i \in DOMAIN ids :
                           \/ points[ids[i]] > points[ids[j]]
                           \/ points[ids[i]] = points[ids[j]] /\ i < j}
           count(j) == L!Cardinality(ahead(j))
           at(k) == CHOOSE j \in E : count(j) = k - 1
<1>5. ASSUME NEW j \in E PROVE Rank(j, E, R) = count(j)
  <2>1. ahead(j) = {i \in E : <<i, j>> \in R}
    BY <1>1
  <2>2. count(j) = Cardinality(ahead(j))
    <3> HIDE DEF ahead
    <3> QED BY LineupSets
  <2> HIDE DEF ahead, count, E, R
  <2>3. Rank(j, E, R) = Cardinality(ahead(j))
    BY <2>1 DEF Rank
  <2> QED BY <2>2, <2>3
<1>6. r = [k \in E |-> ids[at(k)]]
  <2>1. r = [k \in DOMAIN ids |-> ids[CHOOSE j \in DOMAIN ids : count(j) = k - 1]]
    BY DEF L!sortedByPoints
  <2> HIDE DEF ahead, count, r
  <2> QED BY <1>1, <2>1
<1> HIDE DEF ahead, count
<1> HIDE DEF r
<1>7. ASSUME NEW k \in E PROVE at(k) \in E /\ Rank(at(k), E, R) = k - 1
  <2>1. k - 1 \in 0 .. n - 1
    BY <1>1
  <2>2. \E j \in E : Rank(j, E, R) = k - 1
    BY <1>2, <1>4, <2>1 DEF Ranked
  <2> HIDE DEF E, R
  <2>3. \E j \in E : count(j) = k - 1
    BY <1>5, <2>2
  <2>4. at(k) \in E /\ count(at(k)) = k - 1
    BY <2>3
  <2> QED BY <1>5, <2>4
<1> HIDE DEF at
<1>8. r \in Seq(X) /\ Len(r) = n
  <2>1. \A k \in E : ids[at(k)] \in X
    BY <1>1, <1>7
  <2> HIDE DEF R
  <2> QED BY <1>1, <1>6, <2>1
<1>9. ASSUME NEW x \in X PROVE \E k \in 1 .. Len(r) : r[k] = x
  <2>1. PICK j \in E : ids[j] = x
    OBVIOUS
  <2> DEFINE k == Rank(j, E, R) + 1
  <2>2. Rank(j, E, R) \in 0 .. n - 1
    BY <1>2, <1>4 DEF Ranked
  <2>3. k \in E /\ k - 1 = Rank(j, E, R)
    BY <1>1, <2>2
  <2>4. at(k) \in E /\ Rank(at(k), E, R) = Rank(j, E, R)
    <3> HIDE DEF k, E, R
    <3> QED BY <1>7, <2>3
  <2>5. at(k) = j
    <3>1. \A a, b \in E : <<a, b>> \in R => Rank(a, E, R) < Rank(b, E, R)
      BY <1>4 DEF Ranked
    <3>2. \A a, b \in E : a = b \/ <<a, b>> \in R \/ <<b, a>> \in R
      BY <1>3 DEF StrictlyOrders
    <3>3. Rank(j, E, R) \in Int
      BY <2>2
    <3> HIDE DEF E, R, k
    <3>4. ~(<<at(k), j>> \in R)
      BY <2>4, <3>1, <3>3
    <3>5. ~(<<j, at(k)>> \in R)
      BY <2>4, <3>1, <3>3
    <3> QED BY <2>4, <3>2, <3>4, <3>5
  <2> HIDE DEF k
  <2> QED BY <1>6, <1>8, <2>1, <2>3, <2>5
<1>10. ASSUME NEW k \in E, NEW l \in E, k < l PROVE v(at(k)) >= v(at(l)) /\ at(k) # at(l)
  <2>1. \A a, b \in E : <<a, b>> \in R => Rank(a, E, R) < Rank(b, E, R)
    BY <1>4 DEF Ranked
  <2>2. \A a, b \in E : a = b \/ <<a, b>> \in R \/ <<b, a>> \in R
    BY <1>3 DEF StrictlyOrders
  <2>3. at(k) \in E /\ at(l) \in E /\ Rank(at(k), E, R) = k - 1 /\ Rank(at(l), E, R) = l - 1
    BY <1>7
  <2>4. k - 1 < l - 1 /\ ~(l - 1 < k - 1) /\ k - 1 # l - 1
    BY <1>10
  <2>5. <<at(k), at(l)>> \in R /\ at(k) # at(l)
    <3> HIDE DEF E, R
    <3>1. at(k) # at(l)
      BY <2>3, <2>4
    <3>2. ~(<<at(l), at(k)>> \in R)
      BY <2>1, <2>3, <2>4
    <3> QED BY <2>2, <2>3, <3>1, <3>2
  <2>6. v(at(k)) >= v(at(l))
    BY <1>1, <2>3, <2>5
  <2> QED BY <2>5, <2>6
<1>11. \A k \in E : r[k] = ids[at(k)] /\ at(k) \in E
  BY <1>6, <1>7
<1>12. \A k, l \in 1 .. Len(r) : k < l => points[r[k]] >= points[r[l]]
  <2> HIDE DEF E, R
  <2> QED BY <1>8, <1>10, <1>11 DEF E
<1>13. \A k, l \in 1 .. Len(r) : r[k] = r[l] => k = l
  <2>1. ASSUME NEW k \in E, NEW l \in E, k < l PROVE r[k] # r[l]
    <3>1. at(k) \in E /\ at(l) \in E /\ at(k) # at(l)
      BY <1>10, <1>11, <2>1
    <3>2. ids[at(k)] # ids[at(l)]
      BY <3>1
    <3> QED BY <1>11, <3>2
  <2>2. \A k, l \in E : k = l \/ k < l \/ l < k
    BY <1>1
  <2> HIDE DEF R, v
  <2> QED BY <1>8, <2>1, <2>2 DEF E
<1> HIDE DEF R, v, E
<1> QED BY <1>8, <1>9, <1>12, <1>13 DEF Standing, r

\* The part's SelectAt is the one of Selection.
LEMMA LineupSelect == \A s, J : L!SelectAt(s, J) = SelectAt(s, J)
  BY DEF L!SelectAt, SelectAt

\* A position's players, the highest first.
Group(ids, p, w) == L!sortedByPoints(L!OfPosition(ids, p, w.pos), w.points)

\* ids are those of T, each once.
Enumerates(ids, U) ==
    /\ ids \in Seq(U)
    /\ \A x \in U : \E k \in 1 .. Len(ids) : ids[k] = x
    /\ \A k, l \in 1 .. Len(ids) : ids[k] = ids[l] => k = l

\* What is selected of elements that are all different.
LEMMA SelectEach ==
    ASSUME NEW U, NEW ids, Enumerates(ids, U), NEW J
    PROVE  Enumerates(SelectAt(ids, J), {x \in U : \E i \in J \cap 1 .. Len(ids) : ids[i] = x})
<1> DEFINE r == SelectAt(ids, J)
           X == {x \in U : \E i \in J \cap 1 .. Len(ids) : ids[i] = x}
           len == Len(r)
<1>1. ids \in Seq(U) /\ \A k, l \in 1 .. Len(ids) : ids[k] = ids[l] => k = l
  BY DEF Enumerates
<1>2. r \in Seq(U) /\ Picks(r, ids, J \cap 1 .. Len(ids))
  BY <1>1, SelectAtPicks
<1> HIDE DEF r
<1>3. len \in Nat /\ r = [k \in 1 .. len |-> r[k]]
  BY <1>2
<1>4. PICK g \in [1 .. len -> J \cap 1 .. Len(ids)] :
        /\ \A i, j \in 1 .. len : i < j => g[i] < g[j]
        /\ \A m \in J \cap 1 .. Len(ids) : \E i \in 1 .. len : g[i] = m
        /\ \A i \in 1 .. len : r[i] = ids[g[i]]
  BY <1>2 DEF Picks
<1>5. \A k \in 1 .. len : r[k] \in X
  BY <1>1, <1>4
<1>6. r \in Seq(X)
  <2> HIDE DEF X, len
  <2> QED BY <1>3, <1>5
<1>7. \A x \in X : \E k \in 1 .. len : r[k] = x
  BY <1>4
<1>8. ASSUME NEW k \in 1 .. len, NEW l \in 1 .. len, r[k] = r[l] PROVE k = l
  <2>1. g[k] \in 1 .. Len(ids) /\ g[l] \in 1 .. Len(ids) /\ ids[g[k]] = ids[g[l]]
    BY <1>4, <1>8
  <2>2. g[k] = g[l]
    BY <1>1, <2>1
  <2>3. g[k] \in Int /\ g[l] \in Int
    BY <2>1
  <2>4. ~(k < l) /\ ~(l < k)
    BY <1>4, <2>2, <2>3
  <2> QED BY <1>3, <2>4
<1> QED BY <1>6, <1>7, <1>8 DEF Enumerates, r

\* A position's players stand in the order of their points.
LEMMA Grouped ==
    ASSUME NEW U, NEW ids, Enumerates(ids, U), NEW w, NEW p, \A x \in U : w.points[x] \in Int
    PROVE  Standing(Group(ids, p, w), {x \in U : w.pos[x] = p}, w.points)
<1> DEFINE J == {i \in DOMAIN ids : w.pos[ids[i]] = p}
           X == {x \in U : w.pos[x] = p}
           r == SelectAt(ids, J)
<1>1. L!OfPosition(ids, p, w.pos) = r
  BY LineupSelect DEF L!OfPosition
<1>2. X = {x \in U : \E i \in J \cap 1 .. Len(ids) : ids[i] = x}
  BY DEF Enumerates
<1>3. Enumerates(r, X)
  <2> HIDE DEF J
  <2>1. Enumerates(SelectAt(ids, J), {x \in U : \E i \in J \cap 1 .. Len(ids) : ids[i] = x})
    BY SelectEach
  <2> QED BY <1>2, <2>1
<1> HIDE DEF r
<1>4. \A x \in X : w.points[x] \in Int
  OBVIOUS
<1> HIDE DEF X
<1>5. Standing(L!sortedByPoints(r, w.points), X, w.points)
  BY <1>3, <1>4, SortStands DEF Enumerates
<1> QED BY <1>1, <1>5 DEF Group, X

\* The how manieth slot of its name the i-th is.
Turn(slots, i) == Cardinality({j \in 1 .. i : slots[j] = slots[i]})

\* Where the slots of a name are.
Places(slots, p) == {j \in DOMAIN slots : slots[j] = p}

\* The slots of a name have turns from 1 on, in their order.
Turning(slots, p) ==
    /\ Cardinality(Places(slots, p)) \in Nat
    /\ \A i \in Places(slots, p) : Turn(slots, i) \in 1 .. Cardinality(Places(slots, p))
    /\ \A i, j \in Places(slots, p) : i < j => Turn(slots, i) < Turn(slots, j)
    /\ \A k \in 1 .. Cardinality(Places(slots, p)) : \E i \in Places(slots, p) : Turn(slots, i) = k

\* The slots of a name have the turns from 1 on, in their order.
LEMMA TakeTurns ==
    ASSUME NEW U, NEW slots \in Seq(U), NEW p
    PROVE  Turning(slots, p)
<1> DEFINE N == Len(slots)
           J == Places(slots, p)
           c == Cardinality(J)
           R == {q \in J \X J : q[1] < q[2]}
<1>1. N \in Nat /\ DOMAIN slots = 1 .. N /\ J \subseteq 1 .. N
  BY DEF Places
<1>2. \A a \in Nat : IsFiniteSet(1 .. a)
  <2>1. \A a \in Nat : 1 \in Int /\ a \in Int
    OBVIOUS
  <2> QED BY <2>1, FS_Interval
<1>3. IsFiniteSet(J) /\ c \in Nat
  <2> HIDE DEF J, N
  <2>1. IsFiniteSet(J)
    BY <1>1, <1>2, FS_Subset
  <2> QED BY <2>1, FS_CardinalityType
<1>4. StrictlyOrders(R, J)
  <2>1. \A x, y : <<x, y>> \in R <=> x \in J /\ y \in J /\ x < y
    OBVIOUS
  <2>2. \A x \in J : x \in Int
    BY <1>1
  <2> HIDE DEF R, J
  <2> QED BY <2>1, <2>2 DEF StrictlyOrders
<1>5. Ranked(J, R)
  <2> HIDE DEF R, J
  <2> QED BY <1>3, <1>4, Ranks
<1>6. ASSUME NEW i \in J PROVE Turn(slots, i) = Rank(i, J, R) + 1
  <2> DEFINE C == {y \in J : <<y, i>> \in R}
             upto == {j \in 1 .. i : slots[j] = slots[i]}
  <2>1. upto = C \cup {i} /\ i \notin C /\ C \subseteq J
    BY <1>1 DEF Places
  <2> HIDE DEF C, J
  <2>2. IsFiniteSet(C)
    BY <1>3, <2>1, FS_Subset
  <2>3. Cardinality(C \cup {i}) = Cardinality(C) + 1
    BY <2>1, <2>2, FS_AddElement
  <2> HIDE DEF upto
  <2>4. Cardinality(upto) = Cardinality(C) + 1
    BY <2>1, <2>3
  <2> QED BY <2>4 DEF Turn, Rank, C, upto
<1> HIDE DEF J, R, c
<1>7. \A i \in J : Rank(i, J, R) \in 0 .. c - 1
  BY <1>5 DEF Ranked, c
<1>8. \A i \in J : Turn(slots, i) \in 1 .. c
  BY <1>3, <1>6, <1>7
<1>9. ASSUME NEW i \in J, NEW j \in J, i < j PROVE Turn(slots, i) < Turn(slots, j)
  <2>1. <<i, j>> \in R
    BY <1>9 DEF R
  <2>2. Rank(i, J, R) < Rank(j, J, R)
    BY <1>5, <2>1 DEF Ranked
  <2>3. Rank(i, J, R) \in Int /\ Rank(j, J, R) \in Int
    BY <1>7
  <2> QED BY <1>6, <2>2, <2>3
<1>10. ASSUME NEW k \in 1 .. c PROVE \E i \in J : Turn(slots, i) = k
  <2>1. k - 1 \in 0 .. c - 1
    BY <1>3
  <2>2. PICK i \in J : Rank(i, J, R) = k - 1
    BY <1>5, <2>1 DEF Ranked, c
  <2>3. Turn(slots, i) = k
    BY <1>6, <2>2
  <2> QED BY <2>3
<1> QED BY <1>3, <1>8, <1>9, <1>10 DEF Turning, J, c

\* sb starts, in each strict slot, the best of those not yet started.
Strictly(sb, slots, C, w) ==
    /\ sb \in [DOMAIN slots -> C \cup {None}]
    /\ \A i \in DOMAIN slots : sb[i] # None =>
          ~L!IsFlex(slots[i]) /\ sb[i] \in C /\ w.pos[sb[i]] = slots[i]
    /\ \A i, j \in DOMAIN slots : sb[i] # None /\ sb[i] = sb[j] => i = j
    /\ \A i \in DOMAIN slots, x \in C : ~L!IsFlex(slots[i]) /\ w.pos[x] = slots[i] =>
          \/ \E j \in 1 .. i - 1 : sb[j] = x
          \/ sb[i] # None /\ w.points[x] <= w.points[sb[i]]

\* What the i-th slot gets of its position's players.
SlotGets(slots, ids, w, i) ==
    IF L!IsFlex(slots[i]) \/ Turn(slots, i) > Len(Group(ids, slots[i], w)) THEN None
    ELSE Group(ids, slots[i], w)[Turn(slots, i)]

\* strictSlots gives each slot what it gets.
LEMMA StrictGets ==
    ASSUME NEW slots, NEW ids, NEW w
    PROVE  L!strictSlots(slots, ids, w) = [i \in DOMAIN slots |-> SlotGets(slots, ids, w, i)]
<1>1. \A i : L!Cardinality({j \in 1 .. i : slots[j] = slots[i]}) = Turn(slots, i)
  BY LineupSets DEF Turn
<1> QED BY <1>1 DEF L!strictSlots, SlotGets, Group

\* history_lineup.go 69: the strict slots take the top scorers of their position.
LEMMA StrictFills ==
    ASSUME NEW C, None \notin C, NEW ids, Enumerates(ids, C), NEW U, NEW slots \in Seq(U),
           NEW w, \A x \in C : w.points[x] \in Int
    PROVE  Strictly(L!strictSlots(slots, ids, w), slots, C, w)
<1> DEFINE sb == [i \in DOMAIN slots |-> SlotGets(slots, ids, w, i)]
           X(p) == {x \in C : w.pos[x] = p}
           N == Len(slots)
           group(p) == Group(ids, p, w)
           turn(i) == Turn(slots, i)
<1>1. N \in Nat /\ DOMAIN slots = 1 .. N
  OBVIOUS
<1>2. \A p : Standing(group(p), X(p), w.points)
  BY Grouped
<1>3. \A p : Turning(slots, p)
  BY TakeTurns
<1>4. \A i \in 1 .. N : i \in Places(slots, slots[i])
  BY <1>1 DEF Places
<1>5. \A i \in 1 .. N : turn(i) \in Nat \ {0}
  <2> TAKE i \in 1 .. N
  <2> HIDE DEF turn
  <2>1. turn(i) \in 1 .. Cardinality(Places(slots, slots[i])) /\ Cardinality(Places(slots, slots[i])) \in Nat
    BY <1>3, <1>4 DEF Turning, turn
  <2> QED BY <2>1
<1>6. ASSUME NEW p PROVE group(p) \in Seq(X(p)) /\ Len(group(p)) \in Nat
  <2>1. group(p) \in Seq(X(p))
    BY <1>2 DEF Standing
  <2> QED BY <2>1
<1>7. ASSUME NEW i \in 1 .. N
      PROVE  sb[i] = IF L!IsFlex(slots[i]) \/ turn(i) > Len(group(slots[i])) THEN None
                     ELSE group(slots[i])[turn(i)]
  BY <1>1 DEF SlotGets
<1> HIDE DEF sb, group, turn, X
<1>8. ASSUME NEW i \in 1 .. N, sb[i] # None
      PROVE  /\ ~L!IsFlex(slots[i]) /\ sb[i] \in X(slots[i]) /\ turn(i) \in 1 .. Len(group(slots[i]))
             /\ sb[i] = group(slots[i])[turn(i)]
  <2>1. ~L!IsFlex(slots[i]) /\ ~(turn(i) > Len(group(slots[i]))) /\ sb[i] = group(slots[i])[turn(i)]
    BY <1>7, <1>8
  <2>2. turn(i) \in 1 .. Len(group(slots[i]))
    BY <1>5, <1>6, <2>1
  <2> QED BY <1>6, <2>1, <2>2
<1>9. sb \in [DOMAIN slots -> C \cup {None}]
  <2>1. sb = [i \in DOMAIN slots |-> sb[i]]
    BY DEF sb
  <2>2. \A i \in 1 .. N : sb[i] \in C \cup {None}
    BY <1>8 DEF X
  <2> QED BY <1>1, <2>1, <2>2
<1>10. ASSUME NEW i \in 1 .. N, NEW j \in 1 .. N, sb[i] # None, sb[i] = sb[j] PROVE i = j
  <2> DEFINE p == slots[i]
  <2>1. sb[i] \in X(slots[i]) /\ sb[i] \in X(slots[j])
    BY <1>8, <1>10
  <2>2. slots[j] = p
    BY <2>1 DEF X
  <2>3. /\ turn(i) \in 1 .. Len(group(p)) /\ turn(j) \in 1 .. Len(group(p))
        /\ group(p)[turn(i)] = group(p)[turn(j)]
    BY <1>8, <1>10, <2>2
  <2>4. \A k, l \in 1 .. Len(group(p)) : group(p)[k] = group(p)[l] => k = l
    BY <1>2 DEF Standing, group, X
  <2>5. turn(i) = turn(j)
    <3> HIDE DEF p
    <3> QED BY <2>3, <2>4
  <2>6. i \in Places(slots, p) /\ j \in Places(slots, p)
    BY <1>1, <2>2 DEF Places
  <2>7. ~(i < j) /\ ~(j < i)
    <3>1. \A a, b \in Places(slots, p) : a < b => turn(a) < turn(b)
      BY <1>3 DEF Turning, turn
    <3>2. turn(i) \in Int
      BY <1>5
    <3> HIDE DEF p
    <3> QED BY <2>5, <2>6, <3>1, <3>2
  <2> QED BY <2>7
<1>11. ASSUME NEW i \in 1 .. N, NEW x \in C, ~L!IsFlex(slots[i]), w.pos[x] = slots[i]
       PROVE  \/ \E j \in 1 .. i - 1 : sb[j] = x
              \/ sb[i] # None /\ w.points[x] <= w.points[sb[i]]
  <2> DEFINE p == slots[i]
             g == group(p)
             c == Cardinality(Places(slots, p))
  <2>1. x \in X(p)
    BY <1>11 DEF X
  <2>2. PICK k \in 1 .. Len(g) : g[k] = x
    BY <1>2, <2>1 DEF Standing, group, X
  <2>3. \A a \in Places(slots, p) : turn(a) \in 1 .. c
    BY <1>3 DEF Turning, turn
  <2>4. i \in Places(slots, p) /\ c \in Nat
    BY <1>3, <1>4 DEF Turning
  <2>5. Len(g) \in Nat
    BY <1>6
  <2> HIDE DEF g, c, p
  <2>6. CASE k < turn(i)
    <3>1. turn(i) \in 1 .. c
      BY <2>3, <2>4
    <3>2. k \in 1 .. c
      BY <2>4, <2>5, <2>6, <3>1
    <3>3. PICK j \in Places(slots, p) : turn(j) = k
      BY <1>3, <3>2 DEF Turning, turn, c
    <3>4. j \in 1 .. N /\ slots[j] = p
      BY <1>1 DEF Places
    <3>5. j < i
      <4>1. \A a, b \in Places(slots, p) : a < b => turn(a) < turn(b)
        BY <1>3 DEF Turning, turn
      <4>2. turn(i) \in Int /\ k \in Int
        BY <3>1
      <4>3. i # j
        BY <2>6, <3>3, <4>2
      <4>4. ~(i < j)
        <5> SUFFICES ASSUME i < j PROVE FALSE
          OBVIOUS
        <5>1. turn(i) < k
          BY <2>4, <3>3, <4>1
        <5> QED BY <2>6, <4>2, <5>1
      <4> QED BY <3>4, <4>3, <4>4
    <3>6. sb[j] = x
      <4>1. ~L!IsFlex(slots[j]) /\ ~(turn(j) > Len(group(slots[j])))
        BY <1>11, <2>2, <2>5, <3>3, <3>4 DEF p, g
      <4>2. sb[j] = group(slots[j])[turn(j)]
        BY <1>7, <3>4, <4>1
      <4> QED BY <2>2, <3>3, <3>4, <4>2 DEF g
    <3>7. j \in 1 .. i - 1
      BY <3>4, <3>5
    <3> QED BY <3>6, <3>7
  <2>7. CASE ~(k < turn(i))
    <3>1. turn(i) \in 1 .. Len(g) /\ turn(i) <= k
      BY <1>5, <2>2, <2>5, <2>7
    <3>2. sb[i] = g[turn(i)]
      <4>1. ~(turn(i) > Len(group(slots[i])))
        BY <2>5, <3>1 DEF g, p
      <4> QED BY <1>7, <1>11, <4>1 DEF g, p
    <3>3. sb[i] \in C
      <4>1. g \in Seq(X(p)) /\ X(p) \subseteq C
        BY <1>6 DEF g, X
      <4>2. g[turn(i)] \in X(p)
        <5> HIDE DEF X
        <5> QED BY <3>1, <4>1
      <4> QED BY <3>2, <4>1, <4>2
    <3>4. w.points[g[turn(i)]] >= w.points[g[k]]
      <4>1. CASE turn(i) = k
        <5>1. g[k] \in C
          BY <2>2
        <5> QED BY <4>1, <5>1
      <4>2. CASE turn(i) # k
        <5>1. turn(i) < k
          BY <3>1, <4>2
        <5>2. \A a, b \in 1 .. Len(g) : a < b => w.points[g[a]] >= w.points[g[b]]
          BY <1>2 DEF Standing, g, group, X
        <5> QED BY <2>2, <3>1, <5>1, <5>2
      <4> QED BY <4>1, <4>2
    <3>5. w.points[x] <= w.points[sb[i]]
      <4>1. w.points[x] \in Int /\ w.points[sb[i]] \in Int
        BY <3>3
      <4> QED BY <2>2, <3>2, <3>4, <4>1
    <3> QED BY <3>3, <3>5
  <2> QED BY <2>6, <2>7
<1>12. Strictly(sb, slots, C, w)
  BY <1>1, <1>8, <1>9, <1>10, <1>11 DEF Strictly, X
<1> QED BY <1>12, StrictGets DEF sb

\* f has the sum of the values up to each.
AddsUp(f, values, n) ==
    /\ f[0] = 0 /\ L!Added(values) = f[n]
    /\ \A k \in 1 .. n : f[k] = f[k - 1] + values[k]

\* Added's recursion has the solution it says.
LEMMA AddedDef ==
    ASSUME NEW n \in Nat, NEW values \in [1 .. n -> Int]
    PROVE  \E f \in [0 .. n -> Int] : AddsUp(f, values, n)
<1> DEFINE step(q, k) == q + values[k]
           R == [k \in 1 .. n |-> [q \in Int |-> step(q, k)]]
           eq(f) == f = [k \in 0 .. Len(values) |-> IF k = 0 THEN 0 ELSE f[k - 1] + values[k]]
           h == CHOOSE g : eq(g)
           z == 0
<1>1. z \in Int /\ \A k \in 1 .. n, q \in Int : step(q, k) \in Int
  OBVIOUS
<1>2. Len(values) = n /\ L!Added(values) = h[n]
  BY DEF L!Added
<1>3. R \in [1 .. n -> [Int -> Int]]
  <2> HIDE DEF step
  <2> QED BY <1>1
<1>4. PICK f \in [0 .. n -> Int] : f[0] = z /\ \A k \in 1 .. n : f[k] = R[k][f[k - 1]]
  <2> HIDE DEF R, z, eq, h
  <2>1. Solvable(n, Int, z, R)
    BY <1>1, <1>3, Recursion
  <2> QED BY <2>1 DEF Solvable
<1>5. ASSUME NEW k \in 1 .. n PROVE f[k] = f[k - 1] + values[k]
  <2>1. f[k - 1] \in Int
    BY <1>4
  <2> QED BY <2>1, <1>4
<1>6. eq(f)
  <2>1. f = [k \in 0 .. n |-> f[k]]
    BY <1>4
  <2>2. \A k \in 0 .. n : f[k] = IF k = 0 THEN 0 ELSE f[k - 1] + values[k]
    BY <1>4, <1>5
  <2>3. f = [k \in 0 .. n |-> IF k = 0 THEN 0 ELSE f[k - 1] + values[k]]
    BY <2>1, <2>2
  <2> QED BY <1>2, <2>3
<1>7. eq(h)
  BY <1>6
<1>8. h = [k \in 0 .. n |-> IF k = 0 THEN 0 ELSE h[k - 1] + values[k]]
  BY <1>2, <1>7
<1> HIDE DEF h
<1>9. h[0] = 0 /\ \A k \in 1 .. n : h[k] = h[k - 1] + values[k]
  BY <1>8
<1>10. h \in [0 .. n -> Int]
  <2> DEFINE E == {k \in 0 .. n : h[k] \in Int}
  <2>1. 0 \in E
    BY <1>9
  <2>2. ASSUME NEW k \in 0 .. n - 1, k \in E PROVE k + 1 \in E
    <3>1. k + 1 \in 1 .. n /\ (k + 1) - 1 = k
      OBVIOUS
    <3>2. h[k + 1] = h[k] + values[k + 1]
      BY <1>9, <3>1
    <3> QED BY <2>2, <3>1, <3>2
  <2>3. 0 .. n \subseteq E
    <3> HIDE DEF E
    <3> QED BY <2>1, <2>2, UpTo
  <2>4. h = [k \in 0 .. n |-> h[k]]
    BY <1>8
  <2> QED BY <2>3, <2>4
<1> QED BY <1>2, <1>9, <1>10 DEF AddsUp

\* Sums add up place by place.
LEMMA AddedSum ==
    ASSUME NEW n \in Nat, NEW a \in [1 .. n -> Int], NEW b \in [1 .. n -> Int]
    PROVE  /\ L!Added([k \in 1 .. n |-> a[k] + b[k]]) = L!Added(a) + L!Added(b)
           /\ L!Added(a) \in Int
<1> DEFINE c == [k \in 1 .. n |-> a[k] + b[k]]
<1>1. c \in [1 .. n -> Int]
  OBVIOUS
<1>2. PICK f \in [0 .. n -> Int] : AddsUp(f, a, n)
  BY AddedDef
<1>3. PICK g \in [0 .. n -> Int] : AddsUp(g, b, n)
  BY AddedDef
<1>4. PICK h \in [0 .. n -> Int] : AddsUp(h, c, n)
  <2> HIDE DEF c
  <2> QED BY <1>1, AddedDef
<1> DEFINE E == {k \in 0 .. n : h[k] = f[k] + g[k]}
<1>5. 0 \in E
  BY <1>2, <1>3, <1>4 DEF AddsUp
<1>6. ASSUME NEW k \in 0 .. n - 1, k \in E PROVE k + 1 \in E
  <2>1. k + 1 \in 1 .. n /\ (k + 1) - 1 = k
    OBVIOUS
  <2>2. /\ f[k + 1] = f[k] + a[k + 1] /\ g[k + 1] = g[k] + b[k + 1]
        /\ h[k + 1] = h[k] + c[k + 1]
    BY <1>2, <1>3, <1>4, <2>1 DEF AddsUp
  <2>3. c[k + 1] = a[k + 1] + b[k + 1]
    BY <2>1
  <2>4. f[k] \in Int /\ g[k] \in Int /\ a[k + 1] \in Int /\ b[k + 1] \in Int
    BY <2>1
  <2> HIDE DEF c
  <2>5. h[k] = f[k] + g[k]
    BY <1>6
  <2>6. h[k + 1] = f[k + 1] + g[k + 1]
    BY <2>2, <2>3, <2>4, <2>5
  <2> QED BY <2>1, <2>6
<1>7. 0 .. n \subseteq E
  <2> HIDE DEF E, c
  <2> QED BY <1>5, <1>6, UpTo
<1>8. h[n] = f[n] + g[n] /\ f[n] \in Int
  BY <1>7
<1> QED BY <1>2, <1>3, <1>4, <1>8 DEF AddsUp

\* What a lineup's i-th slot yields.
Yields(m, w, i) == IF m[i] = None THEN 0 ELSE w.points[m[i]]

\* What each of its n slots yields.
Vals(m, w, n) == [i \in 1 .. n |-> Yields(m, w, i)]

\* Each of some players has a number of points.
Pointed(X, w) == \A x \in X : w.points[x] \in Int

\* A lineup of some players.
Fields(m, n, X) == m \in [1 .. n -> X \cup {None}]

\* A lineup scores what its slots yield, added up.
LEMMA ScoredIs ==
    ASSUME NEW n \in Nat, NEW X, NEW w, Pointed(X, w), NEW m, Fields(m, n, X)
    PROVE  /\ L!Scored(m, w.points) = L!Added(Vals(m, w, n)) /\ Vals(m, w, n) \in [1 .. n -> Int]
           /\ L!Scored(m, w.points) \in Int
<1>1. Vals(m, w, n) \in [1 .. n -> Int]
  BY DEF Vals, Yields, Fields, Pointed
<1>2. L!Scored(m, w.points) = L!Added(Vals(m, w, n))
  <2>1. DOMAIN m = 1 .. n
    BY DEF Fields
  <2> QED BY <2>1 DEF L!Scored, Vals, Yields
<1>3. L!Added(Vals(m, w, n)) \in Int
  BY <1>1, AddedSum
<1> QED BY <1>1, <1>2, <1>3

\* a and b share out the slots of m.
Shares(m, a, b, n) ==
    \A i \in 1 .. n : (a[i] = None /\ m[i] = b[i]) \/ (b[i] = None /\ m[i] = a[i])

\* What a lineup scores is what two score that share out its slots.
LEMMA ScoredSplit ==
    ASSUME NEW n \in Nat, NEW X, NEW w, Pointed(X, w),
           NEW m, Fields(m, n, X), NEW a, Fields(a, n, X), NEW b, Fields(b, n, X), Shares(m, a, b, n)
    PROVE  L!Scored(m, w.points) = L!Scored(a, w.points) + L!Scored(b, w.points)
<1> DEFINE p == Vals(m, w, n)
           q == Vals(a, w, n)
           r == Vals(b, w, n)
<1>1. /\ p \in [1 .. n -> Int] /\ q \in [1 .. n -> Int] /\ r \in [1 .. n -> Int]
      /\ L!Scored(m, w.points) = L!Added(p) /\ L!Scored(a, w.points) = L!Added(q)
      /\ L!Scored(b, w.points) = L!Added(r)
  BY ScoredIs
<1>2. ASSUME NEW i \in 1 .. n PROVE p[i] = q[i] + r[i]
  <2>0. (a[i] = None /\ m[i] = b[i]) \/ (b[i] = None /\ m[i] = a[i])
    BY DEF Shares
  <2>1. p[i] = Yields(m, w, i) /\ q[i] = Yields(a, w, i) /\ r[i] = Yields(b, w, i)
    BY DEF Vals
  <2>2. p[i] \in Int /\ q[i] \in Int /\ r[i] \in Int
    BY <1>1
  <2> HIDE DEF p, q, r
  <2>3. CASE a[i] = None /\ m[i] = b[i]
    <3>1. q[i] = 0 /\ p[i] = r[i]
      BY <2>1, <2>3 DEF Yields
    <3> QED BY <3>1, <2>2
  <2>4. CASE b[i] = None /\ m[i] = a[i]
    <3>1. r[i] = 0 /\ p[i] = q[i]
      BY <2>1, <2>4 DEF Yields
    <3> QED BY <3>1, <2>2
  <2> QED BY <2>0, <2>3, <2>4
<1> HIDE DEF p, q, r
<1>3. p = [i \in 1 .. n |-> q[i] + r[i]]
  BY <1>1, <1>2
<1> QED BY <1>1, <1>3, AddedSum

\* A lineup of nobody scores nothing.
LEMMA ScoredNone ==
    ASSUME NEW n \in Nat, NEW w
    PROVE  L!Scored([i \in 1 .. n |-> None], w.points) = 0
<1> DEFINE m == [i \in 1 .. n |-> None]
<1>1. Fields(m, n, {}) /\ Pointed({}, w)
  BY DEF Fields, Pointed
<1>2. \A i \in 1 .. n : m[i] = None
  OBVIOUS
<1> HIDE DEF m
<1>3. L!Scored(m, w.points) = L!Scored(m, w.points) + L!Scored(m, w.points)
  <2>1. Shares(m, m, m, n)
    BY <1>2 DEF Shares
  <2> QED BY <1>1, <2>1, ScoredSplit
<1>4. L!Scored(m, w.points) \in Int
  BY <1>1, ScoredIs
<1> QED BY <1>3, <1>4 DEF m

\* A sum of which all but one are nothing.
LEMMA AddedOne ==
    ASSUME NEW n \in Nat, NEW a \in [1 .. n -> Int], NEW i \in 1 .. n,
           \A j \in 1 .. n : j # i => a[j] = 0
    PROVE  L!Added(a) = a[i]
<1>1. PICK f \in [0 .. n -> Int] : AddsUp(f, a, n)
  BY AddedDef
<1> DEFINE E == {k \in 0 .. n : f[k] = IF k < i THEN 0 ELSE a[i]}
<1>2. 0 \in E
  BY <1>1 DEF AddsUp
<1>3. ASSUME NEW k \in 0 .. n - 1, k \in E PROVE k + 1 \in E
  <2>1. k + 1 \in 1 .. n /\ (k + 1) - 1 = k /\ a[k + 1] \in Int /\ a[i] \in Int
    OBVIOUS
  <2>2. f[k + 1] = f[k] + a[k + 1]
    BY <1>1, <2>1 DEF AddsUp
  <2>3. f[k] = IF k < i THEN 0 ELSE a[i]
    BY <1>3
  <2>4. CASE k + 1 = i
    BY <2>1, <2>2, <2>3, <2>4
  <2>5. CASE k + 1 # i
    <3>1. a[k + 1] = 0 /\ (k < i <=> k + 1 < i)
      BY <2>1, <2>5
    <3> QED BY <2>1, <2>2, <2>3, <3>1
  <2> QED BY <2>4, <2>5
<1>4. 0 .. n \subseteq E
  <2> HIDE DEF E
  <2> QED BY <1>2, <1>3, UpTo
<1>5. f[n] = a[i]
  BY <1>4
<1> QED BY <1>1, <1>5 DEF AddsUp

\* A lineup of one player scores what he does.
LEMMA ScoredOne ==
    ASSUME NEW n \in Nat, NEW X, NEW w, Pointed(X, w),
           NEW m, Fields(m, n, X), NEW i \in 1 .. n, \A j \in 1 .. n : j # i => m[j] = None
    PROVE  L!Scored(m, w.points) = Yields(m, w, i)
<1> DEFINE p == Vals(m, w, n)
<1>1. p \in [1 .. n -> Int] /\ L!Scored(m, w.points) = L!Added(p)
  BY ScoredIs
<1>2. p[i] = Yields(m, w, i) /\ \A j \in 1 .. n : j # i => p[j] = 0
  BY DEF Vals, Yields
<1> HIDE DEF p
<1>3. L!Added(p) = p[i]
  BY <1>1, <1>2, AddedOne
<1> QED BY <1>1, <1>2, <1>3

\* What x is worth where he stands.
Worthy(x, w) == IF x = None THEN 0 ELSE w.points[x]

\* A lineup in which one slot is changed.
LEMMA ScoredPut ==
    ASSUME NEW n \in Nat, NEW X, NEW w, Pointed(X, w),
           NEW m, Fields(m, n, X), NEW i \in 1 .. n, NEW x \in X \cup {None}
    PROVE  /\ Fields([m EXCEPT ![i] = x], n, X)
           /\ L!Scored([m EXCEPT ![i] = x], w.points) + Worthy(m[i], w)
                = L!Scored(m, w.points) + Worthy(x, w)
<1> DEFINE put == [m EXCEPT ![i] = x]
           rest == [m EXCEPT ![i] = None]
           old == [j \in 1 .. n |-> IF j = i THEN m[i] ELSE None]
           new == [j \in 1 .. n |-> IF j = i THEN x ELSE None]
<1>1. Fields(put, n, X) /\ Fields(rest, n, X) /\ Fields(old, n, X) /\ Fields(new, n, X)
  BY DEF Fields
<1>2. /\ put[i] = x /\ rest[i] = None /\ old[i] = m[i] /\ new[i] = x
      /\ \A j \in 1 .. n : j # i => put[j] = m[j] /\ rest[j] = m[j] /\ old[j] = None /\ new[j] = None
  BY DEF Fields
<1> HIDE DEF put, rest, old, new
<1>3. L!Scored(put, w.points) = L!Scored(rest, w.points) + L!Scored(new, w.points)
  <2>1. Shares(put, rest, new, n)
    BY <1>2 DEF Shares
  <2> QED BY <1>1, <2>1, ScoredSplit
<1>4. L!Scored(m, w.points) = L!Scored(rest, w.points) + L!Scored(old, w.points)
  <2>1. Shares(m, rest, old, n)
    BY <1>2 DEF Shares
  <2> QED BY <1>1, <2>1, ScoredSplit
<1>5. L!Scored(old, w.points) = Worthy(m[i], w)
  <2>1. L!Scored(old, w.points) = Yields(old, w, i)
    BY <1>1, <1>2, ScoredOne
  <2> QED BY <1>2, <2>1 DEF Yields, Worthy
<1>6. L!Scored(new, w.points) = Worthy(x, w)
  <2>1. L!Scored(new, w.points) = Yields(new, w, i)
    BY <1>1, <1>2, ScoredOne
  <2> QED BY <1>2, <2>1 DEF Yields, Worthy
<1>7. /\ L!Scored(rest, w.points) \in Int /\ Worthy(m[i], w) \in Int /\ Worthy(x, w) \in Int
  <2>1. L!Scored(rest, w.points) \in Int
    BY <1>1, ScoredIs
  <2>2. m[i] \in X \cup {None}
    BY DEF Fields
  <2> QED BY <2>1, <2>2 DEF Worthy, Pointed
<1>8. L!Scored(put, w.points) + Worthy(m[i], w) = L!Scored(m, w.points) + Worthy(x, w)
  BY <1>3, <1>4, <1>5, <1>6, <1>7
<1> QED BY <1>1, <1>8 DEF put

\* A lineup the league allows.
Allowed(m, slots, X, w) ==
    /\ Fields(m, Len(slots), X)
    /\ \A i \in 1 .. Len(slots) : m[i] # None => L!MayFill(w.pos[m[i]], slots[i])
    /\ \A i, j \in 1 .. Len(slots) : m[i] # None /\ m[i] = m[j] => i = j

\* Who could fill an empty slot and sits out scored nothing less than nothing.
Sits(m, slots, X, w) ==
    \A i \in 1 .. Len(slots), x \in X :
        m[i] = None /\ w.pos[x] = slots[i] /\ w.points[x] < 0 => \E j \in 1 .. Len(slots) : m[j] = x

\* m has in the first k slots, the flex ones aside, what sb has.
Follows(m, sb, slots, k) == \A i \in 1 .. k : ~L!IsFlex(slots[i]) => m[i] = sb[i]

\* Nobody's position is a flex slot's name.
Placed(X, w) == \A x \in X : ~L!IsFlex(w.pos[x])

\* c is no worse than m and follows sb in the first k slots.
NoWorse(c, m, sb, slots, X, w, k) ==
    /\ Allowed(c, slots, X, w) /\ Sits(c, slots, X, w) /\ Follows(c, sb, slots, k)
    /\ L!Scored(c, w.points) >= L!Scored(m, w.points)

\* Who may fill a strict slot is of its position.
LEMMA StrictOnly ==
    ASSUME NEW slot, NEW pos, L!MayFill(pos, slot), ~L!IsFlex(slot)
    PROVE  pos = slot
  BY DEF L!MayFill, L!flexEligible

\* The best of a position goes where he is to be, in exchange for who is there.
LEMMA Swap ==
    ASSUME NEW U, NEW slots \in Seq(U), NEW X, None \notin X, NEW w, Pointed(X, w), Placed(X, w),
           NEW sb, Strictly(sb, slots, X, w), NEW i \in 1 .. Len(slots), sb[i] # None,
           NEW m, Allowed(m, slots, X, w), Sits(m, slots, X, w), Follows(m, sb, slots, i - 1),
           NEW j \in 1 .. Len(slots), j # i, m[j] = sb[i]
    PROVE  \E c : NoWorse(c, m, sb, slots, X, w, i)
<1> DEFINE n == Len(slots)
           b == sb[i]
           x == m[i]
           one == [m EXCEPT ![i] = b]
           c == [one EXCEPT ![j] = x]
<1>0. n \in Nat /\ DOMAIN slots = 1 .. n
  OBVIOUS
<1>1. /\ Fields(m, n, X) /\ b \in X /\ x \in X \cup {None} /\ w.pos[b] = slots[i] /\ ~L!IsFlex(slots[i])
  BY DEF Allowed, Fields, Strictly
<1> HIDE DEF n, b, x
<1>2. i \in 1 .. n /\ j \in 1 .. n /\ m[i] = x /\ m[j] = b /\ sb[i] = b
  BY DEF n, b, x
<1>3. /\ Fields(one, n, X)
      /\ L!Scored(one, w.points) + Worthy(m[i], w) = L!Scored(m, w.points) + Worthy(b, w)
  BY <1>0, <1>1, <1>2, ScoredPut
<1>4. one[i] = b /\ \A l \in 1 .. n : l # i => one[l] = m[l]
  BY <1>1, <1>2 DEF Fields
<1> HIDE DEF one
<1>5. /\ Fields(c, n, X)
      /\ L!Scored(c, w.points) + Worthy(one[j], w) = L!Scored(one, w.points) + Worthy(x, w)
  BY <1>0, <1>1, <1>2, <1>3, ScoredPut
<1>6. c[i] = b /\ c[j] = x /\ \A l \in 1 .. n : l # i /\ l # j => c[l] = m[l]
  BY <1>2, <1>3, <1>4 DEF Fields
<1> HIDE DEF c
<1>7. L!Scored(c, w.points) >= L!Scored(m, w.points)
  <2>1. /\ L!Scored(c, w.points) \in Int /\ L!Scored(m, w.points) \in Int
        /\ L!Scored(one, w.points) \in Int
    BY <1>0, <1>1, <1>3, <1>5, ScoredIs
  <2>2. Worthy(b, w) \in Int /\ Worthy(x, w) \in Int
    BY <1>1 DEF Worthy, Pointed
  <2>3. one[j] = b
    BY <1>2, <1>4
  <2> QED BY <1>2, <1>3, <1>5, <2>1, <2>2, <2>3
<1>8. b # None /\ (x # None => x \in X /\ w.pos[x] = slots[i])
  <2>1. b # None
    BY <1>1
  <2>2. x # None => L!MayFill(w.pos[x], slots[i])
    BY <1>2 DEF Allowed, n
  <2> QED BY <1>1, <2>1, <2>2, StrictOnly
<1>9. L!MayFill(w.pos[b], slots[j])
  BY <1>2, <1>8 DEF Allowed, n
<1>10. Allowed(c, slots, X, w)
  <2>1. ASSUME NEW l \in 1 .. n, c[l] # None PROVE L!MayFill(w.pos[c[l]], slots[l])
    <3>1. CASE l = i
      BY <1>1, <1>6, <3>1 DEF L!MayFill
    <3>2. CASE l = j
      BY <1>1, <1>6, <1>8, <1>9, <2>1, <3>2
    <3>3. CASE l # i /\ l # j
      BY <1>6, <2>1, <3>3 DEF Allowed, n
    <3> QED BY <3>1, <3>2, <3>3
  <2>2. ASSUME NEW l \in 1 .. n, NEW k \in 1 .. n, c[l] # None, c[l] = c[k] PROVE l = k
    <3> DEFINE at(q) == IF q = i THEN j ELSE IF q = j THEN i ELSE q
    <3>1. \A q \in 1 .. n : c[q] = m[at(q)] /\ at(q) \in 1 .. n
      BY <1>2, <1>6
    <3>2. \A p, q \in 1 .. n : at(p) = at(q) => p = q
      OBVIOUS
    <3> HIDE DEF at
    <3>3. at(l) = at(k)
      BY <2>2, <3>1 DEF Allowed, n
    <3> QED BY <3>2, <3>3
  <2> QED BY <1>5, <2>1, <2>2 DEF Allowed, n
<1>11. Sits(c, slots, X, w)
  <2> SUFFICES ASSUME NEW l \in 1 .. n, NEW y \in X, c[l] = None, w.pos[y] = slots[l], w.points[y] < 0
               PROVE  \E k \in 1 .. n : c[k] = y
    BY DEF Sits, n
  <2>1. \E k \in 1 .. n : m[k] = y
    <3>1. CASE l = j
      <4>1. ~L!IsFlex(slots[j])
        BY <3>1 DEF Placed
      <4>2. slots[j] = slots[i]
        BY <1>1, <1>9, <4>1, StrictOnly
      <4> QED BY <1>2, <1>6, <3>1, <4>2 DEF Sits, n
    <3>2. CASE l # i /\ l # j
      BY <1>6, <3>2 DEF Sits, n
    <3> QED BY <1>6, <1>8, <3>1, <3>2
  <2>2. PICK k \in 1 .. n : m[k] = y
    BY <2>1
  <2> QED BY <1>2, <1>6, <2>2
<1>12. Follows(c, sb, slots, i)
  <2> SUFFICES ASSUME NEW l \in 1 .. i, ~L!IsFlex(slots[l]) PROVE c[l] = sb[l]
    BY DEF Follows
  <2>1. l \in 1 .. n /\ i \in Int /\ l \in Int
    BY <1>0, <1>2
  <2>2. CASE l = i
    BY <1>2, <1>6, <2>2
  <2>3. CASE l # i
    <3>1. l \in 1 .. i - 1
      BY <2>1, <2>3
    <3>2. m[l] = sb[l]
      BY <3>1 DEF Follows
    <3>3. l # j
      <4> SUFFICES ASSUME l = j PROVE FALSE
        OBVIOUS
      <4>1. sb[l] = sb[i]
        BY <1>2, <3>2
      <4> QED BY <1>0, <1>2, <1>8, <2>1, <2>3, <4>1 DEF Strictly
    <3> QED BY <1>6, <2>1, <2>3, <3>2, <3>3
  <2> QED BY <2>2, <2>3
<1> QED BY <1>7, <1>10, <1>11, <1>12 DEF NoWorse

\* The best of a position, who sat out, takes the place of a worse one.
LEMMA Replace ==
    ASSUME NEW U, NEW slots \in Seq(U), NEW X, None \notin X, NEW w, Pointed(X, w), Placed(X, w),
           NEW sb, Strictly(sb, slots, X, w), NEW i \in 1 .. Len(slots), sb[i] # None,
           NEW m, Allowed(m, slots, X, w), Sits(m, slots, X, w), Follows(m, sb, slots, i - 1),
           \A j \in 1 .. Len(slots) : m[j] # sb[i],
           Worthy(m[i], w) <= Worthy(sb[i], w),
           m[i] # None => \A j \in 1 .. Len(slots) : slots[j] = slots[i] => m[j] # None
    PROVE  \E c : NoWorse(c, m, sb, slots, X, w, i)
<1> DEFINE n == Len(slots)
           b == sb[i]
           x == m[i]
           c == [m EXCEPT ![i] = b]
<1>0. n \in Nat /\ DOMAIN slots = 1 .. n
  OBVIOUS
<1>1. /\ Fields(m, n, X) /\ b \in X /\ x \in X \cup {None} /\ w.pos[b] = slots[i] /\ ~L!IsFlex(slots[i])
  BY DEF Allowed, Fields, Strictly
<1> HIDE DEF n, b, x
<1>2. i \in 1 .. n /\ m[i] = x /\ sb[i] = b /\ \A j \in 1 .. n : m[j] # b
  BY DEF n, b, x
<1>3. /\ Fields(c, n, X)
      /\ L!Scored(c, w.points) + Worthy(m[i], w) = L!Scored(m, w.points) + Worthy(b, w)
  BY <1>0, <1>1, <1>2, ScoredPut
<1>4. c[i] = b /\ \A l \in 1 .. n : l # i => c[l] = m[l]
  BY <1>1, <1>2 DEF Fields
<1> HIDE DEF c
<1>5. L!Scored(c, w.points) >= L!Scored(m, w.points)
  <2>1. /\ L!Scored(c, w.points) \in Int /\ L!Scored(m, w.points) \in Int
    BY <1>0, <1>1, <1>3, ScoredIs
  <2>2. Worthy(b, w) \in Int /\ Worthy(x, w) \in Int
    BY <1>1 DEF Worthy, Pointed
  <2>3. Worthy(x, w) <= Worthy(b, w)
    BY DEF x, b
  <2> QED BY <1>2, <1>3, <2>1, <2>2, <2>3
<1>6. b # None /\ (x # None => w.pos[x] = slots[i])
  <2>2. x # None => L!MayFill(w.pos[x], slots[i])
    BY <1>2 DEF Allowed, n
  <2> QED BY <1>1, <2>2, StrictOnly
<1>7. Allowed(c, slots, X, w)
  <2>1. ASSUME NEW l \in 1 .. n, c[l] # None PROVE L!MayFill(w.pos[c[l]], slots[l])
    <3>1. CASE l = i
      BY <1>1, <1>4, <3>1 DEF L!MayFill
    <3>2. CASE l # i
      BY <1>4, <2>1, <3>2 DEF Allowed, n
    <3> QED BY <3>1, <3>2
  <2>2. ASSUME NEW l \in 1 .. n, NEW k \in 1 .. n, c[l] # None, c[l] = c[k] PROVE l = k
    BY <1>2, <1>4, <2>2 DEF Allowed, n
  <2> QED BY <1>3, <2>1, <2>2 DEF Allowed, n
<1>8. Sits(c, slots, X, w)
  <2> SUFFICES ASSUME NEW l \in 1 .. n, NEW y \in X, c[l] = None, w.pos[y] = slots[l], w.points[y] < 0
               PROVE  \E k \in 1 .. n : c[k] = y
    BY DEF Sits, n
  <2>1. l # i /\ m[l] = None
    BY <1>4, <1>6
  <2>2. PICK k \in 1 .. n : m[k] = y
    BY <2>1 DEF Sits, n
  <2>3. CASE k # i
    BY <1>4, <2>2, <2>3
  <2>4. CASE k = i
    <3>1. y = x /\ x # None
      BY <1>2, <2>2, <2>4
    <3>2. slots[l] = slots[i]
      BY <1>6, <3>1
    <3> QED BY <1>2, <2>1, <3>1, <3>2 DEF n
  <2> QED BY <2>3, <2>4
<1>9. Follows(c, sb, slots, i)
  <2> SUFFICES ASSUME NEW l \in 1 .. i, ~L!IsFlex(slots[l]) PROVE c[l] = sb[l]
    BY DEF Follows
  <2>1. l \in 1 .. n /\ i \in Int /\ l \in Int
    BY <1>0, <1>2
  <2>2. CASE l = i
    BY <1>2, <1>4, <2>2
  <2>3. CASE l # i
    <3>1. l \in 1 .. i - 1
      BY <2>1, <2>3
    <3>2. m[l] = sb[l]
      BY <3>1 DEF Follows
    <3> QED BY <1>4, <2>1, <2>3, <3>2
  <2> QED BY <2>2, <2>3
<1> QED BY <1>5, <1>7, <1>8, <1>9 DEF NoWorse

\* The best of a position, who sat out, sends the one in his place to an empty slot.
LEMMA MoveOver ==
    ASSUME NEW U, NEW slots \in Seq(U), NEW X, None \notin X, NEW w, Pointed(X, w), Placed(X, w),
           NEW sb, Strictly(sb, slots, X, w), NEW i \in 1 .. Len(slots), sb[i] # None,
           NEW m, Allowed(m, slots, X, w), Sits(m, slots, X, w), Follows(m, sb, slots, i - 1),
           \A j \in 1 .. Len(slots) : m[j] # sb[i],
           m[i] # None, NEW j \in 1 .. Len(slots), slots[j] = slots[i], m[j] = None
    PROVE  \E c : NoWorse(c, m, sb, slots, X, w, i)
<1> DEFINE n == Len(slots)
           b == sb[i]
           x == m[i]
           one == [m EXCEPT ![i] = b]
           c == [one EXCEPT ![j] = x]
<1>0. n \in Nat /\ DOMAIN slots = 1 .. n
  OBVIOUS
<1>1. /\ Fields(m, n, X) /\ b \in X /\ x \in X /\ w.pos[b] = slots[i] /\ ~L!IsFlex(slots[i])
  BY DEF Allowed, Fields, Strictly
<1> HIDE DEF n, b, x
<1>2. /\ i \in 1 .. n /\ j \in 1 .. n /\ m[i] = x /\ sb[i] = b /\ x # None /\ b # None
      /\ j # i /\ m[j] = None /\ \A l \in 1 .. n : m[l] # b
  BY DEF n, b, x
<1>3. /\ Fields(one, n, X)
      /\ L!Scored(one, w.points) + Worthy(m[i], w) = L!Scored(m, w.points) + Worthy(b, w)
  BY <1>0, <1>1, <1>2, ScoredPut
<1>4. one[i] = b /\ \A l \in 1 .. n : l # i => one[l] = m[l]
  BY <1>1, <1>2 DEF Fields
<1> HIDE DEF one
<1>5. /\ Fields(c, n, X)
      /\ L!Scored(c, w.points) + Worthy(one[j], w) = L!Scored(one, w.points) + Worthy(x, w)
  BY <1>0, <1>1, <1>2, <1>3, ScoredPut
<1>6. c[i] = b /\ c[j] = x /\ \A l \in 1 .. n : l # i /\ l # j => c[l] = m[l]
  BY <1>2, <1>3, <1>4 DEF Fields
<1> HIDE DEF c
<1>7. L!Scored(c, w.points) >= L!Scored(m, w.points)
  <2>1. /\ L!Scored(c, w.points) \in Int /\ L!Scored(m, w.points) \in Int
        /\ L!Scored(one, w.points) \in Int
    BY <1>0, <1>1, <1>3, <1>5, ScoredIs
  <2>2. Worthy(b, w) \in Int /\ Worthy(x, w) \in Int /\ Worthy(one[j], w) = 0
    BY <1>1, <1>2, <1>4 DEF Worthy, Pointed
  <2>3. Worthy(b, w) >= 0
    <3>1. ~(w.points[b] < 0)
      BY <1>1, <1>2 DEF Sits, n
    <3>2. w.points[b] \in Int
      BY <1>1 DEF Pointed
    <3> QED BY <1>2, <3>1, <3>2 DEF Worthy
  <2> QED BY <1>2, <1>3, <1>5, <2>1, <2>2, <2>3
<1>8. w.pos[x] = slots[i]
  <2>2. L!MayFill(w.pos[x], slots[i])
    BY <1>2 DEF Allowed, n
  <2> QED BY <1>1, <2>2, StrictOnly
<1>10. Allowed(c, slots, X, w)
  <2>1. ASSUME NEW l \in 1 .. n, c[l] # None PROVE L!MayFill(w.pos[c[l]], slots[l])
    <3>1. CASE l = i
      BY <1>1, <1>6, <3>1 DEF L!MayFill
    <3>2. CASE l = j
      BY <1>6, <1>8, <3>2 DEF L!MayFill
    <3>3. CASE l # i /\ l # j
      BY <1>6, <2>1, <3>3 DEF Allowed, n
    <3> QED BY <3>1, <3>2, <3>3
  <2>2. ASSUME NEW l \in 1 .. n, NEW k \in 1 .. n, c[l] # None, c[l] = c[k] PROVE l = k
    <3> DEFINE at(q) == IF q = j THEN i ELSE q
    <3>1. \A q \in 1 .. n : q = i \/ (c[q] = m[at(q)] /\ at(q) \in 1 .. n)
      BY <1>2, <1>6
    <3>2. \A p, q \in 1 .. n : p # i /\ q # i /\ at(p) = at(q) => p = q
      OBVIOUS
    <3> HIDE DEF at
    <3>3. l # i /\ k # i => at(l) = at(k)
      BY <2>2, <3>1 DEF Allowed, n
    <3>4. \A q \in 1 .. n : q # i => c[q] # b
      BY <1>2, <3>1
    <3> QED BY <1>6, <2>2, <3>2, <3>3, <3>4
  <2> QED BY <1>5, <2>1, <2>2 DEF Allowed, n
<1>11. Sits(c, slots, X, w)
  <2> SUFFICES ASSUME NEW l \in 1 .. n, NEW y \in X, c[l] = None, w.pos[y] = slots[l], w.points[y] < 0
               PROVE  \E k \in 1 .. n : c[k] = y
    BY DEF Sits, n
  <2>1. m[l] = None
    BY <1>2, <1>6
  <2>2. PICK k \in 1 .. n : m[k] = y
    BY <2>1 DEF Sits, n
  <2>3. k # j
    BY <1>2, <2>2
  <2> QED BY <1>2, <1>6, <2>2, <2>3
<1>12. Follows(c, sb, slots, i)
  <2> SUFFICES ASSUME NEW l \in 1 .. i, ~L!IsFlex(slots[l]) PROVE c[l] = sb[l]
    BY DEF Follows
  <2>1. l \in 1 .. n /\ i \in Int /\ l \in Int
    BY <1>0, <1>2
  <2>2. CASE l = i
    BY <1>2, <1>6, <2>2
  <2>3. CASE l # i
    <3>1. l \in 1 .. i - 1
      BY <2>1, <2>3
    <3>2. m[l] = sb[l]
      BY <3>1 DEF Follows
    <3>3. l # j
      <4> SUFFICES ASSUME l = j PROVE FALSE
        OBVIOUS
      <4>1. sb[l] = None
        BY <1>2, <3>2
      <4>2. w.pos[b] = slots[l] /\ l \in DOMAIN slots
        BY <1>0, <1>1, <2>1
      <4>3. PICK k \in 1 .. l - 1 : sb[k] = b
        BY <1>1, <4>1, <4>2 DEF Strictly
      <4>4. k \in 1 .. n /\ k # i
        BY <1>0, <2>1
      <4> QED BY <1>0, <1>2, <4>3, <4>4 DEF Strictly
    <3> QED BY <1>6, <2>1, <2>3, <3>2, <3>3
  <2> QED BY <2>2, <2>3
<1> QED BY <1>7, <1>10, <1>11, <1>12 DEF NoWorse

\* One slot at a time, the strict slots' own are put where the code puts them.
LEMMA ExchangeStep ==
    ASSUME NEW U, NEW slots \in Seq(U), NEW X, None \notin X, NEW w, Pointed(X, w), Placed(X, w),
           NEW sb, Strictly(sb, slots, X, w), NEW i \in 1 .. Len(slots),
           NEW m, Allowed(m, slots, X, w), Sits(m, slots, X, w), Follows(m, sb, slots, i - 1)
    PROVE  \E c : NoWorse(c, m, sb, slots, X, w, i)
<1> DEFINE n == Len(slots)
<1>0. n \in Nat /\ DOMAIN slots = 1 .. n /\ i \in 1 .. n /\ i \in Int
  OBVIOUS
<1>1. L!Scored(m, w.points) \in Int
  <2>1. Fields(m, n, X)
    BY DEF Allowed
  <2> HIDE DEF n
  <2> QED BY <1>0, <2>1, ScoredIs
<1>2. CASE L!IsFlex(slots[i]) \/ m[i] = sb[i]
  <2>1. Follows(m, sb, slots, i)
    <3>1. \A l \in 1 .. i : l = i \/ l \in 1 .. i - 1
      BY <1>0
    <3> QED BY <1>2, <3>1 DEF Follows
  <2>2. NoWorse(m, m, sb, slots, X, w, i)
    BY <1>1, <2>1 DEF NoWorse
  <2> QED BY <2>2
<1>3. CASE ~L!IsFlex(slots[i]) /\ m[i] # sb[i]
  <2>1. ASSUME NEW y \in X, w.pos[y] = slots[i], m[i] = y
        PROVE  sb[i] # None /\ w.points[y] <= w.points[sb[i]]
    <3> SUFFICES ASSUME NEW j \in 1 .. i - 1, sb[j] = y PROVE FALSE
      BY <1>0, <1>3, <2>1 DEF Strictly
    <3>1. j \in 1 .. n /\ j # i
      BY <1>0
    <3>2. y # None
      OBVIOUS
    <3>3. ~L!IsFlex(slots[j])
      BY <1>0, <3>1, <3>2 DEF Strictly
    <3>4. m[j] = y
      BY <3>3 DEF Follows
    <3> QED BY <2>1, <3>1, <3>2, <3>4, <1>0 DEF Allowed
  <2>2. ASSUME m[i] # None PROVE m[i] \in X /\ w.pos[m[i]] = slots[i]
    <3>1. m[i] \in X
      BY <1>0, <2>2 DEF Allowed, Fields
    <3>2. L!MayFill(w.pos[m[i]], slots[i])
      BY <1>0, <2>2 DEF Allowed
    <3> QED BY <1>3, <3>1, <3>2, StrictOnly
  <2>3. sb[i] # None
    BY <1>3, <2>1, <2>2
  <2>4. sb[i] \in X /\ w.pos[sb[i]] = slots[i] /\ w.points[sb[i]] \in Int
    BY <1>0, <2>3 DEF Strictly, Pointed
  <2> HIDE DEF n
  <2>5. CASE \E j \in 1 .. n : m[j] = sb[i]
    <3>1. PICK j \in 1 .. Len(slots) : m[j] = sb[i]
      BY <2>5 DEF n
    <3>2. j # i
      BY <1>3, <3>1
    <3> QED BY <2>3, <3>1, <3>2, Swap
  <2>6. CASE \A j \in 1 .. n : m[j] # sb[i]
    <3>0. \A j \in 1 .. Len(slots) : m[j] # sb[i]
      BY <2>6 DEF n
    <3>1. CASE m[i] = None
      <4>1. ~(w.points[sb[i]] < 0)
        BY <2>4, <3>0, <3>1 DEF Sits
      <4>2. Worthy(m[i], w) <= Worthy(sb[i], w)
        BY <2>3, <2>4, <3>1, <4>1 DEF Worthy
      <4> QED BY <2>3, <3>0, <3>1, <4>2, Replace
    <3>2. CASE m[i] # None /\ \E j \in 1 .. Len(slots) : slots[j] = slots[i] /\ m[j] = None
      BY <2>3, <3>0, <3>2, MoveOver
    <3>3. CASE m[i] # None /\ \A j \in 1 .. Len(slots) : slots[j] = slots[i] => m[j] # None
      <4>1. Worthy(m[i], w) <= Worthy(sb[i], w)
        BY <2>1, <2>2, <2>3, <3>3 DEF Worthy
      <4> QED BY <2>3, <3>0, <3>3, <4>1, Replace
    <3> QED BY <3>1, <3>2, <3>3
  <2> QED BY <2>5, <2>6
<1> QED BY <1>2, <1>3

\* A lineup the league allows is no better than one whose strict slots are the code's.
LEMMA Exchange ==
    ASSUME NEW U, NEW slots \in Seq(U), NEW X, None \notin X, NEW w, Pointed(X, w), Placed(X, w),
           NEW sb, Strictly(sb, slots, X, w),
           NEW m, Allowed(m, slots, X, w), Sits(m, slots, X, w)
    PROVE  \E c : NoWorse(c, m, sb, slots, X, w, Len(slots))
<1> DEFINE n == Len(slots)
           E == {k \in 0 .. n : \E c : NoWorse(c, m, sb, slots, X, w, k)}
<1>0. n \in Nat
  OBVIOUS
<1>1. 0 \in E
  <2>1. L!Scored(m, w.points) \in Int
    <3>1. Fields(m, n, X)
      BY DEF Allowed
    <3> HIDE DEF n
    <3> QED BY <1>0, <3>1, ScoredIs
  <2>2. Follows(m, sb, slots, 0)
    BY DEF Follows
  <2>3. NoWorse(m, m, sb, slots, X, w, 0)
    BY <2>1, <2>2 DEF NoWorse
  <2> QED BY <1>0, <2>3
<1>2. ASSUME NEW k \in 0 .. n - 1, k \in E PROVE k + 1 \in E
  <2>1. PICK a : NoWorse(a, m, sb, slots, X, w, k)
    BY <1>2
  <2>2. k + 1 \in 1 .. Len(slots) /\ (k + 1) - 1 = k /\ k + 1 \in 0 .. n
    BY <1>0
  <2>3. Allowed(a, slots, X, w) /\ Sits(a, slots, X, w) /\ Follows(a, sb, slots, (k + 1) - 1)
    BY <2>1, <2>2 DEF NoWorse
  <2>4. PICK c : NoWorse(c, a, sb, slots, X, w, k + 1)
    BY <2>2, <2>3, ExchangeStep
  <2>5. /\ L!Scored(a, w.points) \in Int /\ L!Scored(c, w.points) \in Int
        /\ L!Scored(m, w.points) \in Int
    <3>1. Fields(a, n, X) /\ Fields(c, n, X) /\ Fields(m, n, X)
      BY <2>3, <2>4 DEF Allowed, NoWorse
    <3> HIDE DEF n
    <3> QED BY <1>0, <3>1, ScoredIs
  <2>6. L!Scored(c, w.points) >= L!Scored(m, w.points)
    BY <2>1, <2>4, <2>5 DEF NoWorse
  <2>7. NoWorse(c, m, sb, slots, X, w, k + 1)
    BY <2>4, <2>6 DEF NoWorse
  <2> QED BY <2>2, <2>7
<1>3. 0 .. n \subseteq E
  <2> HIDE DEF E, n
  <2> QED BY <1>0, <1>1, <1>2, UpTo
<1>4. n \in E
  BY <1>0, <1>3
<1> QED BY <1>4

\* Nobody in E does better than i, and whoever does as well comes after.
Leads(i, E, v) == i \in E /\ \A j \in E : v[i] > v[j] \/ (v[i] = v[j] /\ i <= j)

\* Of some numbers there is a first of those who do best.
LEMMA Leader ==
    ASSUME NEW M \in Nat, NEW E \in SUBSET (1 .. M), E # {}, NEW v, \A i \in E : v[i] \in Int
    PROVE  \E i \in E : Leads(i, E, v)
<1> DEFINE upto(k) == E \cap 1 .. k
           K == {k \in 0 .. M : upto(k) = {} \/ \E i : Leads(i, upto(k), v)}
<1>1. 0 \in K
  OBVIOUS
<1>2. ASSUME NEW k \in 0 .. M - 1, k \in K PROVE k + 1 \in K
  <2>1. k + 1 \in 0 .. M /\ k \in Nat
    OBVIOUS
  <2>2. CASE k + 1 \notin E
    <3>1. upto(k + 1) = upto(k)
      BY <2>2
    <3> HIDE DEF upto
    <3> QED BY <1>2, <2>1, <3>1
  <2>3. CASE k + 1 \in E /\ upto(k) = {}
    <3>1. upto(k + 1) = {k + 1}
      BY <2>3
    <3>2. Leads(k + 1, upto(k + 1), v)
      <4> HIDE DEF upto
      <4> QED BY <2>1, <2>3, <3>1 DEF Leads
    <3> HIDE DEF upto
    <3> QED BY <2>1, <3>2
  <2>4. CASE k + 1 \in E /\ upto(k) # {}
    <3>1. PICK i : Leads(i, upto(k), v)
      <4> HIDE DEF upto
      <4> QED BY <1>2, <2>4
    <3>2. /\ \A j \in upto(k + 1) : j = k + 1 \/ j \in upto(k)
          /\ i \in upto(k) /\ i \in upto(k + 1) /\ k + 1 \in upto(k + 1) /\ i <= k
          /\ \A j \in upto(k + 1) : v[j] \in Int /\ j \in Int
      BY <2>4, <3>1 DEF Leads
    <3> HIDE DEF upto
    <3>3. v[k + 1] \in Int /\ v[i] \in Int /\ i \in Int
      BY <3>2
    <3>4. CASE v[k + 1] > v[i]
      <4>1. ASSUME NEW j \in upto(k + 1)
            PROVE  v[k + 1] > v[j] \/ (v[k + 1] = v[j] /\ k + 1 <= j)
        <5>1. CASE j = k + 1
          BY <2>1, <3>3, <5>1
        <5>2. CASE j \in upto(k)
          <6>1. v[i] >= v[j] /\ v[j] \in Int
            BY <3>1, <3>2, <3>3, <5>2 DEF Leads
          <6> QED BY <3>3, <3>4, <6>1
        <5> QED BY <3>2, <5>1, <5>2
      <4> QED BY <2>1, <3>2, <4>1 DEF Leads
    <3>5. CASE ~(v[k + 1] > v[i])
      <4>1. v[i] > v[k + 1] \/ (v[i] = v[k + 1] /\ i <= k + 1)
        BY <2>1, <3>2, <3>3, <3>5
      <4>2. Leads(i, upto(k + 1), v)
        BY <3>1, <3>2, <4>1 DEF Leads
      <4> QED BY <2>1, <4>2
    <3> QED BY <3>4, <3>5
  <2> QED BY <2>2, <2>3, <2>4
<1>3. 0 .. M \subseteq K
  <2> HIDE DEF K
  <2> QED BY <1>1, <1>2, UpTo
<1>4. upto(M) = E
  OBVIOUS
<1> HIDE DEF upto
<1>5. \E i : Leads(i, E, v)
  BY <1>3, <1>4
<1> QED BY <1>5 DEF Leads

\* What the best assignment from a slot on is made of: the best from the next on.
Having(rest, taken, i) == rest[taken \cup L!Bit(i)]

\* What each candidate brings in with it.
Value(rest, cands, w, taken) ==
    [i \in DOMAIN cands |-> w.points[cands[i]] + Having(rest, taken, i).total]

\* The candidates that may fill the slot and do better than leaving it unfilled.
Better(rest, slots, cands, w, slot, taken) ==
    {i \in DOMAIN cands :
        /\ L!Bit(i) \cap taken = {}
        /\ L!flexEligible(slots[slot], w.pos[cands[i]])
        /\ Value(rest, cands, w, taken)[i] > rest[taken].total}

\* The first of those who do best.
First(rest, slots, cands, w, slot, taken) ==
    LET better == Better(rest, slots, cands, w, slot, taken)
        value == Value(rest, cands, w, taken)
    IN  CHOOSE i \in better : \A j \in better : value[i] > value[j] \/ (value[i] = value[j] /\ i <= j)

\* The assignment from a slot on.
Chosen(rest, slots, cands, w, slot, taken) ==
    LET first == First(rest, slots, cands, w, slot, taken)
    IN  IF Better(rest, slots, cands, w, slot, taken) = {} THEN rest[taken]
        ELSE [total |-> Value(rest, cands, w, taken)[first],
              by |-> [Having(rest, taken, first).by EXCEPT ![slot] = cands[first]]]

\* Nobody in any of n slots.
Unfilled(n) == [total |-> 0, by |-> [i \in 1 .. n |-> None]]

\* h has, for each slot and whoever is taken, the best assignment from there on.
Plans(h, slots, cands, w, n) ==
    /\ L!maxWeightAssignment(slots, cands, w) = h[1][{}]
    /\ \A taken \in SUBSET DOMAIN cands : h[n + 1][taken] = Unfilled(n)
    /\ \A slot \in 1 .. n, taken \in SUBSET DOMAIN cands :
          h[slot][taken] = Chosen(h[slot + 1], slots, cands, w, slot, taken)

Plan(n, X) == [total : Int, by : [1 .. n -> X \cup {None}]]

\* It is an assignment, of the first of those who do best.
LEMMA ChosenType ==
    ASSUME NEW X, NEW w, Pointed(X, w), NEW U, NEW slots \in Seq(U), NEW cands \in Seq(X),
           Len(cands) <= BitWidth, NEW rest \in [SUBSET DOMAIN cands -> Plan(Len(slots), X)],
           NEW slot, NEW taken \in SUBSET DOMAIN cands
    PROVE  /\ Chosen(rest, slots, cands, w, slot, taken) \in Plan(Len(slots), X)
           /\ LET better == Better(rest, slots, cands, w, slot, taken)
              IN  better # {} => Leads(First(rest, slots, cands, w, slot, taken), better,
                                       Value(rest, cands, w, taken))
           /\ \A i \in DOMAIN cands : Value(rest, cands, w, taken)[i] \in Int
<1> DEFINE M == Len(cands)
           N == Len(slots)
           better == Better(rest, slots, cands, w, slot, taken)
           v == Value(rest, cands, w, taken)
           first == First(rest, slots, cands, w, slot, taken)
<1>1. M \in Nat /\ DOMAIN cands = 1 .. M /\ \A i \in 1 .. M : cands[i] \in X
  OBVIOUS
<1>2. BitWidth \in Nat
  BY PartsAssumption DEF L!LineupAssumption
<1>3. \A i \in 1 .. M : L!Bit(i) = {i}
  BY <1>1, <1>2 DEF L!Bit
<1> HIDE DEF M, N
<1>4. \A i \in 1 .. M : taken \cup L!Bit(i) \in SUBSET DOMAIN cands
  BY <1>1, <1>3
<1>5. \A i \in 1 .. M : Having(rest, taken, i) \in Plan(N, X)
  BY <1>4 DEF Having, N
<1>6. \A i \in 1 .. M : v[i] = w.points[cands[i]] + Having(rest, taken, i).total
  BY <1>1 DEF Value
<1>7. \A i \in 1 .. M : v[i] \in Int
  <2> TAKE i \in 1 .. M
  <2> HIDE DEF v
  <2>1. w.points[cands[i]] \in Int
    BY <1>1 DEF Pointed
  <2>2. Having(rest, taken, i).total \in Int
    BY <1>5 DEF Plan
  <2> QED BY <1>6, <2>1, <2>2
<1>8. better \in SUBSET (1 .. M)
  BY <1>1 DEF Better
<1>9. first = CHOOSE i \in better : \A j \in better : v[i] > v[j] \/ (v[i] = v[j] /\ i <= j)
  BY DEF First
<1> HIDE DEF better, v, first
<1>10. ASSUME better # {} PROVE Leads(first, better, v)
  <2>1. \A i \in better : v[i] \in Int
    BY <1>7, <1>8
  <2>2. \E i \in better : Leads(i, better, v)
    BY <1>1, <1>8, <1>10, <2>1, Leader
  <2>3. \E i \in better : \A j \in better : v[i] > v[j] \/ (v[i] = v[j] /\ i <= j)
    BY <2>2 DEF Leads
  <2>4. first \in better /\ \A j \in better : v[first] > v[j] \/ (v[first] = v[j] /\ first <= j)
    BY <1>9, <2>3
  <2> QED BY <2>4 DEF Leads
<1>11. Chosen(rest, slots, cands, w, slot, taken) \in Plan(N, X)
  <2>1. CASE better = {}
    <3>1. Chosen(rest, slots, cands, w, slot, taken) = rest[taken]
      BY <2>1 DEF Chosen, better
    <3> QED BY <3>1 DEF N
  <2>2. CASE better # {}
    <3> DEFINE old == Having(rest, taken, first).by
               new == [old EXCEPT ![slot] = cands[first]]
    <3>1. Chosen(rest, slots, cands, w, slot, taken) = [total |-> v[first], by |-> new]
      BY <2>2 DEF Chosen, better, v, first
    <3>2. first \in 1 .. M
      BY <1>8, <1>10, <2>2 DEF Leads
    <3>3. old \in [1 .. N -> X \cup {None}] /\ cands[first] \in X /\ v[first] \in Int
      BY <1>1, <1>5, <1>7, <3>2 DEF Plan
    <3> HIDE DEF old
    <3>4. new \in [1 .. N -> X \cup {None}]
      BY <3>3
    <3> HIDE DEF new
    <3> QED BY <3>1, <3>3, <3>4 DEF Plan
  <2> QED BY <2>1, <2>2
<1> QED BY <1>1, <1>7, <1>10, <1>11 DEF N, better, v, first

\* maxWeightAssignment's recursion has the solution it says.
LEMMA PlansDef ==
    ASSUME NEW X, NEW w, Pointed(X, w), NEW U, NEW slots \in Seq(U), NEW cands \in Seq(X),
           Len(cands) <= BitWidth
    PROVE  \E h \in [1 .. Len(slots) + 1 -> [SUBSET DOMAIN cands -> Plan(Len(slots), X)]] :
               Plans(h, slots, cands, w, Len(slots))
<1> DEFINE n == Len(slots)
           W == SUBSET DOMAIN cands
           Q == [W -> Plan(n, X)]
           last == [taken \in W |-> Unfilled(n)]
           chosen(q, slot) == [taken \in W |-> Chosen(q, slots, cands, w, slot, taken)]
           R == [k \in 1 .. n |-> [q \in Q |-> chosen(q, n + 1 - k)]]
           eq(g) == g = [slot \in 1 .. Len(slots) + 1 |->
                            [taken \in SUBSET DOMAIN cands |->
                                IF slot > Len(slots)
                                THEN [total |-> 0, by |-> [i \in DOMAIN slots |-> None]]
                                ELSE Chosen(g[slot + 1], slots, cands, w, slot, taken)]]
           h == CHOOSE g : eq(g)
<1>1. n \in Nat /\ DOMAIN slots = 1 .. n
  OBVIOUS
<1>2. L!maxWeightAssignment(slots, cands, w) = h[1][{}]
  BY DEF L!maxWeightAssignment, Chosen, First, Better, Value, Having
<1>3. last \in Q
  <2>1. Unfilled(n) \in Plan(n, X)
    <3> HIDE DEF n
    <3> QED BY <1>1 DEF Unfilled, Plan
  <2> HIDE DEF n, W
  <2> QED BY <2>1
<1>4. ASSUME NEW q \in Q, NEW slot PROVE chosen(q, slot) \in Q
  <2>1. \A taken \in W : Chosen(q, slots, cands, w, slot, taken) \in Plan(n, X)
    BY ChosenType
  <2> HIDE DEF n, W
  <2> QED BY <2>1
<1> HIDE DEF Q, last, chosen, h
<1>5. R \in [1 .. n -> [Q -> Q]]
  BY <1>4
<1>6. PICK f \in [0 .. n -> Q] : f[0] = last /\ \A k \in 1 .. n : f[k] = R[k][f[k - 1]]
  <2> HIDE DEF R, eq, n
  <2>1. Solvable(n, Q, last, R)
    BY <1>1, <1>3, <1>5, Recursion
  <2> QED BY <2>1 DEF Solvable
<1> DEFINE g == [slot \in 1 .. n + 1 |-> f[n + 1 - slot]]
<1> HIDE DEF n
<1>7. ASSUME NEW k \in 1 .. n PROVE f[k] = chosen(f[k - 1], n + 1 - k)
  <2>1. f[k - 1] \in Q
    BY <1>1, <1>6
  <2> QED BY <1>6, <2>1
<1>8. g \in [1 .. n + 1 -> Q] /\ g[n + 1] = last
  <2>1. \A slot \in 1 .. n + 1 : n + 1 - slot \in 0 .. n /\ f[n + 1 - slot] \in Q
    BY <1>1, <1>6
  <2>2. n + 1 \in 1 .. n + 1 /\ n + 1 - (n + 1) = 0
    BY <1>1
  <2> QED BY <1>6, <2>1, <2>2
<1>9. ASSUME NEW slot \in 1 .. n PROVE g[slot] = chosen(g[slot + 1], slot)
  <2> DEFINE k == n + 1 - slot
  <2>1. k \in 1 .. n /\ k - 1 = n + 1 - (slot + 1) /\ n + 1 - k = slot /\ slot + 1 \in 1 .. n + 1
        /\ slot \in 1 .. n + 1
    BY <1>1
  <2>2. g[slot] = f[k] /\ g[slot + 1] = f[k - 1]
    BY <2>1
  <2> HIDE DEF k, g
  <2> QED BY <1>7, <2>1, <2>2
<1> HIDE DEF g, R
<1>10. \A slot \in 1 .. n + 1 : ~(slot > n) => slot \in 1 .. n
  BY <1>1
<1>11. \A slot \in 1 .. n + 1 : slot > n => slot = n + 1
  BY <1>1
<1>12. eq(g)
  <2>1. ASSUME NEW slot \in 1 .. n + 1
        PROVE  g[slot] = [taken \in SUBSET DOMAIN cands |->
                             IF slot > Len(slots)
                             THEN [total |-> 0, by |-> [i \in DOMAIN slots |-> None]]
                             ELSE Chosen(g[slot + 1], slots, cands, w, slot, taken)]
    <3>1. CASE slot > n
      <4>1. g[slot] = last
        BY <1>8, <1>11, <3>1
      <4>2. Unfilled(n) = [total |-> 0, by |-> [i \in DOMAIN slots |-> None]]
        BY <1>1 DEF Unfilled
      <4>3. slot > Len(slots)
        BY <3>1 DEF n
      <4>4. last = [taken \in SUBSET DOMAIN cands |->
                             [total |-> 0, by |-> [i \in DOMAIN slots |-> None]]]
        BY <4>2 DEF last, W
      <4> QED BY <4>1, <4>3, <4>4
    <3>2. CASE ~(slot > n)
      <4>1. g[slot] = chosen(g[slot + 1], slot)
        BY <1>9, <1>10, <3>2
      <4>2. ~(slot > Len(slots))
        BY <3>2 DEF n
      <4> QED BY <4>1, <4>2 DEF chosen, W
    <3> QED BY <3>1, <3>2
  <2>2. g = [slot \in 1 .. n + 1 |-> g[slot]]
    BY <1>8
  <2>3. n + 1 = Len(slots) + 1
    BY DEF n
  <2> QED BY <2>1, <2>2, <2>3
<1>13. eq(h)
  BY <1>12 DEF h
<1> DEFINE E == {k \in 0 .. n : h[n + 1 - k] \in Q}
<1>14. /\ h[n + 1] = last /\ \A slot \in 1 .. n : h[slot] = chosen(h[slot + 1], slot)
       /\ h = [slot \in 1 .. n + 1 |-> h[slot]]
  <2>1. h = [slot \in 1 .. n + 1 |->
                [taken \in W |-> IF slot > n THEN [total |-> 0, by |-> [i \in 1 .. n |-> None]]
                                 ELSE Chosen(h[slot + 1], slots, cands, w, slot, taken)]]
    BY <1>1, <1>13 DEF n, W
  <2>2. ASSUME NEW slot \in 1 .. n + 1
        PROVE  h[slot] = [taken \in W |-> IF slot > n
                                         THEN [total |-> 0, by |-> [i \in 1 .. n |-> None]]
                                         ELSE Chosen(h[slot + 1], slots, cands, w, slot, taken)]
    BY <2>1
  <2> HIDE DEF W
  <2>3. h[n + 1] = last
    <3>1. n + 1 \in 1 .. n + 1 /\ n + 1 > n
      BY <1>1
    <3> QED BY <2>2, <3>1 DEF last, Unfilled
  <2>4. \A slot \in 1 .. n : h[slot] = chosen(h[slot + 1], slot)
    <3> TAKE slot \in 1 .. n
    <3>1. slot \in 1 .. n + 1 /\ ~(slot > n)
      BY <1>1
    <3> QED BY <2>2, <3>1 DEF chosen
  <2>5. h = [slot \in 1 .. n + 1 |-> h[slot]]
    BY <2>1
  <2> QED BY <2>3, <2>4, <2>5
<1> HIDE DEF eq
<1>15. 0 .. n \subseteq E
  <2>1. 0 \in E
    <3>1. n + 1 - 0 = n + 1 /\ 0 \in 0 .. n
      BY <1>1
    <3> QED BY <1>3, <1>14, <3>1
  <2>2. ASSUME NEW k \in 0 .. n - 1, k \in E PROVE k + 1 \in E
    <3> DEFINE slot == n + 1 - (k + 1)
    <3>1. slot \in 1 .. n /\ slot + 1 = n + 1 - k /\ k + 1 \in 0 .. n
      BY <1>1
    <3>2. h[slot] = chosen(h[slot + 1], slot)
      BY <1>14, <3>1
    <3>3. h[slot + 1] \in Q
      BY <2>2, <3>1
    <3> QED BY <1>4, <3>1, <3>2, <3>3
  <2> HIDE DEF E
  <2> QED BY <1>1, <2>1, <2>2, UpTo
<1>16. h \in [1 .. n + 1 -> Q]
  <2>1. ASSUME NEW slot \in 1 .. n + 1 PROVE h[slot] \in Q
    <3>1. n + 1 - slot \in 0 .. n /\ n + 1 - (n + 1 - slot) = slot
      BY <1>1
    <3>2. n + 1 - slot \in E
      BY <1>15, <3>1
    <3> QED BY <3>1, <3>2
  <2> QED BY <1>14, <2>1
<1>17. Plans(h, slots, cands, w, n)
  BY <1>2, <1>14 DEF Plans, last, chosen, W
<1> QED BY <1>16, <1>17 DEF n, Q, W

\* a puts candidates that are not taken in flex slots they may fill, from a slot on.
Fits(a, slots, cands, X, w, slot, taken) ==
    /\ Fields(a, Len(slots), X)
    /\ \A i \in 1 .. Len(slots) : a[i] # None =>
          /\ i >= slot /\ L!flexEligible(slots[i], w.pos[a[i]])
          /\ \A c \in taken : a[i] # cands[c]
    /\ \A i, j \in 1 .. Len(slots) : a[i] # None /\ a[i] = a[j] => i = j

\* r is such an assignment and what it scores, which is the most there is.
BestFrom(r, slots, cands, X, w, slot, taken) ==
    /\ Fits(r.by, slots, cands, X, w, slot, taken)
    /\ L!Scored(r.by, w.points) = r.total
    /\ \A a : Fits(a, slots, cands, X, w, slot, taken) => L!Scored(a, w.points) <= r.total

\* Who a has in a slot is one who may, and the rest of a is one from the next slot on.
TakenOff(a, slots, cands, X, w, slot, taken) ==
    \E c \in 1 .. Len(cands) :
        /\ c \notin taken /\ a[slot] = cands[c] /\ cands[c] \in X
        /\ L!flexEligible(slots[slot], w.pos[cands[c]])
        /\ \E b : /\ Fits(b, slots, cands, X, w, slot + 1, taken \cup {c})
                  /\ L!Scored(a, w.points) = L!Scored(b, w.points) + w.points[cands[c]]

\* b with c in a slot is one from this slot on, which scores what c does more.
PutsOn(b, slots, cands, X, w, slot, taken, c) ==
    /\ Fits([b EXCEPT ![slot] = cands[c]], slots, cands, X, w, slot, taken)
    /\ L!Scored([b EXCEPT ![slot] = cands[c]], w.points)
         = w.points[cands[c]] + L!Scored(b, w.points)

\* Who has the first slot of an assignment is one who may; the others are one from the next on.
LEMMA TakeOff ==
    ASSUME NEW X, None \notin X, NEW w, Pointed(X, w), NEW U, NEW slots \in Seq(U),
           NEW cands, Enumerates(cands, X), NEW slot \in 1 .. Len(slots), NEW taken,
           NEW a, Fits(a, slots, cands, X, w, slot, taken), a[slot] # None
    PROVE  TakenOff(a, slots, cands, X, w, slot, taken)
<1> DEFINE n == Len(slots)
           y == a[slot]
           b == [a EXCEPT ![slot] = None]
<1>0. n \in Nat
  OBVIOUS
<1>1. Fields(a, n, X) /\ y \in X /\ y # None
  BY DEF Fits, Fields
<1> HIDE DEF n, y
<1>2. a[slot] = y /\ slot \in 1 .. n /\ slot \in Int
  BY DEF y, n
<1>3. PICK c \in 1 .. Len(cands) : cands[c] = y
  BY <1>1 DEF Enumerates
<1>4. c \notin taken /\ L!flexEligible(slots[slot], w.pos[y])
  BY <1>1, <1>2, <1>3 DEF Fits, n
<1>5. /\ Fields(b, n, X)
      /\ L!Scored(b, w.points) + Worthy(a[slot], w) = L!Scored(a, w.points) + Worthy(None, w)
  BY <1>0, <1>1, <1>2, ScoredPut
<1>6. b[slot] = None /\ \A i \in 1 .. n : i # slot => b[i] = a[i]
  BY <1>1, <1>2 DEF Fields
<1> HIDE DEF b
<1>7. L!Scored(a, w.points) = L!Scored(b, w.points) + w.points[y]
  <2>1. L!Scored(b, w.points) \in Int /\ L!Scored(a, w.points) \in Int
    BY <1>0, <1>1, <1>5, ScoredIs
  <2>2. Worthy(a[slot], w) = w.points[y] /\ w.points[y] \in Int /\ Worthy(None, w) = 0
    BY <1>1, <1>2 DEF Worthy, Pointed
  <2> QED BY <1>5, <2>1, <2>2
<1>8. Fits(b, slots, cands, X, w, slot + 1, taken \cup {c})
  <2>1. ASSUME NEW i \in 1 .. n, b[i] # None
        PROVE  /\ i >= slot + 1 /\ L!flexEligible(slots[i], w.pos[b[i]])
               /\ \A d \in taken \cup {c} : b[i] # cands[d]
    <3>1. i # slot /\ b[i] = a[i]
      BY <1>6, <2>1
    <3>2. i >= slot /\ L!flexEligible(slots[i], w.pos[b[i]]) /\ \A d \in taken : b[i] # cands[d]
      BY <2>1, <3>1 DEF Fits, n
    <3>3. a[i] # y
      BY <1>1, <1>2, <3>1 DEF Fits, n
    <3>4. i >= slot + 1
      BY <1>0, <1>2, <3>1, <3>2
    <3> QED BY <1>3, <3>1, <3>2, <3>3, <3>4
  <2>2. ASSUME NEW i \in 1 .. n, NEW j \in 1 .. n, b[i] # None, b[i] = b[j] PROVE i = j
    BY <1>6, <2>2 DEF Fits, n
  <2> QED BY <1>5, <2>1, <2>2 DEF Fits, n
<1> QED BY <1>1, <1>2, <1>3, <1>4, <1>7, <1>8 DEF TakenOff

\* An assignment from the next slot on with one more in the slot.
LEMMA PutOn ==
    ASSUME NEW X, None \notin X, NEW w, Pointed(X, w), NEW U, NEW slots \in Seq(U),
           NEW cands, Enumerates(cands, X), NEW slot \in 1 .. Len(slots),
           NEW taken \in SUBSET (1 .. Len(cands)),
           NEW c \in 1 .. Len(cands), c \notin taken, L!flexEligible(slots[slot], w.pos[cands[c]]),
           NEW b, Fits(b, slots, cands, X, w, slot + 1, taken \cup {c})
    PROVE  PutsOn(b, slots, cands, X, w, slot, taken, c)
<1> DEFINE n == Len(slots)
           y == cands[c]
           a == [b EXCEPT ![slot] = y]
<1>0. n \in Nat /\ slot \in 1 .. n /\ slot \in Int
  OBVIOUS
<1>1. Fields(b, n, X) /\ y \in X /\ y # None
  <2>1. cands \in Seq(X)
    BY DEF Enumerates
  <2>2. y \in X
    BY <2>1
  <2> QED BY <2>2 DEF Fits
<1>2. y = cands[c] /\ \A d \in taken : y # cands[d]
  BY DEF Enumerates
<1> HIDE DEF n, y
<1>3. b[slot] = None
  <2> SUFFICES ASSUME b[slot] # None PROVE FALSE
    OBVIOUS
  <2>1. slot >= slot + 1
    BY <1>0 DEF Fits, n
  <2> QED BY <1>0, <2>1
<1>4. /\ Fields(a, n, X)
      /\ L!Scored(a, w.points) + Worthy(b[slot], w) = L!Scored(b, w.points) + Worthy(y, w)
  BY <1>0, <1>1, ScoredPut
<1>5. a[slot] = y /\ \A i \in 1 .. n : i # slot => a[i] = b[i]
  BY <1>0, <1>1 DEF Fields
<1> HIDE DEF a
<1>6. L!Scored(a, w.points) = w.points[y] + L!Scored(b, w.points)
  <2>1. L!Scored(b, w.points) \in Int /\ L!Scored(a, w.points) \in Int
    BY <1>0, <1>1, <1>4, ScoredIs
  <2>2. Worthy(b[slot], w) = 0 /\ w.points[y] \in Int /\ Worthy(y, w) = w.points[y]
    BY <1>1, <1>3 DEF Worthy, Pointed
  <2> QED BY <1>4, <2>1, <2>2
<1>7. \A i \in 1 .. n : b[i] # None =>
         /\ i >= slot + 1 /\ L!flexEligible(slots[i], w.pos[b[i]])
         /\ b[i] # y /\ \A d \in taken : b[i] # cands[d]
  BY <1>2 DEF Fits, n
<1>8. Fits(a, slots, cands, X, w, slot, taken)
  <2>1. ASSUME NEW i \in 1 .. n, a[i] # None
        PROVE  /\ i >= slot /\ L!flexEligible(slots[i], w.pos[a[i]])
               /\ \A d \in taken : a[i] # cands[d]
    <3>1. CASE i = slot
      BY <1>0, <1>2, <1>5, <3>1
    <3>2. CASE i # slot
      BY <1>0, <1>5, <1>7, <2>1, <3>2
    <3> QED BY <3>1, <3>2
  <2>2. ASSUME NEW i \in 1 .. n, NEW j \in 1 .. n, a[i] # None, a[i] = a[j] PROVE i = j
    <3>1. \A k, l \in 1 .. n : b[k] # None /\ b[k] = b[l] => k = l
      BY DEF Fits, n
    <3> QED BY <1>5, <1>7, <2>2, <3>1
  <2> QED BY <1>4, <2>1, <2>2 DEF Fits, n
<1> QED BY <1>6, <1>8 DEF a, y, PutsOn

\* The best from the next slot on, whoever is taken, makes the best from this one on.
LEMMA BestStep ==
    ASSUME NEW X, None \notin X, NEW w, Pointed(X, w), NEW U, NEW slots \in Seq(U),
           NEW cands, Enumerates(cands, X), Len(cands) <= BitWidth,
           NEW rest \in [SUBSET DOMAIN cands -> Plan(Len(slots), X)],
           NEW slot \in 1 .. Len(slots), NEW taken \in SUBSET DOMAIN cands,
           \A t \in SUBSET DOMAIN cands : BestFrom(rest[t], slots, cands, X, w, slot + 1, t)
    PROVE  BestFrom(Chosen(rest, slots, cands, w, slot, taken), slots, cands, X, w, slot, taken)
<1>01. ASSUME NEW a, Fits(a, slots, cands, X, w, slot, taken), a[slot] # None
       PROVE  TakenOff(a, slots, cands, X, w, slot, taken)
  BY <1>01, TakeOff
<1>02. ASSUME NEW c \in 1 .. Len(cands), c \notin taken, L!flexEligible(slots[slot], w.pos[cands[c]]),
              NEW b, Fits(b, slots, cands, X, w, slot + 1, taken \cup {c})
       PROVE  PutsOn(b, slots, cands, X, w, slot, taken, c)
  <2>1. taken \in SUBSET (1 .. Len(cands))
    BY DEF Enumerates
  <2> QED BY <1>02, <2>1, PutOn
<1> DEFINE M == Len(cands)
           N == Len(slots)
           better == Better(rest, slots, cands, w, slot, taken)
           v == Value(rest, cands, w, taken)
           first == First(rest, slots, cands, w, slot, taken)
           unfilled == rest[taken]
           r == Chosen(rest, slots, cands, w, slot, taken)
<1>0. cands \in Seq(X)
  BY DEF Enumerates
<1>1. /\ M \in Nat /\ DOMAIN cands = 1 .. M /\ \A i \in 1 .. M : cands[i] \in X
      /\ N \in Nat /\ slot \in Int
  BY <1>0
<1>2. BitWidth \in Nat
  BY PartsAssumption DEF L!LineupAssumption
<1>3. \A i \in 1 .. M : L!Bit(i) = {i}
  BY <1>1, <1>2 DEF L!Bit
<1>4. /\ better # {} => Leads(first, better, v)
      /\ \A i \in 1 .. M : v[i] \in Int
  BY <1>0, <1>1, ChosenType
<1>5. \A i \in 1 .. M : v[i] = w.points[cands[i]] + rest[taken \cup {i}].total
  BY <1>1, <1>3 DEF Value, Having
<1>6. unfilled.total \in Int
  BY DEF Plan
<1>7. \A i \in 1 .. M : taken \cup {i} \in SUBSET DOMAIN cands
  BY <1>1
<1>8. \A i : i \in better <=> /\ i \in 1 .. M /\ i \notin taken
                             /\ L!flexEligible(slots[slot], w.pos[cands[i]])
                             /\ v[i] > unfilled.total
  BY <1>1, <1>3 DEF Better
<1>9. /\ better = {} => r = unfilled
      /\ better # {} => r = [total |-> v[first],
                             by |-> [rest[taken \cup L!Bit(first)].by EXCEPT ![slot] = cands[first]]]
  BY DEF Chosen, Having
<1>10. BestFrom(unfilled, slots, cands, X, w, slot + 1, taken)
  OBVIOUS
<1> HIDE DEF M, N, better, v, first, unfilled, r
<1>11. Fits(unfilled.by, slots, cands, X, w, slot, taken)
  <2>1. \A i \in 1 .. N : i >= slot + 1 => i >= slot
    BY <1>1
  <2> QED BY <1>10, <2>1 DEF BestFrom, Fits, N
<1>12. ASSUME NEW a, Fits(a, slots, cands, X, w, slot, taken)
       PROVE  \/ L!Scored(a, w.points) <= unfilled.total
              \/ \E c \in better : L!Scored(a, w.points) <= v[c]
  <2>0. L!Scored(a, w.points) \in Int
    <3>1. Fields(a, N, X)
      BY <1>12 DEF Fits, N
    <3> QED BY <1>1, <3>1, ScoredIs
  <2>1. CASE a[slot] = None
    <3>1. Fits(a, slots, cands, X, w, slot + 1, taken)
      <4>1. \A i \in 1 .. N : a[i] # None => i >= slot + 1
        <5> SUFFICES ASSUME NEW i \in 1 .. N, a[i] # None PROVE i >= slot + 1
          OBVIOUS
        <5>1. i >= slot /\ i # slot
          BY <1>12, <2>1 DEF Fits, N
        <5> QED BY <1>1, <5>1
      <4> QED BY <1>12, <4>1 DEF Fits, N
    <3> QED BY <1>10, <3>1 DEF BestFrom
  <2>2. CASE a[slot] # None
    <3>1. PICK c \in 1 .. Len(cands) :
              /\ c \notin taken /\ a[slot] = cands[c] /\ cands[c] \in X
              /\ L!flexEligible(slots[slot], w.pos[cands[c]])
              /\ \E b : /\ Fits(b, slots, cands, X, w, slot + 1, taken \cup {c})
                        /\ L!Scored(a, w.points) = L!Scored(b, w.points) + w.points[cands[c]]
      BY <1>01, <1>12, <2>2 DEF TakenOff
    <3>2. PICK b : /\ Fits(b, slots, cands, X, w, slot + 1, taken \cup {c})
                   /\ L!Scored(a, w.points) = L!Scored(b, w.points) + w.points[cands[c]]
      BY <3>1
    <3>3. c \in 1 .. M
      BY DEF M
    <3>4. BestFrom(rest[taken \cup {c}], slots, cands, X, w, slot + 1, taken \cup {c})
      BY <1>7, <3>3
    <3>5. L!Scored(b, w.points) <= rest[taken \cup {c}].total
      BY <3>2, <3>4 DEF BestFrom
    <3>6. /\ L!Scored(b, w.points) \in Int /\ w.points[cands[c]] \in Int
          /\ rest[taken \cup {c}].total \in Int
      <4>1. Fields(b, N, X)
        BY <3>2 DEF Fits, N
      <4>2. L!Scored(b, w.points) \in Int
        BY <1>1, <4>1, ScoredIs
      <4>3. rest[taken \cup {c}] \in Plan(Len(slots), X)
        BY <1>7, <3>3
      <4> QED BY <3>1, <4>2, <4>3 DEF Plan, Pointed
    <3>7. L!Scored(a, w.points) <= v[c]
      BY <1>5, <3>2, <3>3, <3>5, <3>6
    <3>8. CASE v[c] > unfilled.total
      BY <1>8, <3>1, <3>3, <3>7, <3>8
    <3>9. CASE ~(v[c] > unfilled.total)
      <4>1. v[c] \in Int
        BY <1>4, <3>3
      <4> QED BY <1>6, <2>0, <3>7, <3>9, <4>1
    <3> QED BY <3>8, <3>9
  <2> QED BY <2>1, <2>2
<1>13. CASE better = {}
  <2>1. r = unfilled
    BY <1>9, <1>13
  <2>2. \A a : Fits(a, slots, cands, X, w, slot, taken) => L!Scored(a, w.points) <= unfilled.total
    BY <1>12, <1>13
  <2>3. BestFrom(unfilled, slots, cands, X, w, slot, taken)
    BY <1>10, <1>11, <2>2 DEF BestFrom
  <2> QED BY <2>1, <2>3 DEF r
<1>14. CASE better # {}
  <2> DEFINE b == rest[taken \cup {first}].by
             a == [b EXCEPT ![slot] = cands[first]]
  <2>1. first \in better /\ \A j \in better : v[first] >= v[j]
    <3>1. Leads(first, better, v)
      BY <1>4, <1>14
    <3>2. first \in better /\ \A j \in better : v[first] > v[j] \/ v[first] = v[j]
      BY <3>1 DEF Leads
    <3>3. \A j \in better : v[j] \in Int
      BY <1>4, <1>8
    <3> QED BY <3>2, <3>3
  <2>2. /\ first \in 1 .. M /\ first \notin taken /\ v[first] > unfilled.total
        /\ L!flexEligible(slots[slot], w.pos[cands[first]])
    BY <1>8, <2>1
  <2>3. r = [total |-> v[first], by |-> a]
    BY <1>3, <1>9, <1>14, <2>2
  <2>4. BestFrom(rest[taken \cup {first}], slots, cands, X, w, slot + 1, taken \cup {first})
    BY <1>7, <2>2
  <2>5. /\ Fits(b, slots, cands, X, w, slot + 1, taken \cup {first})
        /\ L!Scored(b, w.points) = rest[taken \cup {first}].total
    BY <2>4 DEF BestFrom
  <2> HIDE DEF b
  <2>6. /\ Fits(a, slots, cands, X, w, slot, taken)
        /\ L!Scored(a, w.points) = w.points[cands[first]] + L!Scored(b, w.points)
    <3>1. first \in 1 .. Len(cands) /\ taken \in SUBSET (1 .. Len(cands))
      BY <1>1, <2>2 DEF M
    <3> QED BY <1>02, <2>2, <2>5, <3>1 DEF PutsOn
  <2> HIDE DEF a
  <2>7. L!Scored(a, w.points) = v[first]
    BY <1>5, <2>2, <2>5, <2>6
  <2>8. ASSUME NEW o, Fits(o, slots, cands, X, w, slot, taken)
        PROVE  L!Scored(o, w.points) <= v[first]
    <3>1. L!Scored(o, w.points) \in Int
      <4>1. Fields(o, N, X)
        BY <2>8 DEF Fits, N
      <4> QED BY <1>1, <4>1, ScoredIs
    <3>2. \/ L!Scored(o, w.points) <= unfilled.total
          \/ \E c \in better : L!Scored(o, w.points) <= v[c]
      BY <1>12, <2>8
    <3>3. v[first] \in Int /\ \A j \in better : v[j] \in Int
      BY <1>4, <1>8, <2>2
    <3> QED BY <1>6, <2>1, <2>2, <3>1, <3>2, <3>3
  <2>9. BestFrom(r, slots, cands, X, w, slot, taken)
    BY <2>3, <2>6, <2>7, <2>8 DEF BestFrom
  <2> QED BY <2>9 DEF r
<1> QED BY <1>13, <1>14

\* history_lineup.go 110: of candidates that fit in the width, the assignment is the best.
LEMMA AssignmentIsBest ==
    ASSUME NEW X, None \notin X, NEW w, Pointed(X, w), NEW U, NEW slots \in Seq(U),
           NEW cands, Enumerates(cands, X), Len(cands) <= BitWidth
    PROVE  BestFrom(L!maxWeightAssignment(slots, cands, w), slots, cands, X, w, 1, {})
<1> DEFINE n == Len(slots)
           W == SUBSET DOMAIN cands
<1>0. n \in Nat
  OBVIOUS
<1>1. cands \in Seq(X)
  BY DEF Enumerates
<1>2. PICK h \in [1 .. n + 1 -> [W -> Plan(n, X)]] : Plans(h, slots, cands, w, n)
  BY <1>1, PlansDef
<1> DEFINE E == {k \in 0 .. n : \A t \in W : BestFrom(h[n + 1 - k][t], slots, cands, X, w, n + 1 - k, t)}
<1>3. 0 \in E
  <2> SUFFICES ASSUME NEW t \in W PROVE BestFrom(h[n + 1][t], slots, cands, X, w, n + 1, t)
    BY <1>0
  <2> DEFINE none == [i \in 1 .. n |-> None]
  <2>1. h[n + 1][t] = [total |-> 0, by |-> none]
    BY <1>2 DEF Plans, Unfilled
  <2>2. Fits(none, slots, cands, X, w, n + 1, t)
    <3>1. Fields(none, n, X) /\ \A i \in 1 .. n : none[i] = None
      BY DEF Fields
    <3> HIDE DEF none
    <3> QED BY <3>1 DEF Fits
  <2>3. L!Scored(none, w.points) = 0
    <3> HIDE DEF n
    <3> QED BY <1>0, ScoredNone
  <2>4. ASSUME NEW a, Fits(a, slots, cands, X, w, n + 1, t) PROVE L!Scored(a, w.points) <= 0
    <3>1. a \in [1 .. n -> X \cup {None}]
      BY <2>4 DEF Fits, Fields
    <3>2. \A i \in 1 .. n : a[i] = None
      <4> SUFFICES ASSUME NEW i \in 1 .. n, a[i] # None PROVE FALSE
        OBVIOUS
      <4>1. i >= n + 1
        BY <2>4 DEF Fits
      <4> QED BY <1>0, <4>1
    <3>3. a = none
      <4> HIDE DEF n
      <4> QED BY <3>1, <3>2
    <3> QED BY <2>3, <3>3
  <2> HIDE DEF none
  <2> QED BY <2>1, <2>2, <2>3, <2>4 DEF BestFrom
<1>4. ASSUME NEW k \in 0 .. n - 1, k \in E PROVE k + 1 \in E
  <2> DEFINE slot == n + 1 - (k + 1)
  <2> HIDE DEF n
  <2>1. slot \in 1 .. n /\ slot + 1 = n + 1 - k /\ k + 1 \in 0 .. n /\ slot + 1 \in 1 .. n + 1
    BY <1>0
  <2>2. \A t \in W : BestFrom(h[slot + 1][t], slots, cands, X, w, slot + 1, t)
    BY <1>4, <2>1
  <2>3. h[slot + 1] \in [W -> Plan(n, X)]
    BY <1>2, <2>1
  <2>4. \A t \in W : h[slot][t] = Chosen(h[slot + 1], slots, cands, w, slot, t)
    BY <1>2, <2>1 DEF Plans
  <2> HIDE DEF slot
  <2>5. ASSUME NEW t \in W
        PROVE  BestFrom(Chosen(h[slot + 1], slots, cands, w, slot, t), slots, cands, X, w, slot, t)
    <3> DEFINE rest == h[slot + 1]
    <3>1. slot \in 1 .. Len(slots)
      BY <2>1 DEF n
    <3>2. rest \in [SUBSET DOMAIN cands -> Plan(Len(slots), X)]
      BY <2>3 DEF n
    <3>3. \A s \in SUBSET DOMAIN cands : BestFrom(rest[s], slots, cands, X, w, slot + 1, s)
      BY <2>2
    <3> HIDE DEF rest
    <3>4. BestFrom(Chosen(rest, slots, cands, w, slot, t), slots, cands, X, w, slot, t)
      BY <3>1, <3>2, <3>3, BestStep
    <3> QED BY <3>4 DEF rest
  <2>6. \A t \in W : BestFrom(h[slot][t], slots, cands, X, w, slot, t)
    BY <2>4, <2>5
  <2> QED BY <2>1, <2>6 DEF slot
<1>5. 0 .. n \subseteq E
  <2> HIDE DEF E, n
  <2> QED BY <1>0, <1>3, <1>4, UpTo
<1>6. n \in E /\ {} \in W /\ n + 1 - n = 1
  BY <1>0, <1>5
<1>7. BestFrom(h[1][{}], slots, cands, X, w, 1, {})
  BY <1>6
<1> QED BY <1>2, <1>7 DEF Plans

\* Those of a position who have no strict slot are what is left of it.
Left(p, slots, C, w, sb) == {x \in C : w.pos[x] = p /\ \A i \in DOMAIN slots : sb[i] # x}

\* history_lineup.go 69: what is left of a position are those with no strict slot.
LEMMA LeftOver ==
    ASSUME NEW C, None \notin C, NEW ids, Enumerates(ids, C), NEW U, NEW slots \in Seq(U),
           NEW w, Pointed(C, w), Placed(C, w), NEW order, NEW p \in L!ToSet(order)
    PROVE  Enumerates(L!leftover(slots, ids, w, order)[p],
                      Left(p, slots, C, w, L!strictSlots(slots, ids, w)))
<1> DEFINE g == Group(ids, p, w)
           n == Cardinality(Places(slots, p))
           sb == L!strictSlots(slots, ids, w)
           r == SubSeq(g, n + 1, Len(g))
           X == {x \in C : w.pos[x] = p}
           E == Left(p, slots, C, w, sb)
           N == Len(slots)
<1>1. L!leftover(slots, ids, w, order)[p] = r
  <2>1. L!leftover(slots, ids, w, order)
          = [q \in L!ToSet(order) |->
               SubSeq(Group(ids, q, w), L!Cardinality(Places(slots, q)) + 1, Len(Group(ids, q, w)))]
    BY DEF L!leftover, Group, Places
  <2>2. L!Cardinality(Places(slots, p)) = n
    BY LineupSets
  <2> QED BY <2>1, <2>2
<1>2. Standing(g, X, w.points)
  BY Grouped DEF Pointed
<1>3. Turning(slots, p)
  BY TakeTurns
<1>4. N \in Nat /\ DOMAIN slots = 1 .. N
  OBVIOUS
<1>5. g \in Seq(X) /\ Len(g) \in Nat /\ n \in Nat /\ \A i \in 1 .. Len(g) : g[i] \in X
  BY <1>2, <1>3 DEF Standing, Turning
<1>6. \A i \in 1 .. N : sb[i] = SlotGets(slots, ids, w, i)
  BY <1>4, StrictGets
<1>7. Strictly(sb, slots, C, w)
  BY StrictFills DEF Pointed
<1> HIDE DEF g, n, sb
<1>8. /\ Len(r) = IF n + 1 <= Len(g) THEN Len(g) - n ELSE 0
      /\ \A i \in 1 .. Len(g) - n : r[i] = g[n + i]
  <2>1. n + 1 \in Int /\ Len(g) \in Int /\ \A i \in n + 1 .. Len(g) : g[i] \in X
    BY <1>5
  <2>2. /\ Len(r) = IF n + 1 <= Len(g) THEN Len(g) - (n + 1) + 1 ELSE 0
        /\ \A i \in 1 .. Len(g) - (n + 1) + 1 : r[i] = g[(n + 1) + i - 1]
    <3> HIDE DEF r, X
    <3> QED BY <2>1, SubSeqProperties DEF r
  <2>3. Len(g) - (n + 1) + 1 = Len(g) - n /\ \A i \in Int : (n + 1) + i - 1 = n + i
    BY <1>5
  <2> HIDE DEF r, g
  <2>4. ASSUME NEW i \in 1 .. Len(g) - n PROVE r[i] = g[n + i]
    <3>1. i \in 1 .. Len(g) - (n + 1) + 1 /\ (n + 1) + i - 1 = n + i
      BY <2>3
    <3>2. r[i] = g[(n + 1) + i - 1]
      BY <2>2, <3>1
    <3> QED BY <3>1, <3>2
  <2>5. Len(r) = IF n + 1 <= Len(g) THEN Len(g) - n ELSE 0
    BY <2>2, <2>3
  <2> QED BY <2>4, <2>5
<1>9. r \in Seq(X)
  <2>1. n + 1 \in Int /\ Len(g) \in Int /\ \A i \in n + 1 .. Len(g) : g[i] \in X
    BY <1>5
  <2> HIDE DEF X
  <2> QED BY <2>1, SubSeqProperties
<1>10. \A i \in 1 .. Len(r) : i \in 1 .. Len(g) - n /\ n + i \in 1 .. Len(g) /\ r[i] = g[n + i]
  <2> HIDE DEF r
  <2> QED BY <1>5, <1>8
<1>11. \A k, l \in 1 .. Len(g) : g[k] = g[l] => k = l
  BY <1>2 DEF Standing
<1> HIDE DEF r
<1>12. ASSUME NEW i \in 1 .. Len(r) PROVE r[i] \in E
  <2>1. r[i] \in X /\ r[i] = g[n + i] /\ n + i \in 1 .. Len(g) /\ i \in Nat /\ i > 0
    BY <1>5, <1>10
  <2>2. ASSUME NEW j \in 1 .. N, sb[j] = r[i] PROVE FALSE
    <3>1. sb[j] # None
      BY <2>1, <2>2
    <3>2. slots[j] = p /\ ~L!IsFlex(slots[j])
      BY <1>4, <1>7, <2>1, <2>2, <3>1 DEF Strictly
    <3>3. sb[j] = g[Turn(slots, j)] /\ ~(Turn(slots, j) > Len(g))
      BY <1>6, <3>1, <3>2 DEF SlotGets, g
    <3>4. Turn(slots, j) \in 1 .. n
      BY <1>3, <1>4, <3>2 DEF Turning, Places, n
    <3>5. Turn(slots, j) \in 1 .. Len(g) /\ Turn(slots, j) # n + i
      BY <1>5, <2>1, <3>3, <3>4
    <3> QED BY <1>11, <2>1, <2>2, <3>3, <3>5
  <2> QED BY <1>4, <2>1, <2>2 DEF Left
<1>13. ASSUME NEW x \in E PROVE \E i \in 1 .. Len(r) : r[i] = x
  <2>1. x \in X /\ \A j \in 1 .. N : sb[j] # x
    BY <1>4 DEF Left
  <2>2. PICK k \in 1 .. Len(g) : g[k] = x
    BY <1>2, <2>1 DEF Standing
  <2>3. k > n
    <3> SUFFICES ASSUME k <= n PROVE FALSE
      BY <1>5
    <3>1. k \in 1 .. n
      BY <1>5
    <3>2. PICK j \in Places(slots, p) : Turn(slots, j) = k
      BY <1>3, <3>1 DEF Turning, n
    <3>3. j \in 1 .. N /\ slots[j] = p
      BY <1>4 DEF Places
    <3>4. ~L!IsFlex(p)
      BY <2>1 DEF Placed
    <3>5. ~(Turn(slots, j) > Len(g))
      BY <1>5, <3>2
    <3>6. sb[j] = g[k]
      BY <1>6, <3>2, <3>3, <3>4, <3>5 DEF SlotGets, g
    <3> QED BY <2>1, <2>2, <3>3, <3>6
  <2>4. k - n \in 1 .. Len(g) - n /\ k - n \in 1 .. Len(r) /\ n + (k - n) = k
    BY <1>5, <1>8, <2>3
  <2> QED BY <1>8, <2>2, <2>4
<1>14. ASSUME NEW k \in 1 .. Len(r), NEW l \in 1 .. Len(r), r[k] = r[l] PROVE k = l
  <2>1. n + k = n + l
    BY <1>10, <1>11, <1>14
  <2> QED BY <1>5, <2>1
<1>15. r \in Seq(E)
  <2>1. Len(r) \in Nat /\ r = [i \in 1 .. Len(r) |-> r[i]]
    BY <1>9
  <2>2. \A i \in 1 .. Len(r) : r[i] \in E
    BY <1>12
  <2> HIDE DEF E
  <2> QED BY <2>1, <2>2
<1> HIDE DEF E
<1>16. Enumerates(r, E)
  BY <1>13, <1>14, <1>15 DEF Enumerates
<1> QED BY <1>1, <1>16 DEF E, sb

\* Two sequences that have nobody in common, one after the other.
LEMMA EachAfter ==
    ASSUME NEW E, NEW Q, E \cap Q = {}, NEW g, Enumerates(g, E), NEW t, Enumerates(t, Q)
    PROVE  Enumerates(g \o t, E \cup Q)
<1> DEFINE U == E \cup Q
<1>1. g \in Seq(E) /\ t \in Seq(Q) /\ g \in Seq(U) /\ t \in Seq(U)
  BY DEF Enumerates
<1>2. /\ g \o t \in Seq(U) /\ Len(g \o t) = Len(g) + Len(t)
      /\ \A j \in 1 .. Len(g) : (g \o t)[j] = g[j]
      /\ \A j \in 1 .. Len(t) : (g \o t)[Len(g) + j] = t[j]
  <2> HIDE DEF U
  <2> QED BY <1>1, Joined
<1> DEFINE u == g \o t
           m == Len(g)
           n == Len(t)
<1>3. m \in Nat /\ n \in Nat /\ Len(u) = m + n
  BY <1>1, <1>2
<1>4. /\ \A j \in 1 .. m : u[j] = g[j] /\ u[j] \in E
      /\ \A j \in 1 .. n : u[m + j] = t[j] /\ u[m + j] \in Q
  BY <1>1, <1>2
<1>5. \A j \in 1 .. m + n : j \notin 1 .. m => j - m \in 1 .. n /\ j = m + (j - m)
  BY <1>3
<1>6. ASSUME NEW x \in U PROVE \E k \in 1 .. m + n : u[k] = x
  <2>1. CASE x \in E
    <3>1. PICK k \in 1 .. m : g[k] = x
      BY <2>1 DEF Enumerates
    <3>2. k \in 1 .. m + n
      BY <1>3
    <3> QED BY <1>4, <3>1, <3>2
  <2>2. CASE x \in Q
    <3>1. PICK k \in 1 .. n : t[k] = x
      BY <2>2 DEF Enumerates
    <3>2. m + k \in 1 .. m + n
      BY <1>3
    <3> QED BY <1>4, <3>1, <3>2
  <2> QED BY <2>1, <2>2
<1>7. ASSUME NEW k \in 1 .. m + n, NEW l \in 1 .. m + n, u[k] = u[l] PROVE k = l
  <2>1. \A a, b \in 1 .. m : g[a] = g[b] => a = b
    BY DEF Enumerates
  <2>2. \A a, b \in 1 .. n : t[a] = t[b] => a = b
    BY DEF Enumerates
  <2> HIDE DEF u, m, n
  <2>3. CASE k \in 1 .. m /\ l \in 1 .. m
    BY <1>4, <1>7, <2>1, <2>3
  <2>4. CASE k \notin 1 .. m /\ l \notin 1 .. m
    <3> DEFINE a == k - m
               b == l - m
    <3>1. a \in 1 .. n /\ k = m + a /\ b \in 1 .. n /\ l = m + b
      BY <1>5, <2>4
    <3> HIDE DEF a, b
    <3>2. t[a] = t[b]
      BY <1>4, <1>7, <3>1
    <3> QED BY <2>2, <3>1, <3>2
  <2>5. CASE k \in 1 .. m /\ l \notin 1 .. m
    <3>1. u[k] \in E /\ u[l] \in Q
      BY <1>4, <1>5, <2>5
    <3> QED BY <1>7, <3>1
  <2>6. CASE k \notin 1 .. m /\ l \in 1 .. m
    <3>1. u[k] \in Q /\ u[l] \in E
      BY <1>4, <1>5, <2>6
    <3> QED BY <1>7, <3>1
  <2> QED BY <2>3, <2>4, <2>5, <2>6
<1>8. u \in Seq(U)
  BY <1>2
<1> HIDE DEF u, U, m, n
<1>9. Enumerates(u, U)
  BY <1>3, <1>6, <1>7, <1>8 DEF Enumerates
<1> QED BY <1>9 DEF u, U

\* Those of the first i of some sets.
Within(sets, i) == UNION {sets[r] : r \in 1 .. i}

\* Sequences of which no two have anybody in common, one after the other.
LEMMA FlattenEach ==
    ASSUME NEW R \in Nat \ {0}, NEW U, NEW seqs \in [1 .. R -> Seq(U)], Len(seqs) = R, NEW sets,
           \A r \in 1 .. R : Enumerates(seqs[r], sets[r]),
           \A r, s \in 1 .. R : r # s => sets[r] \cap sets[s] = {}
    PROVE  Enumerates(L!FlattenSeq(seqs), Within(sets, R))
<1>0. L!FlattenSeq(seqs) = P!FlattenSeq(seqs)
  BY Zenon DEF L!FlattenSeq, P!FlattenSeq
<1>1. PICK f \in [1 .. R -> Seq(U)] : Flattens(f, seqs)
  BY FlattenDef
<1> DEFINE E == {i \in 0 .. R : i = 0 \/ Enumerates(f[i], Within(sets, i))}
<1>2. 0 \in E
  OBVIOUS
<1>3. ASSUME NEW i \in 0 .. R - 1, i \in E PROVE i + 1 \in E
  <2>1. i + 1 \in 1 .. R /\ (i + 1) - 1 = i
    OBVIOUS
  <2>2. f[i + 1] = IF i = 0 THEN seqs[1] ELSE f[i] \o seqs[i + 1]
    <3>1. \A j \in 1 .. R : f[j] = IF j = 1 THEN seqs[1] ELSE f[j - 1] \o seqs[j]
      BY <1>1 DEF Flattens
    <3>2. f[i + 1] = IF i + 1 = 1 THEN seqs[1] ELSE f[(i + 1) - 1] \o seqs[i + 1]
      BY <2>1, <3>1
    <3>3. (i + 1 = 1) <=> (i = 0)
      OBVIOUS
    <3> QED BY <2>1, <3>2, <3>3
  <2>3. CASE i = 0
    <3>1. Within(sets, 1) = sets[1]
      <4>1. 1 .. 1 = {1}
        OBVIOUS
      <4> QED BY <4>1 DEF Within
    <3>2. Enumerates(f[1], Within(sets, 1))
      BY <2>2, <2>3, <3>1
    <3> QED BY <2>1, <2>3, <3>2
  <2>4. CASE i # 0
    <3>1. Enumerates(f[i], Within(sets, i)) /\ Enumerates(seqs[i + 1], sets[i + 1])
      BY <1>3, <2>1, <2>4
    <3>2. Within(sets, i) \cap sets[i + 1] = {}
      <4>1. \A r \in 1 .. i : r \in 1 .. R /\ r # i + 1
        OBVIOUS
      <4>2. \A r \in 1 .. i : sets[r] \cap sets[i + 1] = {}
        BY <2>1, <4>1
      <4> QED BY <4>2 DEF Within
    <3>3. Within(sets, i + 1) = Within(sets, i) \cup sets[i + 1]
      <4>1. 1 .. i + 1 = (1 .. i) \cup {i + 1}
        OBVIOUS
      <4> QED BY <4>1 DEF Within
    <3> DEFINE g == f[i]
               t == seqs[i + 1]
               Before == Within(sets, i)
               Q == sets[i + 1]
    <3>4. Enumerates(g \o t, Before \cup Q)
      <4>1. Enumerates(g, Before) /\ Enumerates(t, Q) /\ Before \cap Q = {}
        BY <3>1, <3>2
      <4> HIDE DEF g, t, Before, Q
      <4> QED BY <4>1, EachAfter
    <3>5. f[i + 1] = g \o t
      BY <2>2, <2>4
    <3>6. Enumerates(g \o t, Within(sets, i + 1))
      BY <3>3, <3>4, Zenon
    <3>7. Enumerates(f[i + 1], Within(sets, i + 1))
      BY <3>5, <3>6, Zenon
    <3>8. i + 1 \in 0 .. R
      OBVIOUS
    <3> QED BY <3>7, <3>8
  <2> QED BY <2>3, <2>4
<1>4. 0 .. R \subseteq E
  <2> HIDE DEF E
  <2> QED BY <1>2, <1>3, UpTo
<1>5. R \in E
  BY <1>4
<1>6. Enumerates(f[R], Within(sets, R)) /\ P!FlattenSeq(seqs) = f[R]
  BY <1>1, <1>5 DEF Flattens
<1> QED BY <1>0, <1>6

\* A sequence of those of a set, each once, is as long as the set is large.
LEMMA EachCounted ==
    ASSUME NEW U, NEW ids, Enumerates(ids, U)
    PROVE  IsFiniteSet(U) /\ Cardinality(U) = Len(ids)
<1>1. ids \in Seq(U) /\ Len(ids) \in Nat
  BY DEF Enumerates
<1>2. ids \in Bijection(1 .. Len(ids), U)
  <2>1. ids \in [1 .. Len(ids) -> U]
    BY <1>1
  <2>2. \A a, b \in 1 .. Len(ids) : ids[a] = ids[b] => a = b
    BY DEF Enumerates
  <2>3. \A t \in U : \E a \in 1 .. Len(ids) : ids[a] = t
    BY DEF Enumerates
  <2> QED BY <2>1, <2>2, <2>3 DEF Bijection, Injection, Surjection, IsInjective
<1>3. ExistsBijection(1 .. Len(ids), U)
  BY <1>2 DEF ExistsBijection
<1> QED BY <1>1, <1>3, FS_NatBijection, FS_CountingElements

\* The positions of which the flex slots take somebody.
Wanted(slots) == UNION {L!flexKindEligible[slots[i]] : i \in {j \in DOMAIN slots : L!IsFlex(slots[j])}}

\* An order in which the map of positions may be visited: each of them once.
Visits(order) ==
    /\ order \in Seq(L!ToSet(order))
    /\ \A i, j \in DOMAIN order : order[i] = order[j] => i = j
    /\ L!ToSet(order) = UNION {L!flexKindEligible[slot] : slot \in DOMAIN L!flexKindEligible}

\* Who is considered for the flex slots.
Candidates(slots, ids, w, order) ==
    LET left == L!leftover(slots, ids, w, order)
    IN  L!FlattenSeq([i \in DOMAIN order |-> IF order[i] \in Wanted(slots) THEN left[order[i]] ELSE <<>>])

\* Who has no strict slot and is of a wanted position.
Remain(slots, C, w, sb) == {x \in C : w.pos[x] \in Wanted(slots) /\ \A i \in DOMAIN slots : sb[i] # x}

\* history_lineup.go 110: the candidates are those who remain, each once.
LEMMA CandidatesRemain ==
    ASSUME NEW C, None \notin C, NEW ids, Enumerates(ids, C), NEW U, NEW slots \in Seq(U),
           NEW w, Pointed(C, w), Placed(C, w), NEW order, Visits(order)
    PROVE  Enumerates(Candidates(slots, ids, w, order),
                      Remain(slots, C, w, L!strictSlots(slots, ids, w)))
<1> DEFINE R == Len(order)
           sb == L!strictSlots(slots, ids, w)
           left == L!leftover(slots, ids, w, order)
           wanted == Wanted(slots)
           seqs == [i \in 1 .. R |-> IF order[i] \in wanted THEN left[order[i]] ELSE <<>>]
           sets == [i \in 1 .. R |-> IF order[i] \in wanted THEN Left(order[i], slots, C, w, sb) ELSE {}]
<1>1. order \in Seq(L!ToSet(order)) /\ R \in Nat /\ DOMAIN order = 1 .. R
  BY DEF Visits
<1>2. wanted \subseteq L!ToSet(order)
  <2>1. \A i : L!IsFlex(slots[i]) => slots[i] \in DOMAIN L!flexKindEligible
    BY DEF L!IsFlex
  <2>2. L!ToSet(order) = UNION {L!flexKindEligible[slot] : slot \in DOMAIN L!flexKindEligible}
    BY DEF Visits
  <2> QED BY <2>1, <2>2 DEF Wanted
<1>3. R # 0
  <2>1. "FLEX" \in DOMAIN L!flexKindEligible /\ "RB" \in L!flexKindEligible["FLEX"]
    BY DEF L!flexKindEligible
  <2>2. "RB" \in L!ToSet(order)
    BY <2>1 DEF Visits
  <2>3. \E i \in DOMAIN order : order[i] = "RB"
    BY <2>2 DEF L!ToSet
  <2> QED BY <1>1, <2>3
<1>4. \A i \in 1 .. R : order[i] \in L!ToSet(order)
  BY <1>1
<1>5. \A p \in L!ToSet(order) : \E i \in 1 .. R : order[i] = p
  BY <1>1 DEF L!ToSet
<1>6. \A i, j \in 1 .. R : order[i] = order[j] => i = j
  BY <1>1 DEF Visits
<1>7. Candidates(slots, ids, w, order) = L!FlattenSeq(seqs)
  <2> HIDE DEF wanted, left, R
  <2> QED BY <1>1 DEF Candidates, wanted, left
<1> HIDE DEF R, left, sb, wanted
<1>8. ASSUME NEW i \in 1 .. R PROVE Enumerates(seqs[i], sets[i])
  <2>1. CASE order[i] \in wanted
    <3>1. Enumerates(left[order[i]], Left(order[i], slots, C, w, sb))
      BY <1>4, LeftOver DEF left, sb
    <3> QED BY <2>1, <3>1
  <2>2. CASE order[i] \notin wanted
    <3>1. Enumerates(<<>>, {})
      BY DEF Enumerates
    <3> QED BY <2>2, <3>1
  <2> QED BY <2>1, <2>2
<1>9. \A i \in 1 .. R : sets[i] \subseteq C
  BY DEF Left
<1>10. \A i \in 1 .. R : \A x \in sets[i] : w.pos[x] = order[i] /\ order[i] \in wanted
  BY DEF Left
<1>11. Len(seqs) = R
  BY <1>1
<1>12. seqs \in [1 .. R -> Seq(C)]
  <2>1. \A i \in 1 .. R : seqs[i] \in Seq(C)
    <3> TAKE i \in 1 .. R
    <3>1. seqs[i] \in Seq(sets[i]) /\ sets[i] \subseteq C
      BY <1>8, <1>9 DEF Enumerates
    <3> HIDE DEF seqs, sets
    <3> QED BY <3>1
  <2>2. seqs = [i \in 1 .. R |-> seqs[i]]
    OBVIOUS
  <2> HIDE DEF seqs
  <2> QED BY <2>1, <2>2
<1>13. \A i, j \in 1 .. R : i # j => sets[i] \cap sets[j] = {}
  <2> HIDE DEF sets
  <2> QED BY <1>6, <1>10
<1>14. Within(sets, R) = Remain(slots, C, w, sb)
  <2>1. ASSUME NEW i \in 1 .. R, NEW x \in sets[i] PROVE x \in Remain(slots, C, w, sb)
    <3>1. order[i] \in wanted
      BY <1>10
    <3>2. x \in Left(order[i], slots, C, w, sb)
      BY <3>1
    <3> QED BY <3>1, <3>2 DEF Left, Remain, wanted
  <2>2. ASSUME NEW x \in Remain(slots, C, w, sb) PROVE \E i \in 1 .. R : x \in sets[i]
    <3>1. w.pos[x] \in wanted
      BY DEF Remain, wanted
    <3>2. PICK i \in 1 .. R : order[i] = w.pos[x]
      BY <1>2, <1>5, <3>1
    <3>3. x \in Left(order[i], slots, C, w, sb)
      BY <3>2 DEF Left, Remain
    <3> QED BY <3>1, <3>2, <3>3
  <2> HIDE DEF sets
  <2> QED BY <2>1, <2>2 DEF Within
<1>15. Enumerates(L!FlattenSeq(seqs), Within(sets, R))
  <2>1. R \in Nat \ {0}
    BY <1>1, <1>3
  <2> HIDE DEF seqs, sets
  <2> QED BY <1>8, <1>11, <1>12, <1>13, <2>1, FlattenEach
<1> QED BY <1>7, <1>14, <1>15 DEF sb

\* Those who remain are no more than all.
LEMMA FewRemain ==
    ASSUME NEW C, NEW ids, Enumerates(ids, C), NEW slots, NEW w, NEW sb,
           NEW cands, Enumerates(cands, Remain(slots, C, w, sb))
    PROVE  Len(cands) <= Cardinality(C)
<1>1. IsFiniteSet(C) /\ Remain(slots, C, w, sb) \in SUBSET C
  BY EachCounted DEF Remain
<1>2. Cardinality(Remain(slots, C, w, sb)) <= Cardinality(C)
  BY <1>1, FS_Subset
<1>3. Cardinality(Remain(slots, C, w, sb)) = Len(cands)
  BY EachCounted
<1> QED BY <1>2, <1>3

\* best is a lineup the slots allow, with what it scores, which is the most there is.
Optimal(best, slots, C, w) ==
    /\ Allowed(best.by, slots, C, w) /\ L!Scored(best.by, w.points) = best.total
    /\ \A m : Allowed(m, slots, C, w) /\ Sits(m, slots, C, w) => L!Scored(m, w.points) <= best.total

\* The strict slots' lineup sb and the flex slots' a make one.
Together(a, sb, slots) == [i \in DOMAIN slots |-> IF L!IsFlex(slots[i]) THEN a[i] ELSE sb[i]]

\* The two together are a lineup the slots allow, which scores what both do.
LEMMA TogetherAllowed ==
    ASSUME NEW C, None \notin C, NEW U, NEW slots \in Seq(U), NEW w, Pointed(C, w),
           NEW sb, Strictly(sb, slots, C, w),
           NEW cands, NEW a, Fits(a, slots, cands, Remain(slots, C, w, sb), w, 1, {})
    PROVE  /\ Allowed(Together(a, sb, slots), slots, C, w)
           /\ L!Scored(Together(a, sb, slots), w.points) = L!Scored(a, w.points) + L!Scored(sb, w.points)
<1> DEFINE n == Len(slots)
           m == Together(a, sb, slots)
           X == Remain(slots, C, w, sb)
<1>1. n \in Nat /\ DOMAIN slots = 1 .. n
  OBVIOUS
<1>2. X \subseteq C /\ \A x \in X : \A i \in 1 .. n : sb[i] # x
  BY <1>1 DEF Remain
<1>3. /\ a \in [1 .. n -> X \cup {None}]
      /\ \A i \in 1 .. n : a[i] # None => L!flexEligible(slots[i], w.pos[a[i]])
      /\ \A i, j \in 1 .. n : a[i] # None /\ a[i] = a[j] => i = j
  BY DEF Fits, Fields
<1>4. /\ sb \in [1 .. n -> C \cup {None}]
      /\ \A i \in 1 .. n : sb[i] # None => ~L!IsFlex(slots[i]) /\ w.pos[sb[i]] = slots[i]
      /\ \A i, j \in 1 .. n : sb[i] # None /\ sb[i] = sb[j] => i = j
  BY <1>1 DEF Strictly
<1>5. \A slot, pos : L!flexEligible(slot, pos) => L!IsFlex(slot) /\ L!MayFill(pos, slot)
  BY DEF L!flexEligible, L!MayFill
<1>6. \A pos : L!MayFill(pos, pos)
  BY DEF L!MayFill
<1>7. m = [i \in 1 .. n |-> IF L!IsFlex(slots[i]) THEN a[i] ELSE sb[i]]
  BY <1>1 DEF Together
<1> HIDE DEF n, m, X
<1>8. \A i \in 1 .. n : m[i] = IF L!IsFlex(slots[i]) THEN a[i] ELSE sb[i]
  BY <1>7
<1>9. Fields(m, n, C)
  BY <1>2, <1>3, <1>4, <1>7 DEF Fields
<1>10. Fields(a, n, C) /\ Fields(sb, n, C)
  BY <1>2, <1>3, <1>4 DEF Fields
<1>11. Shares(m, a, sb, n)
  <2> SUFFICES ASSUME NEW i \in 1 .. n
               PROVE  (a[i] = None /\ m[i] = sb[i]) \/ (sb[i] = None /\ m[i] = a[i])
    BY DEF Shares
  <2> QED BY <1>3, <1>4, <1>5, <1>8
<1>12. ASSUME NEW i \in 1 .. n, m[i] # None PROVE L!MayFill(w.pos[m[i]], slots[i])
  <2>1. CASE L!IsFlex(slots[i])
    BY <1>3, <1>5, <1>8, <1>12, <2>1
  <2>2. CASE ~L!IsFlex(slots[i])
    BY <1>4, <1>6, <1>8, <1>12, <2>2
  <2> QED BY <2>1, <2>2
<1>13. ASSUME NEW i \in 1 .. n, NEW j \in 1 .. n, m[i] # None, m[i] = m[j] PROVE i = j
  <2>1. \A k \in 1 .. n : m[k] = a[k] \/ m[k] = sb[k]
    BY <1>8
  <2>2. \A k, l \in 1 .. n : a[k] # None => a[k] # sb[l]
    BY <1>2, <1>3
  <2>3. (m[i] = a[i] /\ m[j] = a[j]) \/ (m[i] = sb[i] /\ m[j] = sb[j])
    BY <1>13, <2>1, <2>2
  <2> QED BY <1>3, <1>4, <1>13, <2>3
<1>14. Allowed(m, slots, C, w)
  BY <1>9, <1>12, <1>13 DEF Allowed, n
<1>15. L!Scored(m, w.points) = L!Scored(a, w.points) + L!Scored(sb, w.points)
  BY <1>1, <1>9, <1>10, <1>11, ScoredSplit
<1> QED BY <1>14, <1>15 DEF m

\* The flex slots of a lineup that has the strict slots' are an assignment of who remain.
LEMMA ApartFits ==
    ASSUME NEW C, None \notin C, NEW U, NEW slots \in Seq(U), NEW w, Pointed(C, w), Placed(C, w),
           NEW sb, Strictly(sb, slots, C, w), NEW cands,
           NEW c, Allowed(c, slots, C, w), Follows(c, sb, slots, Len(slots))
    PROVE  \E a : /\ Fits(a, slots, cands, Remain(slots, C, w, sb), w, 1, {})
                  /\ L!Scored(c, w.points) = L!Scored(a, w.points) + L!Scored(sb, w.points)
<1> DEFINE n == Len(slots)
           a == [i \in 1 .. n |-> IF L!IsFlex(slots[i]) THEN c[i] ELSE None]
           X == Remain(slots, C, w, sb)
<1>1. n \in Nat /\ DOMAIN slots = 1 .. n
  OBVIOUS
<1>2. /\ c \in [1 .. n -> C \cup {None}]
      /\ \A i \in 1 .. n : c[i] # None => L!MayFill(w.pos[c[i]], slots[i])
      /\ \A i, j \in 1 .. n : c[i] # None /\ c[i] = c[j] => i = j
  BY DEF Allowed, Fields
<1>3. /\ sb \in [1 .. n -> C \cup {None}]
      /\ \A i \in 1 .. n : sb[i] # None => ~L!IsFlex(slots[i])
  BY <1>1 DEF Strictly
<1>4. \A i \in 1 .. n : ~L!IsFlex(slots[i]) => c[i] = sb[i]
  BY DEF Follows
<1>5. \A i \in 1 .. n : a[i] = IF L!IsFlex(slots[i]) THEN c[i] ELSE None
  OBVIOUS
<1>6. ASSUME NEW i \in 1 .. n, L!IsFlex(slots[i]), c[i] # None
      PROVE  c[i] \in X /\ L!flexEligible(slots[i], w.pos[c[i]])
  <2>1. c[i] \in C /\ L!MayFill(w.pos[c[i]], slots[i])
    BY <1>2, <1>6
  <2>2. slots[i] # w.pos[c[i]]
    BY <1>6, <2>1 DEF Placed
  <2>3. L!flexEligible(slots[i], w.pos[c[i]])
    BY <2>1, <2>2 DEF L!MayFill
  <2>4. w.pos[c[i]] \in L!flexKindEligible[slots[i]]
    BY <2>3 DEF L!flexEligible
  <2>5. w.pos[c[i]] \in Wanted(slots)
    BY <1>1, <1>6, <2>4 DEF Wanted
  <2>6. \A j \in 1 .. n : sb[j] # c[i]
    <3> SUFFICES ASSUME NEW j \in 1 .. n, sb[j] = c[i] PROVE FALSE
      OBVIOUS
    <3>1. ~L!IsFlex(slots[j]) /\ c[j] = c[i]
      BY <1>3, <1>4, <1>6
    <3> QED BY <1>2, <1>6, <3>1
  <2> QED BY <1>1, <2>1, <2>3, <2>5, <2>6 DEF Remain
<1> HIDE DEF n, X
<1>7. Fields(a, n, X)
  <2>1. \A i \in 1 .. n : a[i] \in X \cup {None}
    BY <1>5, <1>6
  <2> QED BY <2>1 DEF Fields
<1> HIDE DEF a
<1>8. ASSUME NEW i \in 1 .. n, a[i] # None
      PROVE  i >= 1 /\ L!flexEligible(slots[i], w.pos[a[i]]) /\ \A d \in {} : a[i] # cands[d]
  BY <1>1, <1>5, <1>6, <1>8
<1>9. ASSUME NEW i \in 1 .. n, NEW j \in 1 .. n, a[i] # None, a[i] = a[j] PROVE i = j
  BY <1>2, <1>5, <1>9
<1>10. Fits(a, slots, cands, X, w, 1, {})
  BY <1>7, <1>8, <1>9 DEF Fits, n
<1>11. Shares(c, a, sb, n)
  <2> SUFFICES ASSUME NEW i \in 1 .. n
               PROVE  (a[i] = None /\ c[i] = sb[i]) \/ (sb[i] = None /\ c[i] = a[i])
    BY DEF Shares
  <2> QED BY <1>3, <1>4, <1>5
<1>12. Fields(a, n, C) /\ Fields(sb, n, C) /\ Fields(c, n, C)
  <2>1. X \subseteq C
    BY DEF X, Remain
  <2> QED BY <1>2, <1>3, <1>7, <2>1 DEF Fields
<1>13. L!Scored(c, w.points) = L!Scored(a, w.points) + L!Scored(sb, w.points)
  BY <1>1, <1>11, <1>12, ScoredSplit
<1> QED BY <1>10, <1>13 DEF X

\* history_lineup.go 23: of players no more than the width, nobody's lineup is better.
LEMMA BestIsOptimal ==
    ASSUME NEW C, None \notin C, NEW ids, Enumerates(ids, C), Cardinality(C) <= BitWidth,
           NEW w, Pointed(C, w), Placed(C, w), NEW order, Visits(order),
           NEW positions, NEW U, L!nonBenchSlots(positions) \in Seq(U)
    PROVE  Optimal(L!bestLineup(positions, ids, w, order), L!nonBenchSlots(positions), C, w)
<1> DEFINE slots == L!nonBenchSlots(positions)
           sb == L!strictSlots(slots, ids, w)
           cands == Candidates(slots, ids, w, order)
           flex == L!maxWeightAssignment(slots, cands, w)
           best == L!bestLineup(positions, ids, w, order)
           X == Remain(slots, C, w, sb)
           n == Len(slots)
<1>1. best = [total |-> L!Scored(sb, w.points) + flex.total, by |-> Together(flex.by, sb, slots)]
  <2>1. L!assignFlexSlots(slots, L!leftover(slots, ids, w, order), w, order) = flex
    BY DEF L!assignFlexSlots, Candidates, Wanted
  <2> HIDE DEF flex, sb
  <2> QED BY <2>1 DEF L!bestLineup, Together, sb
<1> HIDE DEF slots
<1>2. slots \in Seq(U) /\ n \in Nat /\ DOMAIN slots = 1 .. n
  BY DEF slots
<1>3. Strictly(sb, slots, C, w)
  BY <1>2, StrictFills DEF Pointed
<1>4. Enumerates(cands, X)
  BY <1>2, CandidatesRemain
<1> HIDE DEF sb, cands, best
<1>5. Len(cands) <= BitWidth
  <2>1. Len(cands) <= Cardinality(C)
    BY <1>4, FewRemain
  <2>2. Cardinality(C) \in Nat /\ Len(cands) \in Nat /\ BitWidth \in Nat
    <3>1. IsFiniteSet(C)
      BY EachCounted
    <3>2. cands \in Seq(X)
      BY <1>4 DEF Enumerates
    <3>3. BitWidth \in Nat
      BY PartsAssumption DEF L!LineupAssumption
    <3> HIDE DEF X
    <3> QED BY <3>1, <3>2, <3>3, FS_CardinalityType
  <2> QED BY <2>1, <2>2
<1>6. X \subseteq C /\ None \notin X /\ Pointed(X, w)
  BY DEF Remain, Pointed
<1> HIDE DEF X
<1>7. BestFrom(flex, slots, cands, X, w, 1, {})
  BY <1>2, <1>4, <1>5, <1>6, AssignmentIsBest
<1> HIDE DEF flex
<1>8. /\ Fits(flex.by, slots, cands, X, w, 1, {}) /\ L!Scored(flex.by, w.points) = flex.total
      /\ \A a : Fits(a, slots, cands, X, w, 1, {}) => L!Scored(a, w.points) <= flex.total
  BY <1>7 DEF BestFrom
<1>9. /\ Allowed(best.by, slots, C, w)
      /\ L!Scored(best.by, w.points) = flex.total + L!Scored(sb, w.points)
  BY <1>1, <1>2, <1>3, <1>8, TogetherAllowed DEF X
<1>10. \A a : Fits(a, slots, cands, X, w, 1, {}) => L!Scored(a, w.points) \in Int
  <2> SUFFICES ASSUME NEW a, Fits(a, slots, cands, X, w, 1, {}) PROVE L!Scored(a, w.points) \in Int
    OBVIOUS
  <2>1. Fields(a, n, X)
    BY DEF Fits
  <2> QED BY <1>2, <1>6, <2>1, ScoredIs
<1>11. L!Scored(sb, w.points) \in Int
  <2>1. Fields(sb, n, C)
    BY <1>2, <1>3 DEF Strictly, Fields
  <2> QED BY <1>2, <2>1, ScoredIs
<1>12. flex.total \in Int /\ best.total = L!Scored(sb, w.points) + flex.total
  BY <1>1, <1>8, <1>10
<1>13. ASSUME NEW m, Allowed(m, slots, C, w), Sits(m, slots, C, w)
       PROVE  L!Scored(m, w.points) <= best.total
  <2>1. PICK c : NoWorse(c, m, sb, slots, C, w, n)
    BY <1>2, <1>3, <1>13, Exchange
  <2>2. PICK a : /\ Fits(a, slots, cands, X, w, 1, {})
                 /\ L!Scored(c, w.points) = L!Scored(a, w.points) + L!Scored(sb, w.points)
    BY <1>2, <1>3, <2>1, ApartFits DEF NoWorse, X
  <2>3. L!Scored(a, w.points) <= flex.total /\ L!Scored(a, w.points) \in Int
    BY <1>8, <1>10, <2>2
  <2>4. L!Scored(m, w.points) \in Int
    <3>1. Fields(m, n, C)
      BY <1>13 DEF Allowed
    <3> QED BY <1>2, <3>1, ScoredIs
  <2>5. L!Scored(c, w.points) >= L!Scored(m, w.points)
    BY <2>1 DEF NoWorse
  <2> QED BY <1>11, <1>12, <2>2, <2>3, <2>4, <2>5
<1> QED BY <1>9, <1>11, <1>12, <1>13 DEF Optimal, best, slots

\* The answer is of the league and the week, in some order of the positions.
LineupInv ==
    /\ league \in Leagues /\ week \in LineupWeeks
    /\ answer # None =>
          \E order \in Orders : answer \in {L!addRetroFields(league.positions, week, order),
                                            L!bestByProjection(league.positions, week, order)}

\* Each step keeps the answer one of the league, the week and an order.
LEMMA LineupStep == ASSUME LineupInv, [L!Next]_lVars PROVE LineupInv'
<1>1. CASE L!Matchup
  <2>1. league' = league /\ week' = week
    BY <1>1 DEF L!Matchup
  <2>2. \E order \in Orders : answer' \in {L!addRetroFields(league.positions, week, order),
                                           L!bestByProjection(league.positions, week, order)}
    BY <1>1 DEF L!Matchup
  <2> QED BY <2>1, <2>2 DEF LineupInv
<1>2. CASE UNCHANGED lVars
  BY <1>2 DEF LineupInv, lVars
<1> QED BY <1>1, <1>2 DEF L!Next

\* The players of a lineup's facts w, of ids, and an order are as the proofs ask.
LEMMA LineupFacts ==
    ASSUME NEW k \in LineupWeeks
    PROVE  LET ids == k.players[1]
               mine == L!ToSet(ids)
           IN  /\ Enumerates(ids, mine) /\ None \notin mine
               /\ \A x \in mine : ~L!IsFlex(k.pos[x]) /\ k.points[x] \in Int /\ k.projected[x] \in Int
               /\ [k EXCEPT !.points = k.projected].points = k.projected
               /\ [k EXCEPT !.points = k.projected].pos = k.pos
<1> DEFINE ids == k.players[1]
           mine == L!ToSet(ids)
<1>1. /\ L!IsWeek(k) /\ ids \in Seq(mine) /\ L!IsInjective(ids)
      /\ \A x \in mine : x # None /\ ~L!IsFlex(k.pos[x]) /\ k.points[x] \in Int /\ k.projected[x] \in Int
  BY PartsAssumption DEF L!LineupAssumption
<1>2. [k EXCEPT !.points = k.projected].points = k.projected /\ [k EXCEPT !.points = k.projected].pos = k.pos
  BY <1>1 DEF L!IsWeek
<1>3. \A x \in mine : \E i \in 1 .. Len(ids) : ids[i] = x
  BY <1>1 DEF L!ToSet
<1>4. \A i, j \in 1 .. Len(ids) : ids[i] = ids[j] => i = j
  BY <1>1 DEF L!IsInjective
<1> HIDE DEF ids, mine
<1>5. Enumerates(ids, mine)
  BY <1>1, <1>3, <1>4 DEF Enumerates
<1> QED BY <1>1, <1>2, <1>5 DEF ids, mine

\* Those of a sequence, each once, are its elements.
LEMMA EachElement ==
    ASSUME NEW U, NEW ids, Enumerates(ids, U)
    PROVE  L!ToSet(ids) = U
<1>1. ids \in Seq(U) /\ \A x \in U : \E i \in 1 .. Len(ids) : ids[i] = x
  BY DEF Enumerates
<1>2. DOMAIN ids = 1 .. Len(ids) /\ \A i \in 1 .. Len(ids) : ids[i] \in U
  BY <1>1
<1> QED BY <1>1, <1>2 DEF L!ToSet

\* A league's slots are a sequence, and an order visits each position once.
LEMMA LineupOrders ==
    ASSUME NEW l \in Leagues, NEW order \in Orders
    PROVE  L!nonBenchSlots(l.positions) \in Seq(L!ToSet(l.positions)) /\ Visits(order)
<1>1. l.positions \in Seq(L!ToSet(l.positions))
  BY PartsAssumption DEF L!LineupAssumption
<1>2. L!nonBenchSlots(l.positions) \in Seq(L!ToSet(l.positions))
  BY <1>1, LineupSelect, SelectAtPicks DEF L!nonBenchSlots
<1>3. /\ order \in Seq(L!ToSet(order)) /\ L!IsInjective(order)
      /\ L!ToSet(order) = UNION {L!flexKindEligible[slot] : slot \in DOMAIN L!flexKindEligible}
  BY PartsAssumption DEF L!LineupAssumption
<1> QED BY <1>2, <1>3 DEF Visits, L!IsInjective

\* The best of a lineup's answer is the best lineup of who is fit, by what they are worth.
LEMMA AnswerIsBest ==
    ASSUME LineupInv, answer # None, L!Cardinality(L!Fit) <= BitWidth
    PROVE  \E w : /\ w.pos = week.pos /\ w.points = L!Worth
                  /\ Optimal(answer.best, L!nonBenchSlots(league.positions), L!Fit, w)
<1> DEFINE ids == week.players[1]
           mine == L!ToSet(ids)
           slots == L!nonBenchSlots(league.positions)
           projected == [week EXCEPT !.points = week.projected]
           fit == L!excludeInjured(ids, week)
<1>1. PICK order \in Orders : answer \in {L!addRetroFields(league.positions, week, order),
                                          L!bestByProjection(league.positions, week, order)}
  BY DEF LineupInv
<1>2. /\ Enumerates(ids, mine) /\ None \notin mine
      /\ \A x \in mine : ~L!IsFlex(week.pos[x]) /\ week.points[x] \in Int /\ week.projected[x] \in Int
      /\ projected.points = week.projected /\ projected.pos = week.pos
  BY LineupFacts DEF LineupInv
<1>3. slots \in Seq(L!ToSet(league.positions)) /\ Visits(order)
  BY LineupOrders DEF LineupInv
<1>4. Cardinality(L!Fit) <= BitWidth
  BY LineupSets
<1> HIDE DEF ids, mine, slots, projected, fit
<1>5. CASE answer = L!addRetroFields(league.positions, week, order)
  <2>1. L!Retro
    BY <1>5 DEF L!Retro, L!addRetroFields
  <2>2. L!Fit = mine /\ L!Worth = week.points
    BY <2>1 DEF L!Fit, L!Worth, mine, ids
  <2>3. answer.best = L!bestLineup(league.positions, ids, week, order)
    BY <1>5 DEF L!addRetroFields, ids
  <2>4. Pointed(mine, week) /\ Placed(mine, week)
    BY <1>2 DEF Pointed, Placed
  <2>5. Optimal(answer.best, slots, mine, week)
    BY <1>2, <1>3, <1>4, <2>2, <2>3, <2>4, BestIsOptimal DEF slots
  <2> QED BY <2>2, <2>5 DEF slots
<1>6. CASE answer = L!bestByProjection(league.positions, week, order)
  <2>1. ~L!Retro
    BY <1>6 DEF L!Retro, L!bestByProjection
  <2>2. L!Fit = L!ToSet(fit) /\ L!Worth = week.projected
    BY <2>1 DEF L!Fit, L!Worth, fit, ids
  <2>3. answer.best = L!bestLineup(league.positions, fit, projected, order)
    BY <1>6 DEF L!bestByProjection, fit, ids, projected
  <2>4. Enumerates(fit, L!ToSet(fit)) /\ L!ToSet(fit) \subseteq mine
    <3>1. PICK J : fit = SelectAt(ids, J)
      BY LineupSelect DEF L!excludeInjured, fit
    <3> DEFINE E == {x \in mine : \E i \in J \cap 1 .. Len(ids) : ids[i] = x}
    <3>2. Enumerates(fit, E)
      BY <1>2, <3>1, SelectEach
    <3>3. L!ToSet(fit) = E
      BY <3>2, EachElement
    <3> QED BY <3>2, <3>3
  <2>5. None \notin L!ToSet(fit) /\ Pointed(L!ToSet(fit), projected) /\ Placed(L!ToSet(fit), projected)
    BY <1>2, <2>4 DEF Pointed, Placed
  <2>6. Optimal(answer.best, slots, L!ToSet(fit), projected)
    BY <1>3, <1>4, <2>2, <2>3, <2>4, <2>5, BestIsOptimal DEF slots
  <2> QED BY <1>2, <2>2, <2>6 DEF slots
<1> QED BY <1>1, <1>5, <1>6

\* A step of the whole is one of the lineup, or leaves it alone.
LEMMA LineupMoves ==
    ASSUME which = "lineup", [Next]_vars
    PROVE  which' = "lineup" /\ [L!Next]_lVars
  BY DEF Next, vars, lVars

\* history_lineup.go 23: for any league, week and order of the positions, of players no
\* more than the width the best lineup is one the league allows, and none it allows
\* scores more.
THEOREM LineupBest == Spec => []LineupIsOptimal
<1> DEFINE IInv == which = "lineup" => LineupInv
<1>1. Init => IInv
  BY DEF Init, L!Init, LineupInv
<1>2. IInv /\ [Next]_vars => IInv'
  <2> SUFFICES ASSUME which = "lineup" => LineupInv, [Next]_vars, which' = "lineup" PROVE LineupInv'
    OBVIOUS
  <2>1. which = "lineup"
    BY DEF Next, vars
  <2> QED BY <2>1, LineupMoves, LineupStep
<1>3. IInv => LineupIsOptimal
  <2> SUFFICES ASSUME LineupInv, answer # None, L!Cardinality(L!Fit) <= BitWidth
               PROVE  L!LineupIsOptimal
    BY DEF LineupIsOptimal, L!LineupIsOptimal
  <2> DEFINE slots == L!nonBenchSlots(league.positions)
             n == Len(slots)
             C == L!Fit
             best == answer.best
  <2>1. PICK w : w.pos = week.pos /\ w.points = L!Worth /\ Optimal(best, slots, C, w)
    BY AnswerIsBest
  <2>2. n \in Nat /\ DOMAIN slots = 1 .. n
    <3>1. league \in Leagues /\ \E order \in Orders : TRUE
      BY DEF LineupInv
    <3>2. slots \in Seq(L!ToSet(league.positions))
      BY <3>1, LineupOrders
    <3> HIDE DEF slots
    <3> QED BY <3>2
  <2> HIDE DEF slots, C, best
  <2>3. Allowed(best.by, slots, C, w) /\ L!Scored(best.by, L!Worth) = best.total
    BY <2>1 DEF Optimal
  <2>4. L!Legal(best.by, slots)
    <3> HIDE DEF n
    <3>1. /\ \A i \in 1 .. n : best.by[i] # None => best.by[i] \in C /\ L!MayFill(w.pos[best.by[i]], slots[i])
          /\ \A i, j \in 1 .. n : best.by[i] # None /\ best.by[i] = best.by[j] => i = j
      BY <2>3 DEF Allowed, Fields, n
    <3> QED BY <2>1, <2>2, <3>1 DEF L!Legal, C
  <2>5. ASSUME NEW m \in [DOMAIN slots -> C \cup {None}], L!Legal(m, slots), L!Starts(m, slots)
        PROVE  L!Scored(m, L!Worth) <= best.total
    <3>1. Allowed(m, slots, C, w)
      <4>1. Fields(m, n, C)
        BY <2>2 DEF Fields
      <4>2. \A i \in 1 .. n : m[i] # None => L!MayFill(w.pos[m[i]], slots[i])
        BY <2>1, <2>2, <2>5 DEF L!Legal
      <4>3. \A i, j \in 1 .. n : m[i] # None /\ m[i] = m[j] => i = j
        <5> SUFFICES ASSUME NEW i \in 1 .. n, NEW j \in 1 .. n, m[i] # None, m[i] = m[j], i # j PROVE FALSE
          OBVIOUS
        <5>1. j \in DOMAIN slots \ {i} /\ i \in DOMAIN slots
          BY <2>2
        <5> QED BY <2>5, <5>1 DEF L!Legal
      <4> QED BY <4>1, <4>2, <4>3 DEF Allowed, n
    <3>2. Sits(m, slots, C, w)
      <4> SUFFICES ASSUME NEW i \in 1 .. n, NEW x \in C, m[i] = None, w.pos[x] = slots[i], w.points[x] < 0
                   PROVE  \E j \in 1 .. n : m[j] = x
        BY DEF Sits, n
      <4>1. week.pos[x] = slots[i] /\ L!Worth[x] < 0
        BY <2>1
      <4> QED BY <2>2, <2>5, <4>1 DEF L!Starts, C
    <3>3. L!Scored(m, w.points) <= best.total
      BY <2>1, <3>1, <3>2 DEF Optimal
    <3> QED BY <2>1, <3>3
  <2> QED BY <2>3, <2>4, <2>5 DEF L!LineupIsOptimal, slots, C, best
<1>4. QED
  BY <1>1, <1>2, <1>3, PTL DEF Spec

=============================================================================
