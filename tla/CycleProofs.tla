----------------------------- MODULE CycleProofs -----------------------------
(***************************************************************************)
(* Proofs about the cycles of a graph (Cycles): what a walk along its edges *)
(* reaches, the shortest paths inside a component, the representative       *)
(* cycles put together from them, and the feedback edges that break them.   *)
(***************************************************************************)
EXTENDS Cycles, FiniteSetTheorems, TLAPS

-----------------------------------------------------------------------------
(***************************************************************************)
(* What is reached is the least set that no edge leaves.                    *)
(***************************************************************************)
Targets(R) == {p[2] : p \in R}
Onward(R, near) == {p[2] : p \in {q \in R : q[1] \in near}}
IsClosed(R, T) == \A q \in R : q[1] \in T => q[2] \in T

ReachFirst(p) == p[1]
ReachRound(p, k, near) == near \cup Onward(p[2], near)

\* Each round that does not close the set reaches one more target.
ReachInv(p, k, near) ==
  /\ p[1] \subseteq near /\ near \subseteq p[1] \cup Targets(p[2])
  /\ \A T : p[1] \subseteq T /\ IsClosed(p[2], T) => near \subseteq T
  /\ IsFiniteSet(Targets(p[2])) =>
       IsClosed(p[2], near) \/ k <= Cardinality((near \cap Targets(p[2])) \ p[1])

Reach == INSTANCE Rounds WITH First <- ReachFirst, Round <- ReachRound, Inv <- ReachInv

ReachWalk(S, R) ==
  CHOOSE f : f = [k \in Nat |-> IF k = 0 THEN S
                                ELSE LET near == f[k - 1]
                                     IN near \cup {p[2] : p \in {q \in R : q[1] \in near}}]

LEMMA ReachWalks ==
  ASSUME NEW S, NEW R
  PROVE  /\ ReachedFrom(S, R) = ReachWalk(S, R)[Cardinality(Targets(R))]
         /\ Reach!IsComputed(ReachWalk(S, R), <<S, R>>)
<1> DEFINE walk == ReachWalk(S, R)
           p == <<S, R>>
<1>1. \A f : Reach!IsComputed(f, p) <=>
        f = [k \in Nat |-> IF k = 0 THEN S
                           ELSE LET near == f[k - 1]
                                IN near \cup {q[2] : q \in {x \in R : x[1] \in near}}]
  BY DEF Reach!IsComputed, ReachFirst, ReachRound, Onward
<1>2. \E f : Reach!IsComputed(f, p)
  BY Reach!ComputedExists
<1>3. Reach!IsComputed(walk, p)
  BY <1>1, <1>2 DEF ReachWalk
<1>4. ReachedFrom(S, R) = walk[Cardinality(Targets(R))]
  BY DEF ReachedFrom, ReachWalk, Targets
<1> QED
  BY <1>3, <1>4

LEMMA ReachSteps ==
  ASSUME NEW S, NEW R
  PROVE  /\ ReachWalk(S, R)[0] = S
         /\ \A k \in Nat : ReachWalk(S, R)[k + 1] = ReachWalk(S, R)[k] \cup Onward(R, ReachWalk(S, R)[k])
<1> DEFINE walk == ReachWalk(S, R)
<1>1. Reach!IsComputed(walk, <<S, R>>)
  BY ReachWalks
<1> HIDE DEF walk
<1>2. walk = [k \in Nat |-> IF k = 0 THEN S ELSE walk[k - 1] \cup Onward(R, walk[k - 1])]
  BY <1>1 DEF Reach!IsComputed, ReachFirst, ReachRound
<1>3. walk[0] = S
  BY <1>2
<1>4. ASSUME NEW k \in Nat PROVE walk[k + 1] = walk[k] \cup Onward(R, walk[k])
  <2>1. k + 1 \in Nat /\ k + 1 # 0 /\ (k + 1) - 1 = k
    OBVIOUS
  <2> QED
    BY <1>2, <2>1
<1> QED
  BY <1>3, <1>4 DEF walk

LEMMA ReachStarts == \A p : ReachInv(p, 0, ReachFirst(p))
<1> SUFFICES ASSUME NEW p PROVE ReachInv(p, 0, ReachFirst(p))
  OBVIOUS
<1>1. (p[1] \cap Targets(p[2])) \ p[1] = {}
  OBVIOUS
<1> QED
  BY <1>1, FS_EmptySet DEF ReachInv, ReachFirst

LEMMA ReachGoesOn ==
  \A p : \A k \in Nat : \A near : ReachInv(p, k, near) => ReachInv(p, k + 1, ReachRound(p, k + 1, near))
<1> SUFFICES ASSUME NEW p, NEW k \in Nat, NEW near, ReachInv(p, k, near)
             PROVE  ReachInv(p, k + 1, ReachRound(p, k + 1, near))
  OBVIOUS
<1> DEFINE S == p[1]
           R == p[2]
           next == near \cup Onward(R, near)
<1>1. ReachRound(p, k + 1, near) = next
  BY DEF ReachRound
<1>2. Onward(R, near) \subseteq Targets(R)
  BY DEF Onward, Targets
<1>3. \A q \in R : q[1] \in near => q[2] \in next
  BY DEF Onward
<1>4. \A T : S \subseteq T /\ IsClosed(R, T) => next \subseteq T
  BY DEF ReachInv, IsClosed, Onward
<1>5. CASE IsClosed(R, near)
  <2>1. next = near
    BY <1>5 DEF IsClosed, Onward
  <2> QED
    BY <1>1, <1>5, <2>1 DEF ReachInv
<1>6. CASE ~IsClosed(R, near)
  <2>1. PICK q \in R : q[1] \in near /\ q[2] \notin near
    BY <1>6 DEF IsClosed
  <2>2. q[2] \in Targets(R) /\ q[2] \in next /\ q[2] \notin S
    BY <1>3, <2>1 DEF Targets, ReachInv
  <2>3. ASSUME IsFiniteSet(Targets(R)) PROVE k + 1 <= Cardinality((next \cap Targets(R)) \ S)
    <3> DEFINE old == (near \cap Targets(R)) \ S
               new == (next \cap Targets(R)) \ S
    <3>1. IsFiniteSet(old) /\ IsFiniteSet(new)
      BY <2>3, FS_Subset
    <3>2. k <= Cardinality(old)
      BY <1>6, <2>3 DEF ReachInv
    <3>3. Cardinality(old \cup {q[2]}) = Cardinality(old) + 1 /\ IsFiniteSet(old \cup {q[2]})
      BY <2>1, <3>1, FS_AddElement
    <3>4. old \cup {q[2]} \subseteq new
      BY <2>2
    <3>5. Cardinality(old \cup {q[2]}) <= Cardinality(new)
      BY <3>1, <3>4, FS_Subset
    <3> HIDE DEF old, new
    <3>6. Cardinality(old) \in Nat /\ Cardinality(new) \in Nat
      BY <3>1, FS_CardinalityType
    <3>7. k + 1 <= Cardinality(new)
      BY <3>2, <3>3, <3>5, <3>6
    <3> QED
      BY <3>7 DEF new
  <2>4. S \subseteq next /\ next \subseteq S \cup Targets(R)
    BY <1>2 DEF ReachInv
  <2> HIDE DEF next
  <2> QED
    BY <1>1, <1>4, <2>3, <2>4 DEF ReachInv
<1> QED
  BY <1>5, <1>6

LEMMA ReachedIsLeast ==
  ASSUME NEW S, NEW R, IsFiniteSet(Targets(R))
  PROVE  /\ S \subseteq ReachedFrom(S, R)
         /\ ReachedFrom(S, R) \subseteq S \cup Targets(R)
         /\ IsClosed(R, ReachedFrom(S, R))
         /\ \A T : S \subseteq T /\ IsClosed(R, T) => ReachedFrom(S, R) \subseteq T
<1> DEFINE p == <<S, R>>
           n == Cardinality(Targets(R))
           reached == ReachedFrom(S, R)
           added == (reached \cap Targets(R)) \ S
<1>1. n \in Nat
  BY FS_CardinalityType
<1>2. \A k \in Nat : ReachInv(p, k, ReachWalk(S, R)[k])
  BY ReachWalks, ReachStarts, ReachGoesOn, Reach!InvariantOfRounds
<1>3. ReachInv(p, n, reached)
  BY <1>1, <1>2, ReachWalks
<1>4. IsClosed(R, reached)
  <2>1. CASE n <= Cardinality(added)
    <3>1. added \in SUBSET Targets(R)
      OBVIOUS
    <3>2. IsFiniteSet(added) /\ Cardinality(added) <= n /\ (n = Cardinality(added) => Targets(R) = added)
      BY <3>1, FS_Subset
    <3>3. Targets(R) = added
      BY <1>1, <2>1, <3>2, FS_CardinalityType
    <3>4. Targets(R) \subseteq reached
      BY <3>3
    <3> QED
      BY <3>4 DEF IsClosed, Targets
  <2> QED
    BY <1>3, <2>1 DEF ReachInv
<1> QED
  BY <1>3, <1>4 DEF ReachInv

-----------------------------------------------------------------------------
(***************************************************************************)
(* Inside a component, each node leads to each other one without leaving it.*)
(***************************************************************************)
Leads(R, a, b) == b \in ReachedFrom({a}, R)

LEMMA LeadsOnward ==
  ASSUME NEW R, IsFiniteSet(Targets(R))
  PROVE  /\ \A a : Leads(R, a, a)
         /\ \A q \in R : Leads(R, q[1], q[2])
         /\ \A a, b, c : Leads(R, a, b) /\ Leads(R, b, c) => Leads(R, a, c)
<1>1. \A a : {a} \subseteq ReachedFrom({a}, R) /\ IsClosed(R, ReachedFrom({a}, R))
  BY ReachedIsLeast
<1>2. \A a, b : b \in ReachedFrom({a}, R) => ReachedFrom({b}, R) \subseteq ReachedFrom({a}, R)
  BY <1>1, ReachedIsLeast
<1> QED
  BY <1>1, <1>2 DEF Leads, IsClosed

LEMMA FirstEdge ==
  ASSUME NEW R, IsFiniteSet(Targets(R)), NEW a, NEW b, Leads(R, a, b), a # b
  PROVE  \E q \in R : q[1] = a /\ Leads(R, q[2], b)
<1> DEFINE T == {a} \cup {c \in Targets(R) : \E q \in R : q[1] = a /\ Leads(R, q[2], c)}
<1>1. IsClosed(R, T)
  <2> SUFFICES ASSUME NEW q \in R, q[1] \in T PROVE q[2] \in T
    BY DEF IsClosed
  <2>1. q[2] \in Targets(R)
    BY DEF Targets
  <2>2. CASE q[1] = a
    BY <2>1, <2>2, LeadsOnward
  <2>3. CASE q[1] # a
    BY <2>1, <2>3, LeadsOnward
  <2> QED
    BY <2>2, <2>3
<1>2. ReachedFrom({a}, R) \subseteq T
  <2> HIDE DEF T
  <2>1. {a} \subseteq T
    BY DEF T
  <2> QED
    BY <1>1, <2>1, ReachedIsLeast
<1> QED
  BY <1>2 DEF Leads

LEMMA FewerTargets ==
  ASSUME NEW R, IsFiniteSet(Targets(R)), NEW scc
  PROVE  /\ IsFiniteSet(Targets(Within(R, scc)))
         /\ Targets(Within(R, scc)) \subseteq scc
<1>1. Targets(Within(R, scc)) \in SUBSET Targets(R)
  BY DEF Targets, Within
<1> QED
  BY <1>1, FS_Subset DEF Targets, Within

\* What lies between two nodes of a component is in it.
LEMMA BetweenIsInside ==
  ASSUME NEW R, IsFiniteSet(Targets(R)), NEW scc \in Sccs(R), NEW a \in scc, NEW b \in scc
  PROVE  Leads(R, a, b) /\ \A v : Leads(R, a, v) /\ Leads(R, v, b) => v \in scc
<1> DEFINE on == {u \in UNION {{p[1], p[2]} : p \in R} :
                    \E p \in R : p[1] = u /\ u \in ReachedFrom({p[2]}, R)}
<1>1. PICK u \in on : scc = {v \in on : Tangled(R, u, v)}
  BY DEF Sccs
<1>2. \A v \in scc : v \in on /\ Leads(R, u, v) /\ Leads(R, v, u)
  BY <1>1 DEF Tangled, Leads
<1>3. Leads(R, a, b) /\ Leads(R, b, a)
  BY <1>2, LeadsOnward
<1>4. ASSUME NEW v, Leads(R, a, v), Leads(R, v, b) PROVE v \in scc
  <2>1. Tangled(R, u, v)
    BY <1>2, <1>4, LeadsOnward DEF Tangled, Leads
  <2>2. CASE v = b
    BY <2>2
  <2>3. CASE v # b
    <3>1. PICK q \in R : q[1] = v /\ Leads(R, q[2], b)
      BY <1>4, <2>3, FirstEdge
    <3>2. Leads(R, q[2], v)
      BY <1>3, <1>4, <3>1, LeadsOnward
    <3>3. v \in UNION {{p[1], p[2]} : p \in R}
      BY <3>1
    <3>4. v \in on
      BY <3>1, <3>2, <3>3 DEF Leads
    <3> QED
      BY <1>1, <2>1, <3>4
  <2> QED
    BY <2>2, <2>3
<1> QED
  BY <1>3, <1>4

\* An edge that the graph leads back over is inside a component.
LEMMA CircularIsWithin ==
  ASSUME NEW R, IsFiniteSet(Targets(R)), NEW p \in R, Leads(R, p[2], p[1])
  PROVE  \E scc \in Sccs(R) : p \in Within(R, scc)
<1> DEFINE on == {u \in UNION {{q[1], q[2]} : q \in R} :
                    \E q \in R : q[1] = u /\ u \in ReachedFrom({q[2]}, R)}
           scc == {v \in on : Tangled(R, p[1], v)}
<1>1. p[1] \in on
  BY DEF Leads
<1>2. Leads(R, p[1], p[2])
  BY LeadsOnward
<1>3. p[2] \in on
  <2>1. CASE p[1] = p[2]
    BY <1>1, <2>1
  <2>2. CASE p[1] # p[2]
    <3>1. PICK q \in R : q[1] = p[2] /\ Leads(R, q[2], p[1])
      BY <2>2, FirstEdge
    <3>2. Leads(R, q[2], p[2])
      BY <1>2, <3>1, LeadsOnward
    <3>3. p[2] \in UNION {{x[1], x[2]} : x \in R}
      OBVIOUS
    <3> QED
      BY <3>1, <3>2, <3>3 DEF Leads
  <2> QED
    BY <2>1, <2>2
<1>4. Tangled(R, p[1], p[1]) /\ Tangled(R, p[1], p[2])
  BY <1>2, LeadsOnward DEF Tangled, Leads
<1>5. scc \in Sccs(R)
  BY <1>1 DEF Sccs
<1> QED
  BY <1>1, <1>3, <1>4, <1>5 DEF Within

LEMMA LeadsInside ==
  ASSUME NEW R, IsFiniteSet(Targets(R)), NEW scc \in Sccs(R), NEW a \in scc, NEW b \in scc
  PROVE  Leads(Within(R, scc), a, b)
<1> DEFINE W == Within(R, scc)
           inside == ReachedFrom({a}, W)
           T == {v \in {a} \cup Targets(R) : v \in inside \/ ~Leads(R, v, b)}
<1>1. IsFiniteSet(Targets(W)) /\ Targets(W) \subseteq scc
  BY FewerTargets
<1>2. a \in inside /\ inside \subseteq scc /\ IsClosed(W, inside)
  BY <1>1, ReachedIsLeast
<1>3. IsClosed(R, T)
  <2> SUFFICES ASSUME NEW q \in R, q[1] \in T, Leads(R, q[2], b) PROVE q[2] \in inside
    BY DEF IsClosed, Targets
  <2>1. Leads(R, q[1], b)
    BY LeadsOnward
  <2>2. q[1] \in inside
    BY <2>1
  <2>3. Leads(R, a, q[2])
    <3>1. q[1] \in scc
      BY <1>2, <2>2
    <3>2. Leads(R, a, q[1])
      BY <3>1, BetweenIsInside
    <3> QED
      BY <3>2, LeadsOnward
  <2>4. q[2] \in scc
    BY <2>3, BetweenIsInside
  <2>5. q \in W
    BY <1>2, <2>2, <2>4 DEF Within
  <2> QED
    BY <1>2, <2>2, <2>5 DEF IsClosed
<1>4. Leads(R, a, b)
  BY BetweenIsInside
<1>5. ReachedFrom({a}, R) \subseteq T
  <2>1. {a} \subseteq T
    BY <1>2
  <2> HIDE DEF T
  <2> QED
    BY <1>3, <2>1, ReachedIsLeast
<1>6. b \in T
  BY <1>4, <1>5 DEF Leads
<1> QED
  BY <1>6, LeadsOnward DEF Leads

-----------------------------------------------------------------------------
(***************************************************************************)
(* The levels of the search: what is reached in k steps and not before.     *)
(***************************************************************************)
UpTo(levels, i) == UNION {levels[j] : j \in 1 .. i}

\* Of n levels.
AreLevels(R, source, levels, n) ==
  /\ levels \in Seq(SUBSET ({source} \cup Targets(R))) /\ Len(levels) = n
  /\ levels[1] = {source}
  /\ \A i \in 1 .. n - 1 : levels[i + 1] = Onward(R, levels[i]) \ UpTo(levels, i)
  /\ \A i \in 0 .. n - 1 : UpTo(levels, i + 1) = ReachWalk({source}, R)[i]

LevelFirst(p) == <<{p[1]}>>
LevelRound(p, k, near) == Append(near, Onward(p[2], Last(near)) \ UNION Range(near))
LevelInv(p, k, near) == AreLevels(p[2], p[1], near, k + 1)

Level == INSTANCE Rounds WITH First <- LevelFirst, Round <- LevelRound, Inv <- LevelInv

LEMMA LevelsStart == \A p : LevelInv(p, 0, LevelFirst(p))
<1> SUFFICES ASSUME NEW p PROVE AreLevels(p[2], p[1], <<{p[1]}>>, 1)
  BY DEF LevelInv, LevelFirst
<1> DEFINE levels == <<{p[1]}>>
<1>1. levels \in Seq(SUBSET ({p[1]} \cup Targets(p[2]))) /\ Len(levels) = 1 /\ levels[1] = {p[1]}
  OBVIOUS
<1> HIDE DEF levels
<1>2. UpTo(levels, 1) = {p[1]}
  BY <1>1 DEF UpTo
<1>3. ReachWalk({p[1]}, p[2])[0] = {p[1]}
  BY ReachSteps
<1>4. \A i \in 0 .. 1 - 1 : UpTo(levels, i + 1) = ReachWalk({p[1]}, p[2])[i]
  <2> SUFFICES ASSUME NEW i \in 0 .. 1 - 1 PROVE UpTo(levels, i + 1) = ReachWalk({p[1]}, p[2])[i]
    OBVIOUS
  <2>1. i = 0 /\ i + 1 = 1
    OBVIOUS
  <2> QED
    BY <1>2, <1>3, <2>1
<1>5. \A i \in 1 .. 1 - 1 : FALSE
  OBVIOUS
<1>6. AreLevels(p[2], p[1], levels, 1)
  BY <1>1, <1>4, <1>5, Zenon DEF AreLevels
<1> QED
  BY <1>6 DEF levels

LEMMA RangeUpTo ==
  ASSUME NEW U, NEW levels \in Seq(U), NEW n, n = Len(levels)
  PROVE  UNION Range(levels) = UpTo(levels, n)
BY DEF Range, UpTo

LEMMA LevelsGoOn ==
  \A p : \A k \in Nat : \A near : LevelInv(p, k, near) => LevelInv(p, k + 1, LevelRound(p, k + 1, near))
<1> SUFFICES ASSUME NEW p, NEW k \in Nat, NEW near, AreLevels(p[2], p[1], near, k + 1)
             PROVE  AreLevels(p[2], p[1], LevelRound(p, k + 1, near), k + 2)
  BY DEF LevelInv
<1> DEFINE s == p[1]
           R == p[2]
           U == SUBSET ({s} \cup Targets(R))
           walk == ReachWalk({s}, R)
           n == k + 1
           new == Onward(R, near[n]) \ UpTo(near, n)
           next == Append(near, new)
<1>1. near \in Seq(U) /\ Len(near) = n /\ n \in Nat
  BY DEF AreLevels
<1>2. LevelRound(p, k + 1, near) = next
  <2>1. UNION Range(near) = UpTo(near, n)
    <3> HIDE DEF U, n
    <3> QED
      BY <1>1, RangeUpTo
  <2> QED
    BY <1>1, <2>1 DEF LevelRound, Last
<1>3. new \in U
  BY DEF Onward, Targets
<1> HIDE DEF new, U
<1>4. /\ next \in Seq(U) /\ Len(next) = n + 1
      /\ \A i \in 1 .. n : next[i] = near[i]
      /\ next[n + 1] = new
  BY <1>1, <1>3
<1> HIDE DEF next
<1>5. \A i \in 0 .. n : UpTo(next, i) = UpTo(near, i)
  <2> SUFFICES ASSUME NEW i \in 0 .. n PROVE UpTo(next, i) = UpTo(near, i)
    OBVIOUS
  <2>1. \A j \in 1 .. i : next[j] = near[j]
    BY <1>4
  <2> QED
    BY <2>1 DEF UpTo
<1>6. UpTo(next, n + 1) = UpTo(near, n) \cup new
  <2>1. 1 .. n + 1 = 1 .. n \cup {n + 1}
    BY <1>1
  <2>2. UpTo(next, n + 1) = UpTo(next, n) \cup next[n + 1]
    BY <2>1 DEF UpTo
  <2> QED
    BY <1>4, <1>5, <2>2
<1>7. UpTo(near, n) = walk[k]
  <2>1. \A i \in 0 .. (k + 1) - 1 : UpTo(near, i + 1) = walk[i]
    BY Zenon DEF AreLevels
  <2>2. k \in 0 .. (k + 1) - 1
    OBVIOUS
  <2> QED
    BY <2>1, <2>2, Zenon
<1>8. Onward(R, walk[k]) \subseteq walk[k] \cup new
  <2> SUFFICES ASSUME NEW q \in R, q[1] \in UpTo(near, n) PROVE q[2] \in walk[k] \cup new
    BY <1>7 DEF Onward
  <2>1. PICK j \in 1 .. n : q[1] \in near[j]
    BY DEF UpTo
  <2>2. q[2] \in Onward(R, near[j])
    BY <2>1 DEF Onward
  <2>3. CASE j = n
    BY <1>7, <2>2, <2>3 DEF new
  <2>4. CASE j # n
    <3>1. j \in 1 .. n - 1 /\ j + 1 \in 1 .. n
      BY <1>1, <2>4
    <3>2. near[j + 1] = Onward(R, near[j]) \ UpTo(near, j)
      BY <3>1 DEF AreLevels
    <3>3. UpTo(near, j) \subseteq UpTo(near, n) /\ near[j + 1] \subseteq UpTo(near, n)
      BY <3>1 DEF UpTo
    <3> QED
      BY <1>7, <2>2, <3>2, <3>3
  <2> QED
    BY <2>3, <2>4
<1>9. UpTo(next, n + 1) = walk[k + 1]
  <2>1. walk[k + 1] = walk[k] \cup Onward(R, walk[k])
    <3> HIDE DEF n
    <3>1. \A i \in Nat : walk[i + 1] = walk[i] \cup Onward(R, walk[i])
      <4>1. \A T : \A i \in Nat : ReachWalk({s}, T)[i + 1] = ReachWalk({s}, T)[i] \cup Onward(T, ReachWalk({s}, T)[i])
        BY ReachSteps
      <4> QED
        BY <4>1
    <3> HIDE DEF walk
    <3> QED
      BY <3>1
  <2>2. new \subseteq Onward(R, walk[k])
    <3>1. near[n] \subseteq walk[k]
      <4>1. n \in 1 .. n
        OBVIOUS
      <4> QED
        BY <1>7, <4>1, Zenon DEF UpTo
    <3> QED
      BY <3>1 DEF new, Onward
  <2> HIDE DEF walk
  <2> QED
    BY <1>6, <1>7, <1>8, <2>1, <2>2
<1>10. \A i \in 0 .. n : UpTo(next, i + 1) = walk[i]
  <2> SUFFICES ASSUME NEW i \in 0 .. n PROVE UpTo(next, i + 1) = walk[i]
    OBVIOUS
  <2>1. CASE i = n
    BY <1>9, <2>1
  <2>2. CASE i # n
    <3>1. i \in 0 .. n - 1 /\ i + 1 \in 0 .. n
      BY <1>1, <2>2
    <3>2. UpTo(near, i + 1) = walk[i]
      BY <3>1 DEF AreLevels
    <3> QED
      BY <1>5, <3>1, <3>2
  <2> QED
    BY <2>1, <2>2
<1>11. \A i \in 1 .. n : next[i + 1] = Onward(R, next[i]) \ UpTo(next, i)
  <2> SUFFICES ASSUME NEW i \in 1 .. n PROVE next[i + 1] = Onward(R, next[i]) \ UpTo(next, i)
    OBVIOUS
  <2>1. next[i] = near[i] /\ UpTo(next, i) = UpTo(near, i)
    BY <1>4, <1>5
  <2>2. CASE i = n
    BY <1>4, <2>1, <2>2 DEF new
  <2>3. CASE i # n
    <3>1. i \in 1 .. n - 1 /\ i + 1 \in 1 .. n
      BY <1>1, <2>3
    <3>2. near[i + 1] = Onward(R, near[i]) \ UpTo(near, i)
      BY <3>1 DEF AreLevels
    <3> QED
      BY <1>4, <2>1, <3>1, <3>2
  <2> QED
    BY <2>2, <2>3
<1>12. next[1] = {s}
  BY <1>1, <1>4 DEF AreLevels
<1> HIDE DEF walk, n
<1>13. AreLevels(R, s, next, n + 1)
  BY <1>1, <1>4, <1>10, <1>11, <1>12 DEF AreLevels, U, walk
<1>14. n + 1 = k + 2
  BY DEF n
<1> QED
  BY <1>2, <1>13, <1>14, Zenon


LevelsWalk(R, source) ==
  CHOOSE f : f = [k \in Nat |->
    IF k = 0 THEN <<{source}>>
    ELSE LET near == f[k - 1] IN
         Append(near, {p[2] : p \in {q \in R : q[1] \in Last(near)}} \ UNION Range(near))]

LEMMA LevelsWalks ==
  ASSUME NEW R, NEW source
  PROVE  /\ Levels(R, source) = LevelsWalk(R, source)[Cardinality(Targets(R))]
         /\ Level!IsComputed(LevelsWalk(R, source), <<source, R>>)
<1> DEFINE p == <<source, R>>
<1>1. \A f : Level!IsComputed(f, p) <=>
        f = [k \in Nat |->
          IF k = 0 THEN <<{source}>>
          ELSE LET near == f[k - 1] IN
               Append(near, {q[2] : q \in {x \in R : x[1] \in Last(near)}} \ UNION Range(near))]
  BY DEF Level!IsComputed, LevelFirst, LevelRound, Onward
<1>2. \E f : Level!IsComputed(f, p)
  BY Level!ComputedExists
<1>3. Level!IsComputed(LevelsWalk(R, source), p)
  BY <1>1, <1>2 DEF LevelsWalk
<1>4. Levels(R, source) = LevelsWalk(R, source)[Cardinality(Targets(R))]
  BY DEF Levels, LevelsWalk, Targets
<1> QED
  BY <1>3, <1>4

\* Whatever a source leads to lies on one of the levels.
LEMMA LevelsReach ==
  ASSUME NEW R, IsFiniteSet(Targets(R)), NEW source, NEW n, n = Cardinality(Targets(R)) + 1
  PROVE  /\ AreLevels(R, source, Levels(R, source), n)
         /\ n \in Nat
         /\ ReachedFrom({source}, R) = UpTo(Levels(R, source), n)
<1> DEFINE m == Cardinality(Targets(R))
           walk == LevelsWalk(R, source)
<1>1. m \in Nat
  BY FS_CardinalityType
<1>2. \A k \in Nat : LevelInv(<<source, R>>, k, walk[k])
  BY LevelsWalks, LevelsStart, LevelsGoOn, Level!InvariantOfRounds
<1>3. LevelInv(<<source, R>>, m, Levels(R, source))
  BY <1>1, <1>2, LevelsWalks
<1>4. AreLevels(R, source, Levels(R, source), n)
  BY <1>3 DEF LevelInv
<1>5. UpTo(Levels(R, source), m + 1) = ReachWalk({source}, R)[m]
  <2>1. \A i \in 0 .. (m + 1) - 1 : UpTo(Levels(R, source), i + 1) = ReachWalk({source}, R)[i]
    BY <1>4, Zenon DEF AreLevels
  <2>2. m \in 0 .. (m + 1) - 1
    BY <1>1
  <2> HIDE DEF m
  <2> QED
    BY <2>1, <2>2, Zenon
<1>6. ReachedFrom({source}, R) = ReachWalk({source}, R)[m]
  BY ReachWalks
<1> QED
  BY <1>1, <1>4, <1>5, <1>6

-----------------------------------------------------------------------------
(***************************************************************************)
(* From the target back to the source, one level at a time.                 *)
(***************************************************************************)
LEMMA MinIsMember ==
  ASSUME NEW S, S \subseteq Nat, S # {}
  PROVE  Min(S) \in S
<1>1. \E m \in S : \A k \in S : m <= k
  BY Reach!LeastNatural
<1> QED
  BY <1>1 DEF Min

\* p: the graph, the levels, the depth of the target, and the target.
BackFirst(p) == p[4]
BackRound(p, k, v) == Min({u \in p[2][p[3] - k] : <<u, v>> \in p[1]})

IsSearch(p) ==
  /\ p[1] \subseteq Nat \X Nat
  /\ p[3] \in Nat /\ p[4] \in p[2][p[3]]
  /\ \A i \in 1 .. p[3] : p[2][i] \subseteq Nat
  /\ \A i \in 1 .. p[3] - 1 : p[2][i + 1] \subseteq Onward(p[1], p[2][i])

BackInv(p, k, v) == IsSearch(p) /\ k < p[3] => v \in p[2][p[3] - k]

Back == INSTANCE Rounds WITH First <- BackFirst, Round <- BackRound, Inv <- BackInv

LEMMA BackStarts == \A p : BackInv(p, 0, BackFirst(p))
<1> SUFFICES ASSUME NEW p, IsSearch(p) PROVE p[4] \in p[2][p[3] - 0]
  BY DEF BackInv, BackFirst
<1>1. p[3] - 0 = p[3]
  BY DEF IsSearch
<1> QED
  BY <1>1 DEF IsSearch

\* Some node of the level before leads there.
LEMMA BackOne ==
  ASSUME NEW p, IsSearch(p), NEW k \in Nat, k + 1 < p[3], NEW v, v \in p[2][p[3] - k]
  PROVE  /\ BackRound(p, k + 1, v) \in p[2][p[3] - (k + 1)]
         /\ <<BackRound(p, k + 1, v), v>> \in p[1]
<1> DEFINE i == p[3] - (k + 1)
           from == {u \in p[2][i] : <<u, v>> \in p[1]}
<1>1. i \in 1 .. p[3] - 1 /\ i \in 1 .. p[3] /\ i + 1 = p[3] - k
  BY DEF IsSearch
<1> HIDE DEF i
<1>2. v \in Onward(p[1], p[2][i])
  BY <1>1 DEF IsSearch
<1>3. PICK q \in p[1] : q[1] \in p[2][i] /\ q[2] = v
  BY <1>2 DEF Onward
<1>4. q = <<q[1], v>>
  BY <1>3 DEF IsSearch
<1>5. from # {} /\ from \subseteq Nat
  BY <1>1, <1>3, <1>4 DEF IsSearch
<1>6. Min(from) \in from
  BY <1>5, MinIsMember
<1>7. BackRound(p, k + 1, v) = Min(from)
  BY DEF BackRound, i
<1> QED
  BY <1>6, <1>7 DEF i

LEMMA BackGoesOn ==
  \A p : \A k \in Nat : \A v : BackInv(p, k, v) => BackInv(p, k + 1, BackRound(p, k + 1, v))
<1> SUFFICES ASSUME NEW p, NEW k \in Nat, NEW v, BackInv(p, k, v), IsSearch(p), k + 1 < p[3]
             PROVE  BackRound(p, k + 1, v) \in p[2][p[3] - (k + 1)]
  BY DEF BackInv
<1>1. k < p[3]
  BY DEF IsSearch
<1> QED
  BY <1>1, BackOne DEF BackInv

IsPath(R, path, source, target) ==
  /\ DOMAIN path = 1 .. Len(path) /\ Len(path) \in Nat \ {0}
  /\ path[1] = source /\ path[Len(path)] = target
  /\ \A i \in 1 .. Len(path) - 1 : <<path[i], path[i + 1]>> \in R

BackWalk(R, level, depth, target) ==
  CHOOSE f : f = [k \in Nat |-> IF k = 0 THEN target
                                ELSE Min({u \in level[depth - k] : <<u, f[k - 1]>> \in R})]


Depth(level, target) == CHOOSE k \in DOMAIN level : target \in level[k]

LEMMA BackWalks ==
  ASSUME NEW R, NEW source, NEW target, NEW level, level = Levels(R, source),
         NEW depth, depth = Depth(level, target), NEW walk, walk = BackWalk(R, level, depth, target)
  PROVE  /\ ShortestPath(R, source, target) = [i \in 1 .. depth |-> walk[depth - i]]
         /\ Back!IsComputed(walk, <<R, level, depth, target>>)
<1> DEFINE p == <<R, level, depth, target>>
<1>1. \A f : Back!IsComputed(f, p) <=>
        f = [k \in Nat |-> IF k = 0 THEN target
                           ELSE Min({u \in level[depth - k] : <<u, f[k - 1]>> \in R})]
  BY DEF Back!IsComputed, BackFirst, BackRound
<1>2. \E f : Back!IsComputed(f, p)
  BY Back!ComputedExists
<1>3. Back!IsComputed(walk, p)
  BY <1>1, <1>2 DEF BackWalk
<1>4. ShortestPath(R, source, target) = [i \in 1 .. depth |-> walk[depth - i]]
  BY DEF ShortestPath, BackWalk, Depth
<1> QED
  BY <1>3, <1>4

LEMMA BackSteps ==
  ASSUME NEW p, IsSearch(p), NEW walk, Back!IsComputed(walk, p)
  PROVE  /\ walk[0] = p[4]
         /\ \A k \in Nat : k < p[3] => walk[k] \in p[2][p[3] - k]
         /\ \A k \in Nat : k + 1 < p[3] => <<walk[k + 1], walk[k]>> \in p[1]
<1>1. walk = [k \in Nat |-> IF k = 0 THEN p[4] ELSE BackRound(p, k, walk[k - 1])]
  BY DEF Back!IsComputed, BackFirst
<1>2. \A k \in Nat : BackInv(p, k, walk[k])
  BY BackStarts, BackGoesOn, Back!InvariantOfRounds
<1>3. ASSUME NEW k \in Nat PROVE k < p[3] => walk[k] \in p[2][p[3] - k]
  BY <1>2 DEF BackInv
<1>4. ASSUME NEW k \in Nat, k + 1 < p[3] PROVE <<walk[k + 1], walk[k]>> \in p[1]
  <2>1. k < p[3]
    BY <1>4 DEF IsSearch
  <2>2. k + 1 \in Nat /\ k + 1 # 0 /\ (k + 1) - 1 = k
    OBVIOUS
  <2>3. walk[k + 1] = BackRound(p, k + 1, walk[k])
    BY <1>1, <2>2
  <2> QED
    BY <1>3, <1>4, <2>1, <2>3, BackOne
<1> QED
  BY <1>1, <1>3, <1>4

\* The node at place i of a shortest path lies on level i.
LEMMA PathFollowsLevels ==
  ASSUME NEW R, IsFiniteSet(Targets(R)), R \subseteq Nat \X Nat,
         NEW source \in Nat, NEW target, Leads(R, source, target)
  PROVE  /\ IsPath(R, ShortestPath(R, source, target), source, target)
         /\ \A i \in 1 .. Len(ShortestPath(R, source, target)) :
              ShortestPath(R, source, target)[i] \in Levels(R, source)[i]
         /\ Len(ShortestPath(R, source, target)) <= Cardinality(Targets(R)) + 1
<1> DEFINE level == Levels(R, source)
           depth == Depth(level, target)
           n == Cardinality(Targets(R)) + 1
           walk == BackWalk(R, level, depth, target)
           p == <<R, level, depth, target>>
           path == [i \in 1 .. depth |-> walk[depth - i]]
<1>1. AreLevels(R, source, level, n) /\ n \in Nat /\ target \in UpTo(level, n)
  BY LevelsReach DEF Leads
<1>2. ShortestPath(R, source, target) = path /\ Back!IsComputed(walk, p)
  BY BackWalks
<1> HIDE DEF level, n, walk, p
<1>3. DOMAIN level = 1 .. n /\ level \in [1 .. n -> SUBSET ({source} \cup Targets(R))] /\ level[1] = {source}
  BY <1>1 DEF AreLevels
<1>4. \A i \in 1 .. n - 1 : level[i + 1] = Onward(R, level[i]) \ UpTo(level, i)
  BY <1>1 DEF AreLevels
<1>5. depth \in 1 .. n /\ target \in level[depth]
  BY <1>1, <1>3 DEF Depth, UpTo
<1>6. \A i \in 1 .. n : level[i] \subseteq Nat
  BY <1>3 DEF Targets
<1> HIDE DEF depth
<1>7. IsSearch(p)
  <2>1. depth \in Nat /\ 1 .. depth \subseteq 1 .. n /\ 1 .. depth - 1 \subseteq 1 .. n - 1
    BY <1>1, <1>5
  <2> QED
    BY <1>4, <1>5, <1>6, <2>1 DEF IsSearch, p
<1>8. /\ walk[0] = target
      /\ \A k \in Nat : k < depth => walk[k] \in level[depth - k]
      /\ \A k \in Nat : k + 1 < depth => <<walk[k + 1], walk[k]>> \in R
  <2>1. p[1] = R /\ p[2] = level /\ p[3] = depth /\ p[4] = target
    BY DEF p
  <2> QED
    BY <1>2, <1>7, <2>1, BackSteps
<1>9. path \in Seq({walk[k] : k \in Nat}) /\ Len(path) = depth /\ depth \in Nat \ {0}
  BY <1>1, <1>5
<1>10. ASSUME NEW i \in 1 .. depth PROVE path[i] \in level[i]
  <2>1. depth - i \in Nat /\ depth - i < depth /\ depth - (depth - i) = i
    BY <1>9
  <2> QED
    BY <1>8, <2>1
<1>11. path[1] = source
  BY <1>3, <1>9, <1>10
<1>12. path[depth] = target
  BY <1>8, <1>9
<1>13. ASSUME NEW i \in 1 .. depth - 1 PROVE <<path[i], path[i + 1]>> \in R
  <2>1. depth - (i + 1) \in Nat /\ (depth - (i + 1)) + 1 < depth /\ (depth - (i + 1)) + 1 = depth - i
    BY <1>9
  <2>2. path[i] = walk[depth - i] /\ path[i + 1] = walk[depth - (i + 1)]
    BY <1>9
  <2> QED
    BY <1>8, <2>1, <2>2
<1> HIDE DEF path
<1>14. IsPath(R, path, source, target)
  BY <1>9, <1>11, <1>12, <1>13 DEF IsPath
<1>15. Len(path) <= n
  BY <1>1, <1>5, <1>9
<1> QED
  BY <1>2, <1>9, <1>10, <1>14, <1>15 DEF level, n


-----------------------------------------------------------------------------
(***************************************************************************)
(* The rotation of a cycle to its smallest node has the same edges.         *)
(***************************************************************************)
IsCycle(c) == DOMAIN c = 1 .. Len(c) /\ Len(c) \in Nat \ {0} /\ Range(c) \subseteq Nat

\* Of n places around the cycle the one after i, and the one that `first` puts i on.
Around(n, i) == IF i = n THEN 1 ELSE i + 1
Rotated(n, first, i) == IF i + first - 1 <= n THEN i + first - 1 ELSE i + first - 1 - n
RotatedBack(n, first, i) == IF first <= i THEN i - first + 1 ELSE i - first + 1 + n

LEMMA EdgesAround ==
  ASSUME NEW c, DOMAIN c = 1 .. Len(c)
  PROVE  CycleEdges(c) = {<<c[i], c[Around(Len(c), i)]>> : i \in 1 .. Len(c)}
<1>1. \A i \in 1 .. Len(c) : (IF i = Len(c) THEN c[1] ELSE c[i + 1]) = c[Around(Len(c), i)]
  BY DEF Around
<1> QED
  BY <1>1 DEF CycleEdges

LEMMA RotationTurns ==
  ASSUME NEW n \in Nat, NEW first \in 1 .. n, NEW i \in 1 .. n
  PROVE  /\ Rotated(n, first, i) \in 1 .. n /\ RotatedBack(n, first, i) \in 1 .. n
         /\ Around(n, i) \in 1 .. n
         /\ Rotated(n, first, Around(n, i)) = Around(n, Rotated(n, first, i))
         /\ Rotated(n, first, RotatedBack(n, first, i)) = i
         /\ RotatedBack(n, first, Rotated(n, first, i)) = i
BY DEF Rotated, RotatedBack, Around

LEMMA RotationIsCycle ==
  ASSUME NEW c, IsCycle(c)
  PROVE  \E first \in 1 .. Len(c) :
           /\ c[first] = Min(Range(c))
           /\ CanonicalRotation(c) = [i \in 1 .. Len(c) |-> c[Rotated(Len(c), first, i)]]
<1> DEFINE n == Len(c)
           first == CHOOSE i \in DOMAIN c : c[i] = Min(Range(c))
<1>1. Range(c) # {}
  BY DEF IsCycle, Range
<1>2. Min(Range(c)) \in Range(c)
  BY <1>1, MinIsMember DEF IsCycle
<1>3. first \in 1 .. n /\ c[first] = Min(Range(c))
  BY <1>2 DEF IsCycle, Range
<1>4. CanonicalRotation(c) = RotatedTo(c, first)
  BY DEF CanonicalRotation
<1> HIDE DEF first
<1>5. CanonicalRotation(c) = [i \in 1 .. n |-> c[Rotated(n, first, i)]]
  <2>1. \A i \in 1 .. n : (IF i + first - 1 <= n THEN c[i + first - 1] ELSE c[i + first - 1 - n]) = c[Rotated(n, first, i)]
    BY DEF Rotated
  <2> QED
    BY <1>4, <2>1 DEF IsCycle, RotatedTo
<1> QED
  BY <1>3, <1>5

LEMMA RotationKeepsEdges ==
  ASSUME NEW c, IsCycle(c), NEW r, r = CanonicalRotation(c)
  PROVE  /\ IsCycle(r) /\ Len(r) = Len(c) /\ Range(r) = Range(c)
         /\ r[1] = Min(Range(r))
         /\ CycleEdges(r) = CycleEdges(c)
         /\ (\A i, j \in 1 .. Len(c) : c[i] = c[j] => i = j) => \A i, j \in 1 .. Len(c) : r[i] = r[j] => i = j
<1> DEFINE n == Len(c)
<1>1. PICK first \in 1 .. n : c[first] = Min(Range(c)) /\ r = [i \in 1 .. n |-> c[Rotated(n, first, i)]]
  BY RotationIsCycle
<1>2. n \in Nat \ {0} /\ DOMAIN c = 1 .. n
  BY DEF IsCycle
<1>3. DOMAIN r = 1 .. n /\ Len(r) = n
  <2>1. r \in Seq({c[i] : i \in DOMAIN c})
    BY <1>1, <1>2, RotationTurns
  <2> QED
    BY <1>1, <1>2, <2>1
<1> HIDE DEF n
<1>4. \A i \in 1 .. n : r[i] = c[Rotated(n, first, i)] /\ Rotated(n, first, i) \in 1 .. n
  BY <1>1, <1>2, RotationTurns
<1>5. \A i \in 1 .. n : RotatedBack(n, first, i) \in 1 .. n /\ Rotated(n, first, RotatedBack(n, first, i)) = i
                        /\ Around(n, i) \in 1 .. n
  BY <1>2, RotationTurns
<1>6. ASSUME NEW i \in 1 .. n PROVE r[Around(n, i)] = c[Around(n, Rotated(n, first, i))]
  <2>1. r[Around(n, i)] = c[Rotated(n, first, Around(n, i))]
    BY <1>4, <1>5
  <2>2. Rotated(n, first, Around(n, i)) = Around(n, Rotated(n, first, i))
    BY <1>2, RotationTurns
  <2> QED
    BY <2>1, <2>2
<1>7. Range(r) = Range(c)
  <2>1. \A i \in 1 .. n : c[i] = r[RotatedBack(n, first, i)]
    BY <1>4, <1>5
  <2>2. Range(r) = {r[i] : i \in 1 .. n} /\ Range(c) = {c[i] : i \in 1 .. n}
    BY <1>2, <1>3 DEF Range
  <2> QED
    BY <1>4, <1>5, <2>1, <2>2
<1>8. CycleEdges(r) = CycleEdges(c)
  <2> DEFINE edge(i) == <<c[i], c[Around(n, i)]>>
             turned(i) == <<r[i], r[Around(n, i)]>>
  <2>1. CycleEdges(c) = {edge(i) : i \in 1 .. n}
    BY <1>2, EdgesAround DEF n
  <2>2. CycleEdges(r) = {turned(i) : i \in 1 .. n}
    <3>1. DOMAIN r = 1 .. Len(r)
      BY <1>3
    <3> QED
      BY <1>3, <3>1, EdgesAround
  <2>3. \A i \in 1 .. n : turned(i) = edge(Rotated(n, first, i))
    BY <1>4, <1>6
  <2> HIDE DEF edge, turned
  <2>4. \A i \in 1 .. n : edge(i) = turned(RotatedBack(n, first, i))
    BY <1>5, <2>3
  <2> QED
    BY <1>4, <1>5, <2>1, <2>2, <2>3, <2>4
<1>9. r[1] = c[first]
  <2>1. Rotated(n, first, 1) = first /\ 1 \in 1 .. n
    BY <1>2 DEF Rotated
  <2> QED
    BY <1>4, <2>1
<1>10. ASSUME \A i, j \in 1 .. n : c[i] = c[j] => i = j, NEW i \in 1 .. n, NEW j \in 1 .. n, r[i] = r[j]
       PROVE  i = j
  <2>1. Rotated(n, first, i) = Rotated(n, first, j)
    BY <1>4, <1>10
  <2> QED
    BY <1>2, <2>1, RotationTurns
<1> QED
  BY <1>1, <1>2, <1>3, <1>7, <1>8, <1>9, <1>10 DEF IsCycle, n


-----------------------------------------------------------------------------
(***************************************************************************)
(* The representative cycles: one for each edge on a cycle, and all of them *)
(* cycles of the graph.                                                     *)
(***************************************************************************)
LEMMA PathClosesCycle ==
  ASSUME NEW R, R \subseteq Nat \X Nat, NEW p \in R, NEW path, IsPath(R, path, p[2], p[1])
  PROVE  IsCycle(path) /\ CycleEdges(path) \subseteq R /\ p \in CycleEdges(path)
<1> DEFINE n == Len(path)
<1>1. /\ DOMAIN path = 1 .. n /\ n \in Nat \ {0}
      /\ path[1] = p[2] /\ path[n] = p[1]
      /\ \A i \in 1 .. n - 1 : <<path[i], path[i + 1]>> \in R
  BY DEF IsPath
<1>2. CycleEdges(path) = {<<path[i], path[Around(n, i)]>> : i \in 1 .. n}
  BY <1>1, EdgesAround
<1> HIDE DEF n
<1>3. p = <<p[1], p[2]>> /\ p[1] \in Nat
  OBVIOUS
<1>4. ASSUME NEW i \in 1 .. n PROVE <<path[i], path[Around(n, i)]>> \in R /\ path[i] \in Nat
  <2>1. CASE i = n
    BY <1>1, <1>3, <2>1 DEF Around
  <2>2. CASE i # n
    <3>1. i \in 1 .. n - 1 /\ Around(n, i) = i + 1
      BY <1>1, <2>2 DEF Around
    <3> QED
      BY <1>1, <3>1
  <2> QED
    BY <2>1, <2>2
<1>5. n \in 1 .. n /\ <<path[n], path[Around(n, n)]>> = p
  BY <1>1, <1>3 DEF Around
<1>6. Range(path) \subseteq Nat
  BY <1>1, <1>4 DEF Range
<1> QED
  BY <1>1, <1>2, <1>4, <1>5, <1>6 DEF IsCycle, n

IsEdgeSet(R) == R \subseteq Nat \X Nat /\ IsFiniteSet(Targets(R))

PathThrough(R, scc, p) == ShortestPath(Within(R, scc), p[2], p[1])
Representative(R, scc, p) == CanonicalRotation(PathThrough(R, scc, p))

LEMMA RepresentativesAre ==
  ASSUME NEW R
  PROVE  RepresentativeCycles(R) = UNION {{Representative(R, scc, p) : p \in Within(R, scc)} : scc \in Sccs(R)}
BY DEF RepresentativeCycles, Representative, PathThrough

LEMMA PathsAreWithin ==
  ASSUME NEW R, IsEdgeSet(R), NEW scc \in Sccs(R), NEW p \in Within(R, scc),
         NEW W, W = Within(R, scc), NEW path, path = PathThrough(R, scc, p)
  PROVE  /\ IsEdgeSet(W)
         /\ IsPath(W, path, p[2], p[1])
         /\ \A i \in 1 .. Len(path) : path[i] \in Levels(W, p[2])[i]
         /\ Len(path) <= Cardinality(Targets(W)) + 1
<1>1. IsFiniteSet(Targets(W)) /\ W \subseteq Nat \X Nat
  BY FewerTargets DEF IsEdgeSet, Within
<1>2. p[1] \in scc /\ p[2] \in scc /\ p[2] \in Nat
  BY DEF IsEdgeSet, Within
<1>3. Leads(W, p[2], p[1])
  BY <1>2, LeadsInside DEF IsEdgeSet
<1> QED
  BY <1>1, <1>2, <1>3, PathFollowsLevels DEF IsEdgeSet, PathThrough

LEMMA RepresentativeIsCycle ==
  ASSUME NEW R, IsEdgeSet(R), NEW scc \in Sccs(R), NEW p \in Within(R, scc)
  PROVE  /\ IsCycle(Representative(R, scc, p))
         /\ CycleEdges(Representative(R, scc, p)) \subseteq Within(R, scc)
         /\ p \in CycleEdges(Representative(R, scc, p))
<1> DEFINE W == Within(R, scc)
           path == PathThrough(R, scc, p)
<1>1. IsEdgeSet(W) /\ IsPath(W, path, p[2], p[1])
  BY PathsAreWithin
<1>2. IsCycle(path) /\ CycleEdges(path) \subseteq W /\ p \in CycleEdges(path)
  BY <1>1, PathClosesCycle DEF IsEdgeSet
<1> HIDE DEF path, W
<1>3. IsCycle(CanonicalRotation(path)) /\ CycleEdges(CanonicalRotation(path)) = CycleEdges(path)
  BY <1>2, RotationKeepsEdges
<1> QED
  BY <1>2, <1>3 DEF Representative, path, W

(***************************************************************************)
(* The edges of the representative cycles are those inside the components:  *)
(* what the layout marks is what the rules judge (representative_cycles,    *)
(* edge_cycles).                                                            *)
(***************************************************************************)
THEOREM RepresentativesCoverComponents ==
  ASSUME NEW R, IsEdgeSet(R)
  PROVE  UNION {CycleEdges(c) : c \in RepresentativeCycles(R)} = UNION {Within(R, scc) : scc \in Sccs(R)}
<1>1. ASSUME NEW c \in RepresentativeCycles(R), NEW e \in CycleEdges(c)
      PROVE  \E scc \in Sccs(R) : e \in Within(R, scc)
  <2>1. PICK scc \in Sccs(R) : \E p \in Within(R, scc) : c = Representative(R, scc, p)
    BY RepresentativesAre
  <2> QED
    BY <1>1, <2>1, RepresentativeIsCycle
<1>2. ASSUME NEW scc \in Sccs(R), NEW e \in Within(R, scc)
      PROVE  \E c \in RepresentativeCycles(R) : e \in CycleEdges(c)
  <2>1. Representative(R, scc, e) \in RepresentativeCycles(R)
    BY RepresentativesAre
  <2> QED
    BY <2>1, RepresentativeIsCycle
<1> QED
  BY <1>1, <1>2


-----------------------------------------------------------------------------
(***************************************************************************)
(* They are as short as a cycle through the edge can be, pass a node once,  *)
(* and are told apart by their edges.                                       *)
(***************************************************************************)
LEMMA LevelsAreNew ==
  ASSUME NEW R, NEW source, NEW level, NEW n \in Nat, AreLevels(R, source, level, n),
         NEW i \in 1 .. n, NEW v, v \in level[i]
  PROVE  /\ \A j \in 1 .. i - 1 : v \notin level[j]
         /\ \A k \in Nat : k + 1 < i => v \notin ReachWalk({source}, R)[k]
<1>1. ASSUME NEW j \in 1 .. i - 1 PROVE v \notin level[j]
  <2>1. i - 1 \in 1 .. n - 1 /\ (i - 1) + 1 = i
    OBVIOUS
  <2>2. level[i] = Onward(R, level[i - 1]) \ UpTo(level, i - 1)
    <3>1. level[(i - 1) + 1] = Onward(R, level[i - 1]) \ UpTo(level, i - 1)
      BY <2>1, Zenon DEF AreLevels
    <3> QED
      BY <2>1, <3>1
  <2>3. level[j] \subseteq UpTo(level, i - 1)
    BY DEF UpTo
  <2> QED
    BY <2>2, <2>3
<1>2. ASSUME NEW k \in Nat, k + 1 < i PROVE v \notin ReachWalk({source}, R)[k]
  <2>1. k \in 0 .. n - 1
    BY <1>2
  <2>2. UpTo(level, k + 1) = ReachWalk({source}, R)[k]
    BY <2>1, Zenon DEF AreLevels
  <2>3. \A j \in 1 .. k + 1 : j \in 1 .. i - 1
    BY <1>2
  <2>4. v \notin UpTo(level, k + 1)
    BY <1>1, <2>3 DEF UpTo
  <2> QED
    BY <2>2, <2>4
<1> QED
  BY <1>1, <1>2

\* A way between two nodes of a component is as long inside it.
LEMMA WalkStaysInside ==
  ASSUME NEW R, IsFiniteSet(Targets(R)), NEW scc \in Sccs(R), NEW a \in scc, NEW b \in scc,
         NEW k \in Nat, b \in ReachWalk({a}, R)[k]
  PROVE  b \in ReachWalk({a}, Within(R, scc))[k]
<1> DEFINE W == Within(R, scc)
           outer == ReachWalk({a}, R)
           inner == ReachWalk({a}, W)
           S == {j \in Nat : \A v : v \in outer[j] /\ Leads(R, v, b) => v \in inner[j]}
<1>1. /\ outer[0] = {a} /\ inner[0] = {a}
      /\ \A j \in Nat : outer[j + 1] = outer[j] \cup Onward(R, outer[j])
      /\ \A j \in Nat : inner[j + 1] = inner[j] \cup Onward(W, inner[j])
  <2>1. outer[0] = {a} /\ \A j \in Nat : outer[j + 1] = outer[j] \cup Onward(R, outer[j])
    BY ReachSteps
  <2>2. inner[0] = {a} /\ \A j \in Nat : inner[j + 1] = inner[j] \cup Onward(W, inner[j])
    <3> HIDE DEF W
    <3> QED
      BY ReachSteps
  <2> QED
    BY <2>1, <2>2
<1>2. \A j \in Nat : \A v \in outer[j] : Leads(R, a, v)
  <2>1. \A j \in Nat : ReachInv(<<{a}, R>>, j, outer[j])
    BY ReachWalks, ReachStarts, ReachGoesOn, Reach!InvariantOfRounds
  <2>2. {a} \subseteq ReachedFrom({a}, R) /\ IsClosed(R, ReachedFrom({a}, R))
    BY ReachedIsLeast
  <2> HIDE DEF outer
  <2> QED
    BY <2>1, <2>2 DEF ReachInv, Leads
<1> HIDE DEF outer, inner
<1>3. 0 \in S
  BY <1>1
<1>4. ASSUME NEW j \in Nat, j \in S PROVE j + 1 \in S
  <2> SUFFICES ASSUME NEW v, v \in outer[j + 1], Leads(R, v, b) PROVE v \in inner[j + 1]
    OBVIOUS
  <2>1. CASE v \in outer[j]
    BY <1>1, <1>4, <2>1
  <2>2. CASE v \in Onward(R, outer[j])
    <3>1. PICK q \in R : q[1] \in outer[j] /\ q[2] = v
      BY <2>2 DEF Onward
    <3>2. Leads(R, q[1], b) /\ Leads(R, a, q[1]) /\ Leads(R, a, v)
      BY <1>2, <3>1, LeadsOnward
    <3>3. q[1] \in inner[j]
      BY <1>4, <3>1, <3>2
    <3>4. q[1] \in scc /\ v \in scc
      BY <3>2, BetweenIsInside
    <3>5. q \in W
      BY <3>1, <3>4 DEF Within
    <3>6. v \in Onward(W, inner[j])
      BY <3>1, <3>3, <3>5 DEF Onward
    <3> QED
      BY <1>1, <3>6
  <2> QED
    BY <1>1, <2>1, <2>2
<1>5. \A j \in Nat : j \in S => j + 1 \in S
  BY <1>4
<1> HIDE DEF S
<1>6. k \in S
  BY <1>3, <1>5, Reach!AllNaturals
<1> QED
  BY <1>6, LeadsOnward DEF S, outer, inner, W

IsSimple(c) == \A i, j \in 1 .. Len(c) : c[i] = c[j] => i = j

LEMMA PathIsShortest ==
  ASSUME NEW R, IsEdgeSet(R), NEW scc \in Sccs(R), NEW p \in Within(R, scc),
         NEW path, path = PathThrough(R, scc, p)
  PROVE  /\ IsSimple(path)
         /\ p[1] # p[2] => Len(path) > 1 /\ p[1] \notin ReachWalk({p[2]}, R)[Len(path) - 2]
<1> DEFINE W == Within(R, scc)
           level == Levels(W, p[2])
           n == Cardinality(Targets(W)) + 1
<1>1. /\ IsEdgeSet(W) /\ IsPath(W, path, p[2], p[1])
      /\ \A i \in 1 .. Len(path) : path[i] \in level[i]
      /\ Len(path) <= n
  BY PathsAreWithin
<1>2. AreLevels(W, p[2], level, n) /\ n \in Nat
  BY <1>1, LevelsReach DEF IsEdgeSet
<1> HIDE DEF level, n, W
<1>3. Len(path) \in Nat \ {0} /\ path[1] = p[2] /\ path[Len(path)] = p[1]
  BY <1>1 DEF IsPath
<1>4. ASSUME NEW i \in 1 .. Len(path), NEW j \in 1 .. i - 1 PROVE path[i] # path[j]
  <2>1. i \in 1 .. n /\ j \in 1 .. Len(path)
    BY <1>1, <1>2, <1>3
  <2>2. path[i] \notin level[j]
    BY <1>1, <1>2, <2>1, LevelsAreNew
  <2> QED
    BY <1>1, <2>1, <2>2
<1>5. IsSimple(path)
  BY <1>3, <1>4 DEF IsSimple
<1>6. ASSUME p[1] # p[2] PROVE Len(path) > 1 /\ p[1] \notin ReachWalk({p[2]}, R)[Len(path) - 2]
  <2>1. Len(path) > 1
    BY <1>3, <1>6
  <2>2. Len(path) - 2 \in Nat /\ (Len(path) - 2) + 1 < Len(path) /\ Len(path) \in 1 .. n
    BY <1>1, <1>2, <1>3, <2>1
  <2>3. p[1] \in level[Len(path)]
    BY <1>1, <1>3
  <2>4. p[1] \notin ReachWalk({p[2]}, W)[Len(path) - 2]
    BY <1>2, <2>2, <2>3, LevelsAreNew
  <2>5. p[1] \in scc /\ p[2] \in scc
    BY DEF Within
  <2> QED
    BY <2>1, <2>2, <2>4, <2>5, WalkStaysInside DEF IsEdgeSet, W
<1> QED
  BY <1>5, <1>6


IsTuple(c) == c = [i \in 1 .. Len(c) |-> c[i]]

LEMMA NodesOfEdges ==
  ASSUME NEW c, IsCycle(c)
  PROVE  Range(c) = {e[1] : e \in CycleEdges(c)}
<1>1. DOMAIN c = 1 .. Len(c)
  BY DEF IsCycle
<1>2. CycleEdges(c) = {<<c[i], c[Around(Len(c), i)]>> : i \in 1 .. Len(c)}
  BY <1>1, EdgesAround
<1>3. Range(c) = {c[i] : i \in 1 .. Len(c)}
  BY <1>1 DEF Range
<1> DEFINE edge(i) == <<c[i], c[Around(Len(c), i)]>>
<1>4. \A i : edge(i)[1] = c[i]
  OBVIOUS
<1>5. CycleEdges(c) = {edge(i) : i \in 1 .. Len(c)}
  BY <1>2
<1> HIDE DEF edge
<1> QED
  BY <1>3, <1>4, <1>5

LEMMA SimpleCounts ==
  ASSUME NEW c, IsCycle(c), IsTuple(c), IsSimple(c)
  PROVE  Cardinality(Range(c)) = Len(c)
<1> DEFINE n == Len(c)
<1>1. n \in Nat /\ DOMAIN c = 1 .. n
  BY DEF IsCycle
<1>2. Range(c) = {c[i] : i \in 1 .. n}
  BY <1>1 DEF Range
<1>3. \A i, j \in 1 .. n : c[i] = c[j] => i = j
  BY DEF IsSimple
<1> HIDE DEF n
<1>4. c \in [1 .. n -> Range(c)]
  BY <1>1, <1>2 DEF n, IsTuple
<1>5. c \in Bijection(1 .. n, Range(c))
  BY <1>2, <1>3, <1>4 DEF Bijection, Injection, Surjection, IsInjective
<1>6. ExistsBijection(1 .. n, Range(c))
  BY <1>5 DEF ExistsBijection
<1> QED
  BY <1>1, <1>6, FS_CountingElements DEF n

LEMMA SameEdgesSameCycle ==
  ASSUME NEW c, IsCycle(c), IsSimple(c), IsTuple(c), c[1] = Min(Range(c)),
         NEW d, IsCycle(d), IsSimple(d), IsTuple(d), d[1] = Min(Range(d)),
         CycleEdges(c) = CycleEdges(d)
  PROVE  c = d
<1>2. Range(c) = Range(d)
  BY NodesOfEdges
<1>3. Len(c) = Len(d)
  BY <1>2, SimpleCounts
<1> DEFINE n == Len(c)
           S == {k \in Nat : k + 1 \in 1 .. n => c[k + 1] = d[k + 1]}
<1>4. n \in Nat \ {0} /\ n = Len(d)
  BY <1>3 DEF IsCycle
<1> HIDE DEF n
<1>5. /\ CycleEdges(c) = {<<c[i], c[Around(n, i)]>> : i \in 1 .. n}
      /\ CycleEdges(d) = {<<d[i], d[Around(n, i)]>> : i \in 1 .. n}
  BY <1>4, EdgesAround DEF IsCycle, n
<1>6. 0 \in S
  BY <1>2
<1>7. ASSUME NEW k \in Nat, k \in S, k + 2 \in 1 .. n PROVE c[k + 2] = d[k + 2]
  <2>1. k + 1 \in 1 .. n /\ Around(n, k + 1) = k + 2
    BY <1>4, <1>7 DEF Around
  <2>2. c[k + 1] = d[k + 1]
    BY <1>7, <2>1
  <2>3. <<c[k + 1], c[k + 2]>> \in CycleEdges(d)
    BY <1>5, <2>1
  <2> DEFINE edge(j) == <<d[j], d[Around(n, j)]>>
  <2>4. PICK j \in 1 .. n : c[k + 1] = d[j] /\ c[k + 2] = d[Around(n, j)]
    <3>1. PICK j \in 1 .. n : <<c[k + 1], c[k + 2]>> = edge(j)
      <4> HIDE DEF edge
      <4> QED
        BY <1>5, <2>3 DEF edge
    <3> QED
      BY <3>1
  <2>5. j = k + 1
    BY <1>4, <2>1, <2>2, <2>4 DEF IsSimple
  <2> QED
    BY <2>1, <2>4, <2>5
<1>8. \A k \in Nat : k \in S => k + 1 \in S
  BY <1>7
<1> HIDE DEF S
<1>9. Nat \subseteq S
  BY <1>6, <1>8, Reach!AllNaturals
<1>10. ASSUME NEW i \in 1 .. n PROVE c[i] = d[i]
  <2>1. i - 1 \in S /\ (i - 1) + 1 = i
    BY <1>9
  <2> QED
    BY <2>1 DEF S
<1> QED
  BY <1>4, <1>10 DEF n, IsTuple

(***************************************************************************)
(* Every edge on a cycle has a representative that is as short as any cycle *)
(* through it; a representative passes each of its nodes once, and no two   *)
(* have the same edges (bfs_parents, reconstruct, canonical_rotation).      *)
(***************************************************************************)
THEOREM RepresentativesAreShort ==
  ASSUME NEW R, IsEdgeSet(R)
  PROVE  /\ \A c \in RepresentativeCycles(R) : Cardinality(Range(c)) = Len(c)
         /\ \A c, d \in RepresentativeCycles(R) : CycleEdges(c) = CycleEdges(d) => c = d
         /\ \A p \in R : p[1] # p[2] /\ Leads(R, p[2], p[1]) =>
              \E c \in RepresentativeCycles(R) :
                /\ p \in CycleEdges(c)
                /\ Len(c) > 1 /\ p[1] \notin ReachWalk({p[2]}, R)[Len(c) - 2]
<1>1. ASSUME NEW scc \in Sccs(R), NEW p \in Within(R, scc), NEW path, path = PathThrough(R, scc, p),
             NEW c, c = Representative(R, scc, p)
      PROVE  /\ IsCycle(c) /\ IsSimple(c) /\ IsTuple(c) /\ c[1] = Min(Range(c))
             /\ p \in CycleEdges(c) /\ Len(c) = Len(path)
  <2> DEFINE W == Within(R, scc)
  <2>1. IsEdgeSet(W) /\ IsPath(W, path, p[2], p[1])
    BY <1>1, PathsAreWithin
  <2>2. IsCycle(path)
    BY <2>1, PathClosesCycle DEF IsEdgeSet
  <2>3. IsSimple(path)
    BY <1>1, PathIsShortest
  <2>4. c = CanonicalRotation(path)
    BY <1>1 DEF Representative
  <2>5. IsCycle(c) /\ Len(c) = Len(path) /\ c[1] = Min(Range(c)) /\ IsSimple(c)
    BY <2>2, <2>3, <2>4, RotationKeepsEdges DEF IsSimple
  <2>6. IsTuple(c)
    BY <2>2, <2>4, <2>5, RotationIsCycle DEF IsTuple
  <2> QED
    BY <1>1, <2>5, <2>6, RepresentativeIsCycle
<1>2. ASSUME NEW c \in RepresentativeCycles(R)
      PROVE  IsCycle(c) /\ IsSimple(c) /\ IsTuple(c) /\ c[1] = Min(Range(c))
  <2>1. PICK scc \in Sccs(R) : \E p \in Within(R, scc) : c = Representative(R, scc, p)
    BY RepresentativesAre
  <2> QED
    BY <1>1, <2>1
<1>3. \A c \in RepresentativeCycles(R) : Cardinality(Range(c)) = Len(c)
  BY <1>2, SimpleCounts
<1>4. \A c, d \in RepresentativeCycles(R) : CycleEdges(c) = CycleEdges(d) => c = d
  BY <1>2, SameEdgesSameCycle
<1>5. ASSUME NEW p \in R, p[1] # p[2], Leads(R, p[2], p[1])
      PROVE  \E c \in RepresentativeCycles(R) :
               /\ p \in CycleEdges(c)
               /\ Len(c) > 1 /\ p[1] \notin ReachWalk({p[2]}, R)[Len(c) - 2]
  <2>1. PICK scc \in Sccs(R) : p \in Within(R, scc)
    BY <1>5, CircularIsWithin DEF IsEdgeSet
  <2>2. Representative(R, scc, p) \in RepresentativeCycles(R)
    BY <2>1, RepresentativesAre
  <2>3. /\ p \in CycleEdges(Representative(R, scc, p))
        /\ Len(Representative(R, scc, p)) = Len(PathThrough(R, scc, p))
    BY <1>1, <2>1
  <2> QED
    BY <1>5, <2>1, <2>2, <2>3, PathIsShortest
<1> QED
  BY <1>3, <1>4, <1>5

-----------------------------------------------------------------------------
(***************************************************************************)
(* Keys: what they order, and the lists that are sorted by them.            *)
(***************************************************************************)
IsOrder(B, S) ==
  /\ \A x \in S : <<x, x>> \notin B
  /\ \A x, y, z \in S : <<x, y>> \in B /\ <<y, z>> \in B => <<x, z>> \in B
  /\ \A x, y \in S : x # y => <<x, y>> \in B \/ <<y, x>> \in B

BeforeIn(B, S, x) == {y \in S : <<y, x>> \in B}

LEMMA RanksAreDistinct ==
  ASSUME NEW S, IsFiniteSet(S), NEW B, IsOrder(B, S)
  PROVE  \A i \in 1 .. Cardinality(S) : \E x \in S : Cardinality(BeforeIn(B, S, x)) = i - 1
<1> DEFINE n == Cardinality(S)
           rank == [x \in S |-> Cardinality(BeforeIn(B, S, x)) + 1]
<1>1. n \in Nat
  BY FS_CardinalityType
<1>2. ASSUME NEW x \in S PROVE /\ IsFiniteSet(BeforeIn(B, S, x)) /\ Cardinality(BeforeIn(B, S, x)) \in Nat
                               /\ Cardinality(BeforeIn(B, S, x)) < n
  <2> DEFINE T == BeforeIn(B, S, x)
  <2>1. T \in SUBSET S /\ T # S
    BY DEF BeforeIn, IsOrder
  <2> HIDE DEF T
  <2>2. IsFiniteSet(T) /\ Cardinality(T) <= n /\ Cardinality(T) # n
    BY <2>1, FS_Subset
  <2>3. Cardinality(T) \in Nat
    BY <2>2, FS_CardinalityType
  <2>4. Cardinality(T) < n
    BY <1>1, <2>2, <2>3
  <2> QED
    BY <2>2, <2>3, <2>4 DEF T
<1>3. ASSUME NEW x \in S, NEW y \in S, <<x, y>> \in B
      PROVE  Cardinality(BeforeIn(B, S, x)) # Cardinality(BeforeIn(B, S, y))
  <2>1. BeforeIn(B, S, x) \in SUBSET BeforeIn(B, S, y) /\ x \in BeforeIn(B, S, y) /\ x \notin BeforeIn(B, S, x)
    BY <1>3 DEF BeforeIn, IsOrder
  <2> QED
    BY <1>2, <2>1, FS_Subset
<1>4. rank \in Injection(S, 1 .. n)
  <2>1. \A x \in S : rank[x] \in 1 .. n
    BY <1>1, <1>2
  <2>2. ASSUME NEW x \in S, NEW y \in S, x # y PROVE rank[x] # rank[y]
    <3>1. Cardinality(BeforeIn(B, S, x)) # Cardinality(BeforeIn(B, S, y))
      BY <1>3, <2>2 DEF IsOrder
    <3>2. Cardinality(BeforeIn(B, S, x)) \in Nat /\ Cardinality(BeforeIn(B, S, y)) \in Nat
      BY <1>2
    <3> QED
      BY <3>1, <3>2
  <2>3. rank \in [S -> 1 .. n]
    BY <2>1
  <2> HIDE DEF rank
  <2> QED
    BY <2>2, <2>3 DEF Injection, IsInjective
<1>5. rank \in Surjection(S, 1 .. n)
  <2>1. IsFiniteSet(1 .. n) /\ Cardinality(1 .. n) = n
    BY <1>1, FS_Interval
  <2> HIDE DEF rank
  <2> QED
    BY <1>4, <2>1, FS_Injection
<1>6. ASSUME NEW i \in 1 .. n PROVE \E x \in S : Cardinality(BeforeIn(B, S, x)) = i - 1
  <2>1. PICK x \in S : rank[x] = i
    BY <1>5 DEF Surjection
  <2>2. Cardinality(BeforeIn(B, S, x)) + 1 = i /\ Cardinality(BeforeIn(B, S, x)) \in Nat
    BY <1>2, <2>1
  <2>3. Cardinality(BeforeIn(B, S, x)) = i - 1
    BY <2>2
  <2> QED
    BY <2>3
<1> QED
  BY <1>6

LEMMA FirstIsFound ==
  ASSUME NEW S, IsFiniteSet(S), S # {}, NEW B, IsOrder(B, S)
  PROVE  \E x \in S : \A y \in S \ {x} : <<x, y>> \in B
<1>1. Cardinality(S) \in Nat /\ Cardinality(S) # 0
  BY FS_CardinalityType, FS_EmptySet
<1>2. 1 \in 1 .. Cardinality(S) /\ 1 - 1 = 0
  BY <1>1
<1>3. PICK x \in S : Cardinality(BeforeIn(B, S, x)) = 0
  BY <1>2, RanksAreDistinct
<1>4. BeforeIn(B, S, x) = {}
  <2>1. IsFiniteSet(BeforeIn(B, S, x))
    BY FS_Subset DEF BeforeIn
  <2> QED
    BY <1>3, <2>1, FS_EmptySet
<1> QED
  BY <1>4 DEF BeforeIn, IsOrder

\* The order that keys of n numbers give.
ByKey(S, key) == {q \in S \X S : LexLess(key[q[1]], key[q[2]])}
AreKeys(S, key, n) ==
  /\ n \in Nat
  /\ \A x \in S : DOMAIN key[x] = 1 .. n /\ \A i \in 1 .. n : key[x][i] \in Int
  /\ \A x, y \in S : x # y => \E i \in 1 .. n : key[x][i] # key[y][i]

LEMMA KeysOrder ==
  ASSUME NEW S, NEW key, NEW n, AreKeys(S, key, n)
  PROVE  IsOrder(ByKey(S, key), S)
<1> DEFINE Less(x, y) == \E i \in 1 .. n : /\ key[x][i] < key[y][i]
                                           /\ \A j \in 1 .. (i - 1) : key[x][j] = key[y][j]
<1>1. n \in Nat /\ \A x \in S : DOMAIN key[x] = 1 .. n /\ \A i \in 1 .. n : key[x][i] \in Int
  BY DEF AreKeys
<1>2. \A x, y \in S : <<x, y>> \in ByKey(S, key) <=> Less(x, y)
  <2> SUFFICES ASSUME NEW x \in S, NEW y \in S PROVE LexLess(key[x], key[y]) <=> Less(x, y)
    BY DEF ByKey
  <2>1. DOMAIN key[x] \cap DOMAIN key[y] = 1 .. n
    BY <1>1
  <2> QED
    BY <2>1 DEF LexLess
<1>3. \A x \in S : ~Less(x, x)
  BY <1>1
<1>4. ASSUME NEW x \in S, NEW y \in S, NEW z \in S, Less(x, y), Less(y, z) PROVE Less(x, z)
  <2>1. PICK i \in 1 .. n : key[x][i] < key[y][i] /\ \A j \in 1 .. (i - 1) : key[x][j] = key[y][j]
    BY <1>4
  <2>2. PICK k \in 1 .. n : key[y][k] < key[z][k] /\ \A j \in 1 .. (k - 1) : key[y][j] = key[z][j]
    BY <1>4
  <2>3. /\ i \in Nat /\ k \in Nat /\ 1 <= i /\ 1 <= k
        /\ key[x][i] \in Int /\ key[y][i] \in Int /\ key[z][i] \in Int
        /\ key[x][k] \in Int /\ key[y][k] \in Int /\ key[z][k] \in Int
    BY <1>1
  <2>4. CASE i < k
    <3>1. i \in 1 .. (k - 1) /\ \A j \in 1 .. (i - 1) : j \in 1 .. (k - 1)
      BY <2>3, <2>4
    <3>2. key[x][i] < key[z][i] /\ \A j \in 1 .. (i - 1) : key[x][j] = key[z][j]
      BY <2>1, <2>2, <2>3, <3>1
    <3> QED
      BY <3>2
  <2>5. CASE k < i
    <3>1. k \in 1 .. (i - 1) /\ \A j \in 1 .. (k - 1) : j \in 1 .. (i - 1)
      BY <2>3, <2>5
    <3>2. key[x][k] < key[z][k] /\ \A j \in 1 .. (k - 1) : key[x][j] = key[z][j]
      BY <2>1, <2>2, <2>3, <3>1
    <3> QED
      BY <3>2
  <2>6. CASE i = k
    <3>1. key[x][i] < key[z][i] /\ \A j \in 1 .. (i - 1) : key[x][j] = key[z][j]
      BY <2>1, <2>2, <2>3, <2>6
    <3> QED
      BY <3>1
  <2> QED
    BY <2>3, <2>4, <2>5, <2>6
<1>5. ASSUME NEW x \in S, NEW y \in S, x # y PROVE Less(x, y) \/ Less(y, x)
  <2> DEFINE D == {i \in 1 .. n : key[x][i] # key[y][i]}
  <2>1. D \subseteq Nat /\ D # {}
    BY <1>5 DEF AreKeys
  <2>2. PICK i \in D : \A j \in D : i <= j
    BY <2>1, Reach!LeastNatural
  <2>3. \A j \in 1 .. (i - 1) : j \in 1 .. n /\ j \notin D
    BY <1>1, <2>2
  <2>4. key[x][i] \in Int /\ key[y][i] \in Int /\ key[x][i] # key[y][i] /\ i \in 1 .. n
    BY <1>1, <2>2
  <2>5. \A j \in 1 .. (i - 1) : key[x][j] = key[y][j]
    BY <2>3
  <2> HIDE DEF D
  <2>6. key[x][i] < key[y][i] \/ key[y][i] < key[x][i]
    BY <2>4
  <2> QED
    BY <2>4, <2>5, <2>6
<1> HIDE DEF Less
<1> QED
  BY <1>2, <1>3, <1>4, <1>5 DEF IsOrder

Keyed(S, key) == {<<key[x], x>> : x \in S}

LEMMA SortedLists ==
  ASSUME NEW S, IsFiniteSet(S), NEW key, NEW n, AreKeys(S, key, n)
  PROVE  /\ Range(SortedBy(Keyed(S, key))) = S
         /\ DOMAIN SortedBy(Keyed(S, key)) = 1 .. Cardinality(S)
         /\ Len(SortedBy(Keyed(S, key))) = Cardinality(S) /\ Cardinality(S) \in Nat
         /\ \A i, j \in 1 .. Cardinality(S) :
              i < j => LexLess(key[SortedBy(Keyed(S, key))[i]], key[SortedBy(Keyed(S, key))[j]])
<1> DEFINE T == Keyed(S, key)
           m == Cardinality(T)
           first == [p \in T |-> p[1]]
           B == ByKey(T, first)
           before(p) == {q \in T : LexLess(q[1], p[1])}
           chosen == [i \in 1 .. m |-> CHOOSE p \in T : Cardinality(before(p)) = i - 1]
           sorted == SortedBy(T)
<1>1. /\ \A p \in T : p[2] \in S /\ p[1] = key[p[2]] /\ p = <<key[p[2]], p[2]>>
      /\ \A x \in S : <<key[x], x>> \in T
  BY DEF Keyed
<1>2. IsFiniteSet(T) /\ m = Cardinality(S) /\ m \in Nat
  <2> DEFINE pair == [x \in S |-> <<key[x], x>>]
  <2>1. pair \in Surjection(S, T)
    BY DEF Surjection, Keyed
  <2>2. pair \in Injection(S, T)
    BY DEF Injection, IsInjective, Keyed
  <2> HIDE DEF pair, T
  <2>3. IsFiniteSet(T) /\ Cardinality(T) = Cardinality(S)
    BY <2>1, <2>2, FS_Surjection
  <2> QED
    BY <2>3, FS_CardinalityType
<1>3. AreKeys(T, first, n)
  <2>1. \A p \in T : first[p] = key[p[2]]
    BY <1>1
  <2>2. \A p, q \in T : p # q => p[2] # q[2]
    BY <1>1
  <2> HIDE DEF first, T
  <2> QED
    BY <1>1, <2>1, <2>2 DEF AreKeys
<1>4. IsOrder(B, T)
  BY <1>3, KeysOrder
<1>5. ASSUME NEW p \in T PROVE BeforeIn(B, T, p) = before(p)
  BY DEF BeforeIn, ByKey
<1> HIDE DEF T, first, B
<1>6. \A i \in 1 .. m : \E p \in T : Cardinality(before(p)) = i - 1
  <2>1. \A i \in 1 .. m : \E p \in T : Cardinality(BeforeIn(B, T, p)) = i - 1
    BY <1>2, <1>4, RanksAreDistinct
  <2> HIDE DEF m, before
  <2> QED
    BY <1>5, <2>1
<1>7. sorted = [i \in 1 .. m |-> (CHOOSE p \in T : Cardinality(before(p)) = i - 1)[2]]
  BY DEF SortedBy
<1> HIDE DEF before, sorted, m
<1>8. \A i \in 1 .. m : chosen[i] \in T /\ Cardinality(before(chosen[i])) = i - 1
  BY <1>6
<1>9. DOMAIN sorted = 1 .. m /\ \A i \in 1 .. m : sorted[i] = chosen[i][2]
  BY <1>7
<1>10. \A i, j \in 1 .. m : chosen[i] = chosen[j] => i = j
  <2> SUFFICES ASSUME NEW i \in 1 .. m, NEW j \in 1 .. m, chosen[i] = chosen[j] PROVE i = j
    OBVIOUS
  <2> HIDE DEF chosen
  <2>1. i - 1 = j - 1
    BY <1>8
  <2> QED
    BY <2>1
<1>11. chosen \in Injection(1 .. m, T)
  <2>1. chosen \in [1 .. m -> T]
    BY <1>8
  <2> HIDE DEF chosen
  <2> QED
    BY <1>10, <2>1 DEF Injection, IsInjective
<1> HIDE DEF chosen
<1>12. chosen \in Surjection(1 .. m, T)
  <2>1. Cardinality(1 .. m) = Cardinality(T)
    BY <1>2, FS_Interval DEF m
  <2> QED
    BY <1>2, <1>11, <2>1, FS_Injection
<1>13. Range(sorted) = S
  <2>1. \A i \in 1 .. m : sorted[i] \in S
    BY <1>1, <1>8, <1>9
  <2>2. ASSUME NEW x \in S PROVE \E i \in 1 .. m : sorted[i] = x
    <3>1. PICK i \in 1 .. m : chosen[i] = <<key[x], x>>
      BY <1>1, <1>12 DEF Surjection
    <3> QED
      BY <1>9, <3>1
  <2> QED
    BY <1>9, <2>1, <2>2 DEF Range
<1>14. Len(sorted) = m
  <2>1. \A i \in 1 .. m : sorted[i] \in S
    BY <1>1, <1>8, <1>9
  <2>2. sorted \in [1 .. m -> S]
    BY <1>7, <1>9, <2>1
  <2>3. m \in Nat
    BY <1>2 DEF m
  <2> QED
    BY <1>9, <2>2, <2>3
<1>15. ASSUME NEW i \in 1 .. m, NEW j \in 1 .. m, i < j PROVE LexLess(key[sorted[i]], key[sorted[j]])
  <2> DEFINE a == chosen[i]
             b == chosen[j]
  <2>1. /\ a \in T /\ Cardinality(before(a)) = i - 1
        /\ b \in T /\ Cardinality(before(b)) = j - 1 /\ a # b
    BY <1>8, <1>10, <1>15
  <2>2. a[1] = key[sorted[i]] /\ b[1] = key[sorted[j]]
    BY <1>1, <1>9, <2>1
  <2> HIDE DEF a, b
  <2>3. <<a, b>> \in B
    <3>1. SUFFICES ASSUME <<b, a>> \in B PROVE FALSE
      BY <1>4, <2>1 DEF IsOrder
    <3>2. before(b) \subseteq before(a)
      <4>1. BeforeIn(B, T, b) \subseteq BeforeIn(B, T, a)
        BY <1>4, <2>1, <3>1 DEF BeforeIn, IsOrder
      <4> QED
        BY <1>5, <2>1, <4>1
    <3>3. IsFiniteSet(before(a))
      <4>1. before(a) \in SUBSET T
        BY DEF before
      <4> QED
        BY <1>2, <4>1, FS_Subset
    <3>4. Cardinality(before(b)) <= Cardinality(before(a))
      BY <3>2, <3>3, FS_Subset
    <3> QED
      BY <1>15, <2>1, <3>4
  <2>4. LexLess(a[1], b[1])
    BY <2>1, <2>3 DEF B, ByKey, first
  <2> QED
    BY <2>2, <2>4
<1> QED
  BY <1>2, <1>9, <1>13, <1>14, <1>15 DEF sorted, m, T

-----------------------------------------------------------------------------
(***************************************************************************)
(* The greedy cover: each pick breaks a cycle that is still open, so that   *)
(* as many rounds as there are edges leave none.                            *)
(***************************************************************************)
IsCoverage(coverage) ==
  /\ DOMAIN coverage \subseteq Nat \X Nat /\ IsFiniteSet(DOMAIN coverage)
  /\ \A e \in DOMAIN coverage : IsFiniteSet(coverage[e]) /\ Symbols(e) \in Nat

LEMMA BiasIsNumber == \A e : RemovalBias(e) \in Nat /\ RemovalBias(e) <= 2
<1> SUFFICES ASSUME NEW e PROVE RemovalBias(e) \in Nat /\ RemovalBias(e) <= 2
  OBVIOUS
<1>1. Bias.structural = 0 /\ Bias.neutral = 1 /\ Bias.preferred = 2
  BY DEF Bias
<1> QED
  BY <1>1 DEF RemovalBias

\* What Better compares, but for what the two edges cover together.
EdgeKey(coverage, g) == <<0 - Cardinality(coverage[g]), 2 - RemovalBias(g), Symbols(g), g[1], g[2]>>

LEMMA EdgeKeys ==
  ASSUME NEW coverage, IsCoverage(coverage), NEW key, key = [g \in DOMAIN coverage |-> EdgeKey(coverage, g)]
  PROVE  AreKeys(DOMAIN coverage, key, 5)
<1> DEFINE D == DOMAIN coverage
<1>1. ASSUME NEW g \in D
      PROVE  /\ DOMAIN key[g] = 1 .. 5
             /\ key[g][1] = 0 - Cardinality(coverage[g]) /\ key[g][2] = 2 - RemovalBias(g)
             /\ key[g][3] = Symbols(g) /\ key[g][4] = g[1] /\ key[g][5] = g[2]
  BY DEF EdgeKey
<1>2. ASSUME NEW g \in D PROVE Cardinality(coverage[g]) \in Nat /\ Symbols(g) \in Nat /\ g \in Nat \X Nat
  BY FS_CardinalityType DEF IsCoverage
<1>3. ASSUME NEW g \in D PROVE \A i \in 1 .. 5 : key[g][i] \in Int
  <2>1. g[1] \in Int /\ g[2] \in Int /\ 0 - Cardinality(coverage[g]) \in Int /\ 2 - RemovalBias(g) \in Int /\ Symbols(g) \in Int
    BY <1>2, BiasIsNumber
  <2>2. \A i \in 1 .. 5 : i = 1 \/ i = 2 \/ i = 3 \/ i = 4 \/ i = 5
    OBVIOUS
  <2> QED
    BY <1>1, <2>1, <2>2
<1>4. ASSUME NEW g \in D, NEW h \in D, g # h PROVE \E i \in 1 .. 5 : key[g][i] # key[h][i]
  <2>1. g[1] # h[1] \/ g[2] # h[2]
    <3>1. g = <<g[1], g[2]>> /\ h = <<h[1], h[2]>>
      BY <1>2
    <3> QED
      BY <1>4, <3>1
  <2>2. 4 \in 1 .. 5 /\ 5 \in 1 .. 5
    OBVIOUS
  <2> QED
    BY <1>1, <2>1, <2>2
<1> QED
  BY <1>1, <1>3, <1>4 DEF AreKeys

\* The comparison of two edges is that of their keys.
LEMMA BetterByKey ==
  ASSUME NEW coverage, IsCoverage(coverage), NEW e \in DOMAIN coverage, NEW f \in DOMAIN coverage
  PROVE  Better(coverage, e, f) <=> LexLess(EdgeKey(coverage, e), EdgeKey(coverage, f))
<1> DEFINE n == Cardinality(coverage[f] \cup coverage[e])
           long(g) == <<n - Cardinality(coverage[g]), 2 - RemovalBias(g), Symbols(g), g[1], g[2]>>
           short(g) == EdgeKey(coverage, g)
<1>1. n \in Nat /\ Cardinality(coverage[e]) \in Nat /\ Cardinality(coverage[f]) \in Nat
  BY FS_Union, FS_CardinalityType DEF IsCoverage
<1>2. Better(coverage, e, f) <=> LexLess(long(e), long(f))
  BY DEF Better
<1>3. \A g : /\ DOMAIN long(g) = 1 .. 5 /\ DOMAIN short(g) = 1 .. 5
             /\ long(g)[1] = n - Cardinality(coverage[g]) /\ short(g)[1] = 0 - Cardinality(coverage[g])
             /\ long(g)[2] = short(g)[2] /\ long(g)[3] = short(g)[3]
             /\ long(g)[4] = short(g)[4] /\ long(g)[5] = short(g)[5]
  BY DEF EdgeKey
<1>4. \A g : \A i \in 2 .. 5 : long(g)[i] = short(g)[i]
  <2>1. \A i \in 2 .. 5 : i = 2 \/ i = 3 \/ i = 4 \/ i = 5
    OBVIOUS
  <2> HIDE DEF long, short
  <2> QED
    BY <1>3, <2>1
<1> HIDE DEF long, short, n
<1>5. \A i \in 1 .. 5 : /\ long(e)[i] < long(f)[i] <=> short(e)[i] < short(f)[i]
                        /\ long(e)[i] = long(f)[i] <=> short(e)[i] = short(f)[i]
  <2>1. \A i \in 1 .. 5 : i = 1 \/ i \in 2 .. 5
    OBVIOUS
  <2>2. /\ long(e)[1] < long(f)[1] <=> short(e)[1] < short(f)[1]
        /\ long(e)[1] = long(f)[1] <=> short(e)[1] = short(f)[1]
    BY <1>1, <1>3
  <2> QED
    BY <1>4, <2>1, <2>2
<1>6. LexLess(long(e), long(f)) <=> LexLess(short(e), short(f))
  <2>1. \A i \in 1 .. 5 : \A j \in 1 .. (i - 1) : j \in 1 .. 5
    OBVIOUS
  <2>2. DOMAIN long(e) \cap DOMAIN long(f) = 1 .. 5 /\ DOMAIN short(e) \cap DOMAIN short(f) = 1 .. 5
    BY <1>3
  <2> QED
    BY <1>5, <2>1, <2>2 DEF LexLess
<1> QED
  BY <1>2, <1>6 DEF short

Best(coverage) == CHOOSE e \in DOMAIN coverage : \A f \in DOMAIN coverage \ {e} : Better(coverage, e, f)

\* There is a best edge, and it is on an open cycle where any is.
LEMMA BestIsFound ==
  ASSUME NEW coverage, IsCoverage(coverage), NEW d \in DOMAIN coverage, coverage[d] # {}
  PROVE  Best(coverage) \in DOMAIN coverage /\ coverage[Best(coverage)] # {}
<1> DEFINE D == DOMAIN coverage
           key == [g \in D |-> EdgeKey(coverage, g)]
           best == Best(coverage)
<1>1. IsFiniteSet(D) /\ D # {}
  BY DEF IsCoverage
<1>2. IsOrder(ByKey(D, key), D)
  BY EdgeKeys, KeysOrder
<1>3. PICK x \in D : \A y \in D \ {x} : <<x, y>> \in ByKey(D, key)
  <2> HIDE DEF D, key
  <2> QED
    BY <1>1, <1>2, FirstIsFound
<1>4. \A y \in D \ {x} : Better(coverage, x, y)
  <2> SUFFICES ASSUME NEW y \in D \ {x} PROVE Better(coverage, x, y)
    OBVIOUS
  <2>1. LexLess(key[x], key[y])
    BY <1>3 DEF ByKey
  <2>2. LexLess(EdgeKey(coverage, x), EdgeKey(coverage, y))
    BY <2>1
  <2> QED
    BY <2>2, BetterByKey
<1>5. best \in D /\ \A f \in D \ {best} : Better(coverage, best, f)
  BY <1>3, <1>4 DEF Best
<1> HIDE DEF best
<1>6. ASSUME coverage[best] = {} PROVE FALSE
  <2>1. best # d
    BY <1>6
  <2>2. LexLess(EdgeKey(coverage, best), EdgeKey(coverage, d))
    BY <1>5, <2>1, BetterByKey
  <2>3. /\ DOMAIN EdgeKey(coverage, best) = 1 .. 5 /\ DOMAIN EdgeKey(coverage, d) = 1 .. 5
        /\ EdgeKey(coverage, best)[1] = 0 - Cardinality(coverage[best])
        /\ EdgeKey(coverage, d)[1] = 0 - Cardinality(coverage[d])
    BY DEF EdgeKey
  <2>4. Cardinality(coverage[best]) = 0
    BY <1>6, FS_EmptySet
  <2>5. Cardinality(coverage[d]) \in Nat /\ Cardinality(coverage[d]) # 0
    BY FS_EmptySet, FS_CardinalityType DEF IsCoverage
  <2>6. EdgeKey(coverage, d)[1] < EdgeKey(coverage, best)[1]
        /\ EdgeKey(coverage, d)[1] \in Int /\ EdgeKey(coverage, best)[1] \in Int
    BY <2>3, <2>4, <2>5
  <2>7. PICK i \in 1 .. 5 : /\ EdgeKey(coverage, best)[i] < EdgeKey(coverage, d)[i]
                            /\ \A j \in 1 .. (i - 1) : EdgeKey(coverage, best)[j] = EdgeKey(coverage, d)[j]
    BY <2>2, <2>3 DEF LexLess
  <2>8. i = 1 \/ 1 \in 1 .. (i - 1)
    OBVIOUS
  <2> QED
    BY <2>6, <2>7, <2>8
<1> QED
  BY <1>5, <1>6 DEF best

\* What the chosen edges leave open.
StillOpen(edgeCycles, chosen) ==
  [e \in DOMAIN edgeCycles |-> edgeCycles[e] \ UNION {edgeCycles[f] : f \in chosen}]
IsCovered(edgeCycles, chosen) == \A e \in DOMAIN edgeCycles : StillOpen(edgeCycles, chosen)[e] = {}

CoverFirst(edgeCycles) == {}
CoverRound(edgeCycles, k, chosen) ==
  IF IsCovered(edgeCycles, chosen) THEN chosen ELSE chosen \cup {Best(StillOpen(edgeCycles, chosen))}

\* Of any of the chosen edges one carries a cycle that none of the others does:
\* the one chosen last.
EachIsNeeded(edgeCycles, chosen) ==
  \A picks \in (SUBSET chosen) \ {{}} :
    \E e \in picks : \E c \in edgeCycles[e] : \A f \in picks \ {e} : c \notin edgeCycles[f]

\* A round that leaves a cycle open has chosen one more edge.
CoverInv(edgeCycles, k, chosen) ==
  IsCoverage(edgeCycles) =>
    /\ chosen \subseteq DOMAIN edgeCycles /\ IsFiniteSet(chosen)
    /\ EachIsNeeded(edgeCycles, chosen)
    /\ IsCovered(edgeCycles, chosen) \/ k <= Cardinality(chosen)

Cover == INSTANCE Rounds WITH First <- CoverFirst, Round <- CoverRound, Inv <- CoverInv

LEMMA CoverStarts == \A p : CoverInv(p, 0, CoverFirst(p))
<1>1. IsFiniteSet({}) /\ Cardinality({}) = 0
  BY FS_EmptySet
<1> QED
  BY <1>1 DEF CoverInv, CoverFirst, EachIsNeeded

LEMMA CoverGoesOn ==
  \A p : \A k \in Nat : \A v : CoverInv(p, k, v) => CoverInv(p, k + 1, CoverRound(p, k + 1, v))
<1> SUFFICES ASSUME NEW p, NEW k \in Nat, NEW v, CoverInv(p, k, v), IsCoverage(p)
             PROVE  CoverInv(p, k + 1, CoverRound(p, k + 1, v))
  BY DEF CoverInv
<1>1. /\ v \subseteq DOMAIN p /\ IsFiniteSet(v) /\ (IsCovered(p, v) \/ k <= Cardinality(v))
      /\ EachIsNeeded(p, v)
  BY DEF CoverInv
<1>2. CASE IsCovered(p, v)
  BY <1>1, <1>2 DEF CoverInv, CoverRound
<1>3. CASE ~IsCovered(p, v)
  <2> DEFINE open == StillOpen(p, v)
             best == Best(open)
  <2>1. DOMAIN open = DOMAIN p /\ \A e \in DOMAIN p : open[e] \in SUBSET p[e]
    BY DEF StillOpen
  <2>2. IsCoverage(open)
    <3> HIDE DEF open
    <3> QED
      BY <2>1, FS_Subset DEF IsCoverage
  <2>3. PICK d \in DOMAIN open : open[d] # {}
    BY <1>3, <2>1 DEF IsCovered
  <2>4. best \in DOMAIN p /\ open[best] # {}
    <3> HIDE DEF open
    <3> QED
      BY <2>1, <2>2, <2>3, BestIsFound
  <2>5. best \notin v
    <3> SUFFICES ASSUME best \in v PROVE FALSE
      OBVIOUS
    <3>1. open[best] = p[best] \ UNION {p[f] : f \in v}
      BY <2>4 DEF StillOpen
    <3> HIDE DEF best, open
    <3> QED
      BY <2>4, <3>1
  <2>6. CoverRound(p, k + 1, v) = v \cup {best}
    BY <1>3 DEF CoverRound
  <2> HIDE DEF best
  <2>7. IsFiniteSet(v \cup {best}) /\ Cardinality(v \cup {best}) = Cardinality(v) + 1 /\ Cardinality(v) \in Nat
    BY <1>1, <2>5, FS_AddElement, FS_CardinalityType
  <2>8. k + 1 <= Cardinality(v \cup {best})
    BY <1>1, <1>3, <2>7
  <2>9. v \cup {best} \subseteq DOMAIN p
    BY <1>1, <2>4
  <2>10. PICK c \in p[best] : \A f \in v : c \notin p[f]
    BY <2>4 DEF StillOpen
  <2> HIDE DEF open
  <2>11. ASSUME NEW picks \in (SUBSET (v \cup {best})) \ {{}}
         PROVE  \E e \in picks : \E x \in p[e] : \A f \in picks \ {e} : x \notin p[f]
    <3>1. CASE best \in picks
      BY <2>10, <3>1
    <3>2. CASE best \notin picks
      BY <1>1, <3>2 DEF EachIsNeeded
    <3> QED
      BY <3>1, <3>2
  <2>12. EachIsNeeded(p, v \cup {best})
    BY <2>11 DEF EachIsNeeded
  <2> QED
    BY <2>6, <2>7, <2>8, <2>9, <2>12 DEF CoverInv
<1> QED
  BY <1>2, <1>3

CoverWalk(edgeCycles) == CHOOSE f : Cover!IsComputed(f, edgeCycles)
CoverIsWalked == \A p : GreedyCover(p) = CoverWalk(p)[Cardinality(DOMAIN p)]

LEMMA CoverWalks == CoverIsWalked /\ \A p : Cover!IsComputed(CoverWalk(p), p)
<1>1. ASSUME NEW p PROVE GreedyCover(p) = CoverWalk(p)[Cardinality(DOMAIN p)]
  BY DEF GreedyCover, CoverWalk, Cover!IsComputed, CoverFirst, CoverRound, IsCovered, StillOpen, Best
<1>2. \A p : Cover!IsComputed(CoverWalk(p), p)
  BY Cover!ComputedExists DEF CoverWalk
<1> QED
  BY <1>1, <1>2 DEF CoverIsWalked

LEMMA GreedyCovers ==
  ASSUME NEW edgeCycles, IsCoverage(edgeCycles)
  PROVE  /\ GreedyCover(edgeCycles) \subseteq DOMAIN edgeCycles
         /\ \A e \in DOMAIN edgeCycles : \A c \in edgeCycles[e] :
              \E f \in GreedyCover(edgeCycles) : c \in edgeCycles[f]
         /\ EachIsNeeded(edgeCycles, GreedyCover(edgeCycles))
<1> DEFINE D == DOMAIN edgeCycles
           n == Cardinality(D)
           chosen == GreedyCover(edgeCycles)
<1>1. n \in Nat /\ IsFiniteSet(D)
  BY FS_CardinalityType DEF IsCoverage
<1>2. \A p, f : Cover!IsComputed(f, p) => \A k \in Nat : CoverInv(p, k, f[k])
  BY CoverStarts, CoverGoesOn, Cover!InvariantOfRounds
<1>3. CoverInv(edgeCycles, n, chosen)
  BY <1>1, <1>2, CoverWalks DEF CoverIsWalked
<1>4. /\ chosen \subseteq D /\ (IsCovered(edgeCycles, chosen) \/ n <= Cardinality(chosen))
      /\ EachIsNeeded(edgeCycles, chosen)
  BY <1>3 DEF CoverInv
<1>5. CASE n <= Cardinality(chosen)
  <2>1. chosen \in SUBSET D
    BY <1>4
  <2> HIDE DEF chosen, D
  <2>2. IsFiniteSet(chosen) /\ Cardinality(chosen) <= Cardinality(D)
        /\ (Cardinality(D) = Cardinality(chosen) => D = chosen)
    BY <1>1, <2>1, FS_Subset
  <2>3. D = chosen
    BY <1>1, <1>5, <2>2, FS_CardinalityType
  <2>4. \A e \in D : \A c \in edgeCycles[e] : \E f \in chosen : c \in edgeCycles[f]
    BY <2>3
  <2> QED
    BY <1>4, <2>4 DEF D, chosen
<1>6. CASE IsCovered(edgeCycles, chosen)
  <2> SUFFICES ASSUME NEW e \in D, NEW c \in edgeCycles[e] PROVE \E f \in chosen : c \in edgeCycles[f]
    BY <1>4
  <2>1. StillOpen(edgeCycles, chosen)[e] = edgeCycles[e] \ UNION {edgeCycles[f] : f \in chosen}
    BY DEF StillOpen
  <2>2. StillOpen(edgeCycles, chosen)[e] = {}
    BY <1>6 DEF IsCovered
  <2> QED
    BY <2>1, <2>2
<1> QED
  BY <1>4, <1>5, <1>6

\* One edge of every cycle, and none that is on no cycle.
IsNumbered(R) == R \subseteq Nat \X Nat /\ IsFiniteSet(R) /\ \A e \in R : Symbols(e) \in Nat

LEMMA CoverBreaksCycles ==
  ASSUME NEW R, IsNumbered(R), NEW cycles, IsFiniteSet(cycles),
         \A c \in cycles : CycleEdges(c) \subseteq R /\ CycleEdges(c) # {}
  PROVE  /\ IsCoverage(EdgeCycles(cycles))
         /\ GreedyCover(EdgeCycles(cycles)) \subseteq UNION {CycleEdges(c) : c \in cycles}
         /\ GreedyCover(EdgeCycles(cycles)) \subseteq R
         /\ \A c \in cycles : CycleEdges(c) \cap GreedyCover(EdgeCycles(cycles)) # {}
<1> DEFINE edgeCycles == EdgeCycles(cycles)
           D == UNION {CycleEdges(c) : c \in cycles}
<1>1. DOMAIN edgeCycles = D /\ \A e \in D : edgeCycles[e] = {c \in cycles : e \in CycleEdges(c)}
  BY DEF EdgeCycles
<1>2. D \in SUBSET R
  OBVIOUS
<1>3. IsCoverage(edgeCycles)
  <2> HIDE DEF edgeCycles, D
  <2>1. IsFiniteSet(D) /\ D \subseteq Nat \X Nat /\ \A e \in D : Symbols(e) \in Nat
    BY <1>2, FS_Subset DEF IsNumbered
  <2>2. \A e \in D : edgeCycles[e] \in SUBSET cycles
    BY <1>1
  <2> QED
    BY <1>1, <2>1, <2>2, FS_Subset DEF IsCoverage
<1>4. /\ GreedyCover(edgeCycles) \subseteq D
      /\ \A e \in D : \A c \in edgeCycles[e] : \E f \in GreedyCover(edgeCycles) : c \in edgeCycles[f]
  BY <1>1, <1>3, GreedyCovers
<1>5. ASSUME NEW c \in cycles PROVE CycleEdges(c) \cap GreedyCover(edgeCycles) # {}
  <2>1. PICK e : e \in CycleEdges(c)
    OBVIOUS
  <2>2. e \in D /\ c \in edgeCycles[e]
    BY <1>1, <2>1
  <2>3. PICK f \in GreedyCover(edgeCycles) : c \in edgeCycles[f]
    BY <1>4, <2>2
  <2>4. f \in CycleEdges(c)
    BY <1>1, <1>4, <2>3
  <2> QED
    BY <2>3, <2>4
<1>6. GreedyCover(edgeCycles) \subseteq R
  BY <1>2, <1>4
<1> QED
  BY <1>3, <1>4, <1>5, <1>6

\* Of any of them, one is on a cycle that avoids the others.
LEMMA CoverNeedsEach ==
  ASSUME NEW R, IsNumbered(R), NEW cycles, IsFiniteSet(cycles),
         \A c \in cycles : CycleEdges(c) \subseteq R /\ CycleEdges(c) # {},
         NEW picks \in (SUBSET GreedyCover(EdgeCycles(cycles))) \ {{}}
  PROVE  \E c \in cycles, e \in picks : CycleEdges(c) \cap picks = {e}
<1> DEFINE edgeCycles == EdgeCycles(cycles)
           D == UNION {CycleEdges(c) : c \in cycles}
<1>1. DOMAIN edgeCycles = D /\ \A e \in D : edgeCycles[e] = {c \in cycles : e \in CycleEdges(c)}
  BY DEF EdgeCycles
<1>2. IsCoverage(edgeCycles) /\ picks \subseteq D
  BY CoverBreaksCycles
<1> HIDE DEF edgeCycles, D
<1>3. EachIsNeeded(edgeCycles, GreedyCover(edgeCycles))
  BY <1>2, GreedyCovers
<1>4. PICK e \in picks : \E c \in edgeCycles[e] : \A f \in picks \ {e} : c \notin edgeCycles[f]
  BY <1>3 DEF EachIsNeeded, edgeCycles
<1>5. PICK c \in edgeCycles[e] : \A f \in picks \ {e} : c \notin edgeCycles[f]
  BY <1>4
<1>6. c \in cycles /\ \A f \in picks : f \in CycleEdges(c) <=> f = e
  BY <1>1, <1>2, <1>5
<1> QED
  BY <1>6

\* What a function makes of a finite set.
LEMMA ImageIsFinite ==
  ASSUME NEW f, IsFiniteSet(DOMAIN f)
  PROVE  IsFiniteSet(Range(f))
<1>1. [x \in DOMAIN f |-> f[x]] \in Surjection(DOMAIN f, Range(f))
  BY DEF Surjection, Range
<1> QED
  BY <1>1, FS_Surjection

-----------------------------------------------------------------------------
(***************************************************************************)
(* The components are apart from each other, and each has a representative. *)
(***************************************************************************)
LEMMA NumberedAreEdges ==
  ASSUME NEW R, IsNumbered(R)
  PROVE  IsEdgeSet(R) /\ IsFiniteSet(R) /\ \A S \in SUBSET R : IsNumbered(S)
<1>1. Targets(R) = {p[2] : p \in R}
  BY DEF Targets
<1>2. IsFiniteSet({p[2] : p \in R})
  <2> DEFINE f == [p \in R |-> p[2]]
  <2>1. IsFiniteSet(Range(f))
    <3>1. DOMAIN f = R
      OBVIOUS
    <3> HIDE DEF f
    <3> QED
      BY <3>1, ImageIsFinite DEF IsNumbered
  <2> QED
    BY <2>1 DEF Range
<1> QED
  BY <1>1, <1>2, FS_Subset DEF IsNumbered, IsEdgeSet

LEMMA ComponentsAreApart ==
  ASSUME NEW R, IsFiniteSet(Targets(R)), NEW s \in Sccs(R), NEW t \in Sccs(R), NEW a, a \in s, a \in t
  PROVE  s = t
<1>1. \A b \in s : Leads(R, a, b) /\ Leads(R, b, a)
  BY BetweenIsInside
<1>2. \A b \in t : Leads(R, a, b) /\ Leads(R, b, a)
  BY BetweenIsInside
<1>3. \A b \in s : b \in t
  BY <1>1, BetweenIsInside
<1>4. \A b \in t : b \in s
  BY <1>2, BetweenIsInside
<1> QED
  BY <1>3, <1>4

LEMMA ComponentsAreFinite ==
  ASSUME NEW R, IsNumbered(R)
  PROVE  /\ IsFiniteSet(Sccs(R))
         /\ \A scc \in Sccs(R) : IsFiniteSet(scc) /\ scc \subseteq Nat /\ scc # {} /\ Within(R, scc) # {}
<1> DEFINE ends == UNION {{p[1], p[2]} : p \in R}
           on == {u \in ends : \E p \in R : p[1] = u /\ u \in ReachedFrom({p[2]}, R)}
           component(u) == {v \in on : Tangled(R, u, v)}
<1>1. Sccs(R) = {component(u) : u \in on}
  BY DEF Sccs
<1>2. IsFiniteSet(R) /\ R \subseteq Nat \X Nat /\ IsFiniteSet(Targets(R))
  BY NumberedAreEdges DEF IsNumbered, IsEdgeSet
<1>3. IsFiniteSet(ends)
  <2> DEFINE sources == [p \in R |-> p[1]]
  <2>1. IsFiniteSet(Range(sources))
    <3>1. DOMAIN sources = R
      OBVIOUS
    <3> HIDE DEF sources
    <3> QED
      BY <1>2, <3>1, ImageIsFinite
  <2>2. ends = Range(sources) \cup Targets(R)
    BY DEF Range, Targets
  <2> HIDE DEF ends, sources
  <2> QED
    BY <1>2, <2>1, <2>2, FS_Union
<1>4. on \in SUBSET ends /\ ends \subseteq Nat
  BY <1>2
<1>5. IsFiniteSet(on) /\ on \subseteq Nat
  <2> HIDE DEF on, ends
  <2> QED
    BY <1>3, <1>4, FS_Subset
<1>6. IsFiniteSet({component(u) : u \in on})
  <2> DEFINE f == [u \in on |-> component(u)]
  <2>1. DOMAIN f = on /\ Range(f) = {component(u) : u \in on}
    BY DEF Range
  <2> HIDE DEF component, on, f
  <2> QED
    BY <1>5, <2>1, ImageIsFinite
<1>7. ASSUME NEW scc \in Sccs(R)
      PROVE  IsFiniteSet(scc) /\ scc \subseteq Nat /\ scc # {} /\ Within(R, scc) # {}
  <2>1. PICK u \in on : scc = component(u)
    BY <1>1
  <2>2. scc \in SUBSET on
    BY <2>1
  <2>3. IsFiniteSet(scc) /\ scc \subseteq Nat
    <3> HIDE DEF on
    <3> QED
      BY <1>5, <2>2, FS_Subset
  <2>4. Tangled(R, u, u)
    BY <1>2, LeadsOnward DEF Tangled, Leads
  <2>5. u \in scc
    BY <2>1, <2>4
  <2>6. PICK p \in R : p[1] = u /\ Leads(R, p[2], u)
    BY <2>1 DEF Leads
  <2>7. PICK t \in Sccs(R) : p \in Within(R, t)
    BY <1>2, <2>6, CircularIsWithin
  <2>8. t = scc
    BY <1>2, <2>5, <2>6, <2>7, ComponentsAreApart DEF Within
  <2> QED
    BY <2>3, <2>5, <2>7, <2>8
<1> QED
  BY <1>1, <1>6, <1>7

LEMMA RepresentativesAreFinite ==
  ASSUME NEW R, IsNumbered(R)
  PROVE  IsFiniteSet(RepresentativeCycles(R))
<1> DEFINE of(scc) == {Representative(R, scc, p) : p \in Within(R, scc)}
<1>1. IsFiniteSet(Sccs(R))
  BY ComponentsAreFinite
<1>2. ASSUME NEW scc \in Sccs(R) PROVE IsFiniteSet(of(scc))
  <2>1. Within(R, scc) \in SUBSET R
    BY DEF Within
  <2>2. IsFiniteSet(Within(R, scc))
    BY <2>1, NumberedAreEdges, FS_Subset
  <2> DEFINE f == [p \in Within(R, scc) |-> Representative(R, scc, p)]
  <2>3. DOMAIN f = Within(R, scc) /\ Range(f) = of(scc)
    BY DEF Range
  <2> HIDE DEF f, of
  <2> QED
    BY <2>2, <2>3, ImageIsFinite
<1>3. IsFiniteSet({of(scc) : scc \in Sccs(R)})
  <2> DEFINE f == [scc \in Sccs(R) |-> of(scc)]
  <2>1. DOMAIN f = Sccs(R) /\ Range(f) = {of(scc) : scc \in Sccs(R)}
    BY DEF Range
  <2> HIDE DEF of, f
  <2> QED
    BY <1>1, <2>1, ImageIsFinite
<1>4. IsFiniteSet(UNION {of(scc) : scc \in Sccs(R)})
  <2> HIDE DEF of
  <2> QED
    BY <1>2, <1>3, FS_UNION
<1> QED
  BY <1>4, RepresentativesAre

\* The representatives are the cycles of the components.
LEMMA RepresentativeIsInside ==
  ASSUME NEW R, IsNumbered(R), NEW c \in RepresentativeCycles(R)
  PROVE  /\ CycleEdges(c) # {} /\ CycleEdges(c) \subseteq R
         /\ \E scc \in Sccs(R) : c[1] \in scc
         /\ \A scc \in Sccs(R) : c[1] \in scc => CycleEdges(c) \subseteq Within(R, scc)
<1>1. PICK t \in Sccs(R) : \E p \in Within(R, t) : c = Representative(R, t, p)
  BY RepresentativesAre
<1>2. IsCycle(c) /\ CycleEdges(c) \subseteq Within(R, t)
  BY <1>1, RepresentativeIsCycle, NumberedAreEdges
<1>3. <<c[1], IF 1 = Len(c) THEN c[1] ELSE c[1 + 1]>> \in CycleEdges(c)
  BY <1>2 DEF IsCycle, CycleEdges
<1>4. c[1] \in t
  BY <1>2, <1>3 DEF Within
<1>5. Within(R, t) \subseteq R
  BY DEF Within
<1>6. \A scc \in Sccs(R) : c[1] \in scc => scc = t
  BY <1>4, NumberedAreEdges, ComponentsAreApart DEF IsEdgeSet
<1> QED
  BY <1>2, <1>3, <1>4, <1>5, <1>6

LEMMA NoRepresentativeNoCycle ==
  ASSUME NEW R, IsNumbered(R), RepresentativeCycles(R) = {}
  PROVE  Acyclic(R)
<1> SUFFICES ASSUME NEW scc \in Sccs(R) PROVE FALSE
  BY DEF Acyclic
<1>1. PICK p \in R : p \in Within(R, scc)
  BY ComponentsAreFinite DEF Within
<1>2. Representative(R, scc, p) \in RepresentativeCycles(R)
  BY <1>1, RepresentativesAre
<1> QED
  BY <1>2

-----------------------------------------------------------------------------
(***************************************************************************)
(* An edge of a cycle leads back to its start along the others.             *)
(***************************************************************************)
LEMMA AroundTheCycle ==
  ASSUME NEW n \in Nat \ {0}, NEW S, \A i \in 1 .. n : i \in S => Around(n, i) \in S,
         NEW first \in 1 .. n, first \in S
  PROVE  1 .. n \subseteq S
<1>1. ASSUME NEW a \in 1 .. n, a \in S PROVE a .. n \subseteq S
  <2> DEFINE outside == {i \in a .. n : i \notin S}
  <2> SUFFICES ASSUME outside # {} PROVE FALSE
    OBVIOUS
  <2>1. Min(outside) \in outside /\ \A k \in outside : Min(outside) <= k
    <3>1. outside \subseteq Nat
      OBVIOUS
    <3>2. \E m \in outside : \A k \in outside : m <= k
      <4> HIDE DEF outside
      <4> QED
        BY <3>1, Reach!LeastNatural
    <3> HIDE DEF outside
    <3> QED
      BY <3>2 DEF Min
  <2> DEFINE m == Min(outside)
  <2>2. m \in a .. n /\ m \notin S /\ m # a
    BY <1>1, <2>1
  <2>3. m - 1 \in a .. n /\ m - 1 \in 1 .. n /\ m - 1 < m /\ m - 1 # n
    BY <2>2
  <2>4. m - 1 \in S
    BY <2>1, <2>3
  <2>5. Around(n, m - 1) = m
    BY <2>2, <2>3 DEF Around
  <2> QED
    BY <2>2, <2>3, <2>4, <2>5
<1>2. n \in S
  BY <1>1
<1>3. 1 \in S
  BY <1>2 DEF Around
<1> QED
  BY <1>1, <1>3

LEMMA CycleLeadsBack ==
  ASSUME NEW R, IsFiniteSet(Targets(R)), NEW c, IsCycle(c), CycleEdges(c) \subseteq R,
         NEW e \in CycleEdges(c)
  PROVE  Leads(R, e[2], e[1])
<1> DEFINE n == Len(c)
           S == {i \in 1 .. n : Leads(R, e[2], c[i])}
<1>1. n \in Nat \ {0} /\ CycleEdges(c) = {<<c[i], c[Around(n, i)]>> : i \in 1 .. n}
  BY EdgesAround DEF IsCycle
<1>2. \A i \in 1 .. n : Around(n, i) \in 1 .. n
  BY <1>1 DEF Around
<1>3. PICK i \in 1 .. n : e = <<c[i], c[Around(n, i)]>>
  BY <1>1
<1>4. Around(n, i) \in S
  BY <1>2, <1>3, LeadsOnward
<1>5. ASSUME NEW j \in 1 .. n, j \in S PROVE Around(n, j) \in S
  <2>1. <<c[j], c[Around(n, j)]>> \in R
    BY <1>1
  <2>2. Leads(R, c[j], c[Around(n, j)])
    BY <2>1, LeadsOnward
  <2> QED
    BY <1>2, <1>5, <2>2, LeadsOnward
<1>6. 1 .. n \subseteq S
  <2> HIDE DEF S, n
  <2> QED
    BY <1>1, <1>2, <1>4, <1>5, AroundTheCycle
<1> QED
  BY <1>3, <1>6

\* Of any of these edges, one lies on a cycle of R that avoids the others.
EachBreaks(R, removed) ==
  \A picks \in (SUBSET removed) \ {{}} :
    \E e \in picks : Leads(R \ (picks \ {e}), e[2], e[1])

\* The greedy choice takes such edges, beside any that have gone before.
LEMMA CoverBreaksEach ==
  ASSUME NEW R, IsNumbered(R), NEW gone \in SUBSET R, EachBreaks(R, gone),
         NEW cycles, IsFiniteSet(cycles),
         \A c \in cycles : IsCycle(c) /\ CycleEdges(c) \subseteq R \ gone /\ CycleEdges(c) # {}
  PROVE  EachBreaks(R, gone \cup GreedyCover(EdgeCycles(cycles)))
<1> DEFINE cover == GreedyCover(EdgeCycles(cycles))
<1> SUFFICES ASSUME NEW picks \in (SUBSET (gone \cup cover)) \ {{}}
             PROVE  \E e \in picks : Leads(R \ (picks \ {e}), e[2], e[1])
  BY DEF EachBreaks
<1>1. \A some \in (SUBSET cover) \ {{}} :
        \E c \in cycles, e \in some : CycleEdges(c) \cap some = {e}
  BY CoverNeedsEach
<1> HIDE DEF cover
<1>2. CASE picks \cap cover = {}
  BY <1>2 DEF EachBreaks
<1>3. CASE picks \cap cover # {}
  <2>1. PICK c \in cycles, e \in picks \cap cover : CycleEdges(c) \cap (picks \cap cover) = {e}
    BY <1>1, <1>3
  <2> DEFINE left == R \ (picks \ {e})
  <2>2. CycleEdges(c) \subseteq left /\ e \in CycleEdges(c)
    BY <2>1
  <2>3. left \in SUBSET R
    OBVIOUS
  <2> HIDE DEF left
  <2>4. IsFiniteSet(Targets(left))
    BY <2>3, NumberedAreEdges DEF IsEdgeSet
  <2>5. Leads(left, e[2], e[1])
    BY <2>2, <2>4, CycleLeadsBack
  <2> QED
    BY <2>5 DEF left
<1> QED
  BY <1>2, <1>3

-----------------------------------------------------------------------------
(***************************************************************************)
(* The feedback edges: a round that leaves a cycle removes one more edge.   *)
(***************************************************************************)
FeedbackFirst(p) == GreedyCover(p[2])
FeedbackRound(p, k, removed) ==
  IF RepresentativeCycles(p[1] \ removed) = {} THEN removed
  ELSE removed \cup GreedyCover(EdgeCycles(RepresentativeCycles(p[1] \ removed)))

IsCovering(p) ==
  /\ IsNumbered(p[1]) /\ IsCoverage(p[2]) /\ DOMAIN p[2] \subseteq p[1]
  /\ EachBreaks(p[1], GreedyCover(p[2]))

FeedbackInv(p, k, removed) ==
  IsCovering(p) =>
    /\ GreedyCover(p[2]) \subseteq removed /\ removed \subseteq p[1]
    /\ EachBreaks(p[1], removed)
    /\ RepresentativeCycles(p[1] \ removed) = {} \/ k <= Cardinality(removed)

Feedback == INSTANCE Rounds WITH First <- FeedbackFirst, Round <- FeedbackRound, Inv <- FeedbackInv

LEMMA FeedbackStarts == \A p : FeedbackInv(p, 0, FeedbackFirst(p))
<1> SUFFICES ASSUME NEW p, IsCovering(p) PROVE FeedbackInv(p, 0, GreedyCover(p[2]))
  BY DEF FeedbackInv, FeedbackFirst
<1>1. GreedyCover(p[2]) \in SUBSET p[1] /\ IsFiniteSet(p[1])
  BY GreedyCovers DEF IsCovering, IsNumbered
<1>2. 0 <= Cardinality(GreedyCover(p[2]))
  BY <1>1, FS_Subset, FS_CardinalityType
<1> QED
  BY <1>1, <1>2 DEF FeedbackInv, IsCovering

LEMMA RepresentativesAreBroken ==
  ASSUME NEW R, IsNumbered(R), NEW cycles, cycles = RepresentativeCycles(R), NEW picks, picks = GreedyCover(EdgeCycles(cycles))
  PROVE  /\ IsCoverage(EdgeCycles(cycles)) /\ picks \subseteq R
         /\ \A c \in cycles : CycleEdges(c) \cap picks # {}
<1>1. IsFiniteSet(cycles)
  BY RepresentativesAreFinite
<1>2. \A c \in cycles : CycleEdges(c) \subseteq R /\ CycleEdges(c) # {}
  BY RepresentativeIsInside
<1> QED
  BY <1>1, <1>2, CoverBreaksCycles

LEMMA FeedbackGoesOn ==
  \A p : \A k \in Nat : \A v : FeedbackInv(p, k, v) => FeedbackInv(p, k + 1, FeedbackRound(p, k + 1, v))
<1> SUFFICES ASSUME NEW p, NEW k \in Nat, NEW v, FeedbackInv(p, k, v), IsCovering(p)
             PROVE  FeedbackInv(p, k + 1, FeedbackRound(p, k + 1, v))
  BY DEF FeedbackInv
<1> DEFINE left == p[1] \ v
           cycles == RepresentativeCycles(left)
           picks == GreedyCover(EdgeCycles(cycles))
<1>1. /\ GreedyCover(p[2]) \subseteq v /\ v \subseteq p[1] /\ (cycles = {} \/ k <= Cardinality(v))
      /\ EachBreaks(p[1], v)
  BY DEF FeedbackInv
<1>2. IsFiniteSet(p[1]) /\ IsNumbered(left) /\ IsFiniteSet(v)
  <2>1. IsNumbered(p[1]) /\ left \in SUBSET p[1] /\ v \in SUBSET p[1]
    BY <1>1 DEF IsCovering
  <2> HIDE DEF left
  <2> QED
    BY <2>1, NumberedAreEdges, FS_Subset
<1>3. CASE cycles = {}
  BY <1>1, <1>3 DEF FeedbackInv, FeedbackRound
<1>4. CASE cycles # {}
  <2>1. FeedbackRound(p, k + 1, v) = v \cup picks
    BY <1>4 DEF FeedbackRound
  <2>2. picks \subseteq left /\ picks # {}
    <3> HIDE DEF left, cycles, picks
    <3>1. picks \subseteq left /\ \A c \in cycles : CycleEdges(c) \cap picks # {}
      BY <1>2, RepresentativesAreBroken DEF cycles, picks
    <3> QED
      BY <1>4, <3>1
  <2>3. PICK f \in picks : f \in p[1] /\ f \notin v
    BY <2>2
  <2>4. v \cup picks \subseteq p[1]
    BY <1>1, <2>2
  <2>5. EachBreaks(p[1], v \cup picks)
    <3>1. ASSUME NEW c \in cycles PROVE IsCycle(c) /\ CycleEdges(c) \subseteq left /\ CycleEdges(c) # {}
      <4>1. \E scc \in Sccs(left) : \E q \in Within(left, scc) : c = Representative(left, scc, q)
        <5> HIDE DEF left
        <5> QED
          BY <3>1, RepresentativesAre
      <4> HIDE DEF left
      <4>2. IsCycle(c)
        BY <1>2, <4>1, RepresentativeIsCycle, NumberedAreEdges
      <4> QED
        BY <1>2, <3>1, <4>2, RepresentativeIsInside
    <3>2. IsFiniteSet(cycles)
      <4> HIDE DEF left
      <4> QED
        BY <1>2, RepresentativesAreFinite
    <3> HIDE DEF cycles
    <3> QED
      BY <1>1, <3>1, <3>2, CoverBreaksEach DEF IsCovering
  <2> HIDE DEF picks, cycles, left
  <2>6. Cardinality(v \cup {f}) = Cardinality(v) + 1 /\ Cardinality(v) \in Nat
    BY <1>2, <2>3, FS_AddElement, FS_CardinalityType
  <2>7. IsFiniteSet(v \cup picks)
    BY <1>2, <2>4, FS_Subset
  <2>8. v \cup {f} \in SUBSET (v \cup picks)
    BY <2>3
  <2>9. Cardinality(v \cup {f}) <= Cardinality(v \cup picks) /\ Cardinality(v \cup picks) \in Nat
    BY <2>7, <2>8, FS_Subset, FS_CardinalityType
  <2>10. k + 1 <= Cardinality(v \cup picks)
    BY <1>1, <1>4, <2>6, <2>9
  <2> QED
    BY <1>1, <2>1, <2>4, <2>5, <2>10 DEF FeedbackInv
<1> QED
  BY <1>3, <1>4

FeedbackWalk(p) == CHOOSE f : Feedback!IsComputed(f, p)
FeedbackIsWalked ==
  \A R, edgeCycles, every : FeedbackEdges(R, edgeCycles, every) =
    FeedbackWalk(<<R, edgeCycles>>)[IF every THEN Cardinality(R) ELSE 0]

LEMMA FeedbackWalks == FeedbackIsWalked /\ \A p : Feedback!IsComputed(FeedbackWalk(p), p)
<1>1. ASSUME NEW R, NEW edgeCycles, NEW every
      PROVE  FeedbackEdges(R, edgeCycles, every) =
               FeedbackWalk(<<R, edgeCycles>>)[IF every THEN Cardinality(R) ELSE 0]
  BY DEF FeedbackEdges, FeedbackWalk, Feedback!IsComputed, FeedbackFirst, FeedbackRound
<1>2. \A p : Feedback!IsComputed(FeedbackWalk(p), p)
  BY Feedback!ComputedExists DEF FeedbackWalk
<1> QED
  BY <1>1, <1>2 DEF FeedbackIsWalked

\* What FeedbackEdges promises of the edges R of a component and the cycles that count.
LEMMA FeedbackBreaks ==
  ASSUME NEW R, IsNumbered(R), NEW edgeCycles, IsCoverage(edgeCycles), DOMAIN edgeCycles \subseteq R,
         EachBreaks(R, GreedyCover(edgeCycles)), NEW every \in BOOLEAN
  PROVE  /\ GreedyCover(edgeCycles) \subseteq FeedbackEdges(R, edgeCycles, every)
         /\ FeedbackEdges(R, edgeCycles, every) \subseteq R
         /\ EachBreaks(R, FeedbackEdges(R, edgeCycles, every))
         /\ every => Acyclic(R \ FeedbackEdges(R, edgeCycles, every))
         /\ ~every => FeedbackEdges(R, edgeCycles, every) = GreedyCover(edgeCycles)
<1> DEFINE p == <<R, edgeCycles>>
           walk == FeedbackWalk(p)
           n == Cardinality(R)
<1>1. \A q, f : Feedback!IsComputed(f, q) => \A k \in Nat : FeedbackInv(q, k, f[k])
  BY FeedbackStarts, FeedbackGoesOn, Feedback!InvariantOfRounds
<1>2. \A k \in Nat : FeedbackInv(p, k, walk[k])
  BY <1>1, FeedbackWalks
<1>3. walk[0] = GreedyCover(edgeCycles)
  BY FeedbackWalks DEF Feedback!IsComputed, FeedbackFirst
<1>4. IsCovering(p) /\ IsFiniteSet(R) /\ n \in Nat
  BY FS_CardinalityType DEF IsCovering, IsNumbered
<1> HIDE DEF walk
<1>5. \A k \in Nat : GreedyCover(edgeCycles) \subseteq walk[k] /\ walk[k] \subseteq R
                     /\ EachBreaks(R, walk[k])
                     /\ (RepresentativeCycles(R \ walk[k]) = {} \/ k <= Cardinality(walk[k]))
  BY <1>2, <1>4 DEF FeedbackInv
<1>6. Acyclic(R \ walk[n])
  <2>1. CASE RepresentativeCycles(R \ walk[n]) = {}
    <3>1. R \ walk[n] \in SUBSET R
      OBVIOUS
    <3> QED
      BY <2>1, <3>1, NumberedAreEdges, NoRepresentativeNoCycle
  <2>2. CASE n <= Cardinality(walk[n])
    <3>1. walk[n] \in SUBSET R
      BY <1>4, <1>5
    <3>2. Cardinality(walk[n]) <= n /\ (n = Cardinality(walk[n]) => R = walk[n]) /\ IsFiniteSet(walk[n])
      BY <1>4, <3>1, FS_Subset
    <3>3. R = walk[n]
      BY <1>4, <2>2, <3>2, FS_CardinalityType
    <3>4. Acyclic({})
      BY DEF Acyclic, Sccs
    <3> QED
      BY <3>3, <3>4
  <2> QED
    BY <1>4, <1>5, <2>1, <2>2
<1>7. FeedbackEdges(R, edgeCycles, every) = IF every THEN walk[n] ELSE walk[0]
  BY FeedbackWalks DEF FeedbackIsWalked, walk
<1> QED
  BY <1>3, <1>4, <1>5, <1>6, <1>7

-----------------------------------------------------------------------------
(***************************************************************************)
(* The clusters: their lists hold the edges they are made of, and the       *)
(* report holds each cluster.                                               *)
(***************************************************************************)
LEMMA MaxOfFinite ==
  ASSUME NEW S, S \subseteq Nat, IsFiniteSet(S), S # {}
  PROVE  Max(S) \in S /\ \A k \in S : k <= Max(S)
<1> DEFINE B == {q \in S \X S : q[1] > q[2]}
<1>1. IsOrder(B, S)
  <2>1. \A x, y \in S : <<x, y>> \in B <=> x > y
    OBVIOUS
  <2> HIDE DEF B
  <2> QED
    BY <2>1 DEF IsOrder
<1>2. PICK m \in S : \A k \in S \ {m} : <<m, k>> \in B
  <2> HIDE DEF B
  <2> QED
    BY <1>1, FirstIsFound
<1>3. ASSUME NEW k \in S PROVE m >= k
  <2>1. k = m \/ <<m, k>> \in B
    BY <1>2
  <2>2. m \in Nat /\ k \in Nat
    OBVIOUS
  <2> QED
    BY <2>1, <2>2
<1>4. Max(S) \in S /\ \A k \in S : Max(S) >= k
  BY <1>3 DEF Max
<1> QED
  BY <1>4

ListedEdges(list) == {f.edge : f \in Range(list)}

\* A list of rows, those of most cycles first.
IsRanking(rows) ==
  /\ Len(rows) \in Nat /\ DOMAIN rows = 1 .. Len(rows)
  /\ \A i, j \in DOMAIN rows : i < j => rows[i].cycles >= rows[j].cycles

LEMMA RankedListsAll ==
  ASSUME NEW R, IsNumbered(R), NEW es, es \subseteq R, NEW edgeCycles, IsCoverage(edgeCycles)
  PROVE  ListedEdges(Ranked(es, edgeCycles)) = es /\ IsRanking(Ranked(es, edgeCycles))
<1> DEFINE carried(e) == IF e \in DOMAIN edgeCycles THEN Cardinality(edgeCycles[e]) ELSE 0
           counts == {0} \cup {carried(e) : e \in es}
           most == Max(counts)
           key == [e \in es |-> <<most - carried(e), Symbols(e), e[1], e[2]>>]
           ranked == SortedBy(Keyed(es, key))
           entry(e) == [edge |-> e, cycles |-> carried(e), symbols |-> Symbols(e)]
<1>1. IsFiniteSet(es) /\ \A e \in es : e \in Nat \X Nat /\ Symbols(e) \in Nat
  BY FS_Subset DEF IsNumbered
<1>2. \A e : carried(e) \in Nat
  BY FS_CardinalityType DEF IsCoverage
<1>3. most \in Nat
  <2> DEFINE f == [e \in es |-> carried(e)]
  <2>1. DOMAIN f = es /\ counts = {0} \cup Range(f)
    BY DEF Range
  <2>2. counts \subseteq Nat /\ counts # {}
    BY <1>2
  <2> HIDE DEF f, counts
  <2>3. IsFiniteSet(Range(f))
    BY <1>1, <2>1, ImageIsFinite
  <2>4. IsFiniteSet(counts)
    BY <2>1, <2>3, FS_Union, FS_Singleton
  <2> QED
    BY <2>2, <2>4, MaxOfFinite
<1> HIDE DEF most, carried
<1>4. AreKeys(es, key, 4)
  <2>1. ASSUME NEW e \in es
        PROVE  /\ DOMAIN key[e] = 1 .. 4
               /\ key[e][1] = most - carried(e) /\ key[e][2] = Symbols(e)
               /\ key[e][3] = e[1] /\ key[e][4] = e[2]
    OBVIOUS
  <2>2. ASSUME NEW e \in es PROVE \A i \in 1 .. 4 : key[e][i] \in Int
    <3>1. e[1] \in Int /\ e[2] \in Int /\ most - carried(e) \in Int /\ Symbols(e) \in Int
      BY <1>1, <1>2, <1>3
    <3>2. \A i \in 1 .. 4 : i = 1 \/ i = 2 \/ i = 3 \/ i = 4
      OBVIOUS
    <3> QED
      BY <2>1, <3>1, <3>2
  <2>3. ASSUME NEW e \in es, NEW f \in es, e # f PROVE \E i \in 1 .. 4 : key[e][i] # key[f][i]
    <3>1. e = <<e[1], e[2]>> /\ f = <<f[1], f[2]>>
      BY <1>1
    <3>2. e[1] # f[1] \/ e[2] # f[2]
      BY <2>3, <3>1
    <3>3. 3 \in 1 .. 4 /\ 4 \in 1 .. 4
      OBVIOUS
    <3> QED
      BY <2>1, <3>2, <3>3
  <2> QED
    BY <2>1, <2>2, <2>3 DEF AreKeys
<1>5. /\ Range(ranked) = es /\ DOMAIN ranked = 1 .. Cardinality(es) /\ Cardinality(es) \in Nat
      /\ \A i, j \in 1 .. Cardinality(es) : i < j => LexLess(key[ranked[i]], key[ranked[j]])
  BY <1>1, <1>4, SortedLists
<1>6. Ranked(es, edgeCycles) = [i \in DOMAIN ranked |-> entry(ranked[i])]
  <2>1. Keyed(es, key) = {<<<<most - carried(e), Symbols(e), e[1], e[2]>>, e>> : e \in es}
    BY DEF Keyed
  <2> QED
    BY <2>1 DEF Ranked, most, carried
<1> HIDE DEF ranked, entry, key
<1>7. DOMAIN Ranked(es, edgeCycles) = 1 .. Cardinality(es)
      /\ \A i \in DOMAIN ranked : Ranked(es, edgeCycles)[i] = entry(ranked[i])
  BY <1>5, <1>6
<1>8. Range(Ranked(es, edgeCycles)) = {entry(e) : e \in es}
  BY <1>5, <1>7 DEF Range
<1>9. \A e : entry(e).edge = e
  BY DEF entry
<1>10. ListedEdges(Ranked(es, edgeCycles)) = es
  BY <1>8, <1>9 DEF ListedEdges
<1>11. Len(Ranked(es, edgeCycles)) = Cardinality(es)
  <2>1. Ranked(es, edgeCycles) \in Seq({entry(e) : e \in es})
    BY <1>5, <1>6, <1>7 DEF Range
  <2> QED
    BY <1>5, <1>7, <2>1
<1>12. ASSUME NEW i \in 1 .. Cardinality(es), NEW j \in 1 .. Cardinality(es), i < j
       PROVE  Ranked(es, edgeCycles)[i].cycles >= Ranked(es, edgeCycles)[j].cycles
  <2> DEFINE e == ranked[i]
             f == ranked[j]
  <2>1. e \in es /\ f \in es
    BY <1>5 DEF Range
  <2>2. LexLess(key[e], key[f])
    BY <1>5, <1>12
  <2> HIDE DEF e, f
  <2>3. key[e][1] <= key[f][1]
    <3>1. PICK k \in DOMAIN key[e] \cap DOMAIN key[f] :
            key[e][k] < key[f][k] /\ \A l \in 1 .. (k - 1) : key[e][l] = key[f][l]
      BY <2>2 DEF LexLess
    <3>2. DOMAIN key[e] = 1 .. 4 /\ \A l \in 1 .. 4 : key[e][l] \in Int /\ key[f][l] \in Int
      BY <1>4, <2>1 DEF AreKeys
    <3>3. k \in 1 .. 4 /\ 1 \in 1 .. 4
      BY <3>1, <3>2
    <3>4. CASE k = 1
      BY <3>1, <3>2, <3>3, <3>4
    <3>5. CASE k # 1
      BY <3>1, <3>2, <3>3, <3>5
    <3> QED
      BY <3>4, <3>5
  <2>4. key[e][1] = most - carried(e) /\ key[f][1] = most - carried(f)
    BY <2>1 DEF key
  <2>5. carried(e) >= carried(f)
    BY <1>2, <1>3, <2>3, <2>4
  <2>6. Ranked(es, edgeCycles)[i].cycles = carried(e) /\ Ranked(es, edgeCycles)[j].cycles = carried(f)
    BY <1>5, <1>7 DEF entry, e, f
  <2> QED
    BY <2>5, <2>6
<1>13. IsRanking(Ranked(es, edgeCycles))
  BY <1>5, <1>7, <1>11, <1>12 DEF IsRanking
<1> QED
  BY <1>10, <1>13

\* The cycles of the component, and those that count.
CyclesWithin(cycles, scc) == {c \in cycles : c[1] \in scc}
Untolerated(cycles, tolerated) == {c \in cycles : ~(CycleEdges(c) \subseteq tolerated)}
CountedOf(cycles, scc, tolerated) ==
  IF Untolerated(CyclesWithin(cycles, scc), tolerated) = {} THEN CyclesWithin(cycles, scc)
  ELSE Untolerated(CyclesWithin(cycles, scc), tolerated)
CountsEvery(cycles, scc, tolerated) ==
  Untolerated(CyclesWithin(cycles, scc), tolerated) \in {{}, CyclesWithin(cycles, scc)}

LEMMA ClusterIs ==
  ASSUME NEW R, NEW cycles, NEW scc, NEW tolerated, NEW c, c = ClusterOf(R, cycles, scc, tolerated),
         NEW counted, counted = CountedOf(cycles, scc, tolerated),
         NEW every, every = CountsEvery(cycles, scc, tolerated)
  PROVE  /\ c.nodes = scc /\ c.cycles = counted /\ c.countsEveryCycle = every
         /\ c.tolerated = (Untolerated(CyclesWithin(cycles, scc), tolerated) = {})
         /\ c.feedback = Ranked(FeedbackEdges(Within(R, scc), EdgeCycles(counted), every), EdgeCycles(counted))
         /\ c.edges = Ranked(Within(R, scc), EdgeCycles(counted))
BY DEF ClusterOf, CountedOf, CountsEvery, Untolerated, CyclesWithin

\* What the report says of a cluster.
BreaksCycles(R, cycles, tolerated, c) ==
  /\ \A cycle \in c.cycles : CycleEdges(cycle) \cap ListedEdges(c.feedback) # {}
  /\ EachBreaks(Within(R, c.nodes), ListedEdges(c.feedback))
  /\ c.countsEveryCycle => Acyclic(Within(R, c.nodes) \ ListedEdges(c.feedback))
  /\ ~c.countsEveryCycle =>
       /\ \A picks \in (SUBSET ListedEdges(c.feedback)) \ {{}} :
            \E cycle \in c.cycles, e \in picks : CycleEdges(cycle) \cap picks = {e}
       /\ \A cycle \in c.cycles : ~(CycleEdges(cycle) \subseteq tolerated)
  /\ ListedEdges(c.feedback) \subseteq ListedEdges(c.edges)
  /\ c.tolerated => \A cycle \in cycles : cycle[1] \in c.nodes => CycleEdges(cycle) \subseteq tolerated

LEMMA ClusterBreaksCycles ==
  ASSUME NEW R, IsNumbered(R), NEW cycles, cycles = RepresentativeCycles(R),
         NEW scc \in Sccs(R), NEW tolerated, NEW c, c = ClusterOf(R, cycles, scc, tolerated)
  PROVE  /\ BreaksCycles(R, cycles, tolerated, c)
         /\ Len(c.feedback) \in Nat /\ IsFiniteSet(c.cycles) /\ c.nodes = scc
         /\ IsRanking(c.feedback)
<1> DEFINE inside == Within(R, scc)
           counted == CountedOf(cycles, scc, tolerated)
           every == CountsEvery(cycles, scc, tolerated)
           edgeCycles == EdgeCycles(counted)
           picks == FeedbackEdges(inside, edgeCycles, every)
<1>1. IsNumbered(inside)
  <2>1. inside \in SUBSET R
    BY DEF Within
  <2> QED
    BY <2>1, NumberedAreEdges
<1>2. /\ c.nodes = scc /\ c.cycles = counted /\ c.countsEveryCycle = every
      /\ c.tolerated = (Untolerated(CyclesWithin(cycles, scc), tolerated) = {})
      /\ c.feedback = Ranked(picks, edgeCycles) /\ c.edges = Ranked(inside, edgeCycles)
  BY ClusterIs
<1>3. counted \in SUBSET cycles /\ counted \subseteq CyclesWithin(cycles, scc)
  BY DEF CountedOf, CyclesWithin, Untolerated
<1>4. IsFiniteSet(counted)
  <2>1. IsFiniteSet(cycles)
    BY RepresentativesAreFinite
  <2> HIDE DEF counted
  <2> QED
    BY <1>3, <2>1, FS_Subset
<1>5. ASSUME NEW cycle \in counted
      PROVE  IsCycle(cycle) /\ CycleEdges(cycle) \subseteq inside /\ CycleEdges(cycle) # {}
  <2>1. cycle \in cycles /\ cycle \in CyclesWithin(cycles, scc)
    BY <1>3
  <2>2. \E s \in Sccs(R) : \E q \in Within(R, s) : cycle = Representative(R, s, q)
    BY <2>1, RepresentativesAre
  <2>3. IsCycle(cycle)
    BY <2>2, RepresentativeIsCycle, NumberedAreEdges
  <2> QED
    BY <2>1, <2>3, RepresentativeIsInside DEF CyclesWithin
<1>6. every \in BOOLEAN /\ (~every => counted = Untolerated(CyclesWithin(cycles, scc), tolerated))
  BY DEF CountsEvery, CountedOf
<1> HIDE DEF inside, counted, every
<1>7. /\ IsCoverage(edgeCycles)
      /\ GreedyCover(edgeCycles) \subseteq UNION {CycleEdges(cycle) : cycle \in counted}
      /\ \A cycle \in counted : CycleEdges(cycle) \cap GreedyCover(edgeCycles) # {}
  <2>1. \A cycle \in counted : CycleEdges(cycle) \subseteq inside /\ CycleEdges(cycle) # {}
    BY <1>5
  <2> QED
    BY <1>1, <1>4, <2>1, CoverBreaksCycles
<1>8. EachBreaks(inside, GreedyCover(edgeCycles))
  <2>1. /\ {} \in SUBSET inside /\ EachBreaks(inside, {})
        /\ \A cycle \in counted :
             IsCycle(cycle) /\ CycleEdges(cycle) \subseteq inside \ {} /\ CycleEdges(cycle) # {}
    BY <1>5 DEF EachBreaks
  <2>2. EachBreaks(inside, {} \cup GreedyCover(edgeCycles))
    BY <1>1, <1>4, <2>1, CoverBreaksEach
  <2>3. {} \cup GreedyCover(edgeCycles) = GreedyCover(edgeCycles)
    OBVIOUS
  <2> QED
    BY <2>2, <2>3
<1>9. ASSUME NEW some \in (SUBSET GreedyCover(edgeCycles)) \ {{}}
      PROVE  \E cycle \in counted, e \in some : CycleEdges(cycle) \cap some = {e}
  <2>1. \A cycle \in counted : CycleEdges(cycle) \subseteq inside /\ CycleEdges(cycle) # {}
    BY <1>5
  <2> QED
    BY <1>1, <1>4, <2>1, CoverNeedsEach
<1>10. DOMAIN edgeCycles \subseteq inside
  BY <1>5 DEF EdgeCycles
<1> HIDE DEF edgeCycles
<1>11. /\ GreedyCover(edgeCycles) \subseteq picks /\ picks \subseteq inside
       /\ EachBreaks(inside, picks)
       /\ every => Acyclic(inside \ picks)
       /\ ~every => picks = GreedyCover(edgeCycles)
  BY <1>1, <1>6, <1>7, <1>8, <1>10, FeedbackBreaks
<1> HIDE DEF picks
<1>12. /\ ListedEdges(c.feedback) = picks /\ ListedEdges(c.edges) = inside
       /\ IsRanking(c.feedback) /\ Len(c.feedback) \in Nat
  BY <1>1, <1>2, <1>7, <1>11, RankedListsAll DEF IsRanking
<1>13. \A cycle \in counted : CycleEdges(cycle) \cap picks # {}
  BY <1>7, <1>11
<1>14. ~every => /\ \A some \in (SUBSET picks) \ {{}} :
                      \E cycle \in counted, e \in some : CycleEdges(cycle) \cap some = {e}
                 /\ \A cycle \in counted : ~(CycleEdges(cycle) \subseteq tolerated)
  BY <1>6, <1>9, <1>11 DEF Untolerated
<1>15. c.tolerated => \A cycle \in cycles : cycle[1] \in scc => CycleEdges(cycle) \subseteq tolerated
  BY <1>2 DEF Untolerated, CyclesWithin
<1>16. BreaksCycles(R, cycles, tolerated, c)
  <2>1. Within(R, c.nodes) = inside
    BY <1>2 DEF inside
  <2> QED
    BY <1>2, <1>11, <1>12, <1>13, <1>14, <1>15, <2>1 DEF BreaksCycles
<1> QED
  BY <1>2, <1>4, <1>12, <1>16

LEMMA ReportHoldsClusters ==
  ASSUME NEW R, IsNumbered(R), NEW cycles, cycles = RepresentativeCycles(R), NEW tolerated
  PROVE  Range(ClusterReport(R, cycles, tolerated)) = Clusters(R, cycles, tolerated)
<1> DEFINE S == Clusters(R, cycles, tolerated)
           key == [c \in S |-> ClusterKey(c)]
<1>1. \A c \in S : \E scc \in Sccs(R) : c = ClusterOf(R, cycles, scc, tolerated)
  BY DEF Clusters
<1>2. IsFiniteSet(S)
  <2> DEFINE f == [scc \in Sccs(R) |-> ClusterOf(R, cycles, scc, tolerated)]
  <2>1. DOMAIN f = Sccs(R) /\ Range(f) = S
    BY DEF Range, Clusters
  <2> HIDE DEF f, S
  <2> QED
    BY <2>1, ComponentsAreFinite, ImageIsFinite
<1>3. ASSUME NEW c \in S
      PROVE  /\ c.nodes \in Sccs(R) /\ c = ClusterOf(R, cycles, c.nodes, tolerated)
             /\ Len(c.feedback) \in Nat /\ Cardinality(c.cycles) \in Nat /\ Cardinality(c.nodes) \in Nat
             /\ Min(c.nodes) \in c.nodes /\ Min(c.nodes) \in Nat
  <2>1. PICK scc \in Sccs(R) : c = ClusterOf(R, cycles, scc, tolerated)
    BY <1>1
  <2>2. c.nodes = scc /\ Len(c.feedback) \in Nat /\ IsFiniteSet(c.cycles)
    BY <2>1, ClusterBreaksCycles
  <2>3. IsFiniteSet(scc) /\ scc \subseteq Nat /\ scc # {}
    BY ComponentsAreFinite
  <2>4. Min(scc) \in scc
    BY <2>3, MinIsMember
  <2>5. Cardinality(c.cycles) \in Nat /\ Cardinality(scc) \in Nat
    BY <2>2, <2>3, FS_CardinalityType
  <2>6. c.nodes \in Sccs(R) /\ c = ClusterOf(R, cycles, c.nodes, tolerated)
    <3> HIDE DEF S, key
    <3> QED
      BY ONLY <2>1, <2>2, scc \in Sccs(R), Zenon
  <2>7. Min(c.nodes) \in c.nodes /\ Min(c.nodes) \in Nat /\ Cardinality(c.nodes) \in Nat
    <3> HIDE DEF S, key
    <3> QED
      BY ONLY <2>2, <2>3, <2>4, <2>5
  <2> QED
    BY ONLY <2>2, <2>5, <2>6, <2>7
<1>4. AreKeys(S, key, 4)
  <2>1. ASSUME NEW c \in S
        PROVE  /\ DOMAIN key[c] = 1 .. 4
               /\ key[c][1] = Len(c.feedback) /\ key[c][2] = Cardinality(c.cycles)
               /\ key[c][3] = Cardinality(c.nodes) /\ key[c][4] = Min(c.nodes)
    BY DEF ClusterKey
  <2>2. ASSUME NEW c \in S PROVE \A i \in 1 .. 4 : key[c][i] \in Int
    <3>1. \A i \in 1 .. 4 : i = 1 \/ i = 2 \/ i = 3 \/ i = 4
      OBVIOUS
    <3> QED
      BY <1>3, <2>1, <3>1
  <2>3. ASSUME NEW c \in S, NEW d \in S, c # d PROVE \E i \in 1 .. 4 : key[c][i] # key[d][i]
    <3>1. c.nodes # d.nodes
      BY <1>3, <2>3
    <3>2. Min(c.nodes) # Min(d.nodes)
      BY <1>3, <3>1, NumberedAreEdges, ComponentsAreApart DEF IsEdgeSet
    <3>3. 4 \in 1 .. 4
      OBVIOUS
    <3> QED
      BY <2>1, <3>2, <3>3
  <2> QED
    BY <2>1, <2>2, <2>3 DEF AreKeys
<1>5. ClusterReport(R, cycles, tolerated) = SortedBy(Keyed(S, key))
  <2>1. Keyed(S, key) = {<<ClusterKey(c), c>> : c \in S}
    BY DEF Keyed
  <2> QED
    BY <2>1 DEF ClusterReport
<1> HIDE DEF S, key
<1>6. Range(SortedBy(Keyed(S, key))) = S
  BY <1>2, <1>4, SortedLists
<1> QED
  BY <1>5, <1>6 DEF S

\* The same while the graph stays as it is.
LEMMA ReportStays ==
  ASSUME nodes' = nodes, edges' = edges, NEW R, NEW cycles, NEW tolerated
  PROVE  ClusterReport(R, cycles, tolerated)' = ClusterReport(R, cycles, tolerated)
<1>1. /\ \A e : Symbols(e)' = Symbols(e)
      /\ \A e : RemovalBias(e)' = RemovalBias(e)
      /\ \A n : OwningCrate(n)' = OwningCrate(n)
  BY DEF Symbols, Size, SymbolsOf, EdgeSymbols, RemovalBias, ContainsChild, FindEdge, Out, EdgeSet, OwningCrate
<1>2. \A coverage, e, f : Better(coverage, e, f)' <=> Better(coverage, e, f)
  BY <1>1 DEF Better
<1>3. \A edgeCycles : GreedyCover(edgeCycles)' = GreedyCover(edgeCycles)
  <2>1. \A coverage : Best(coverage)' = Best(coverage)
    BY <1>2 DEF Best
  <2>2. \A p, k, chosen : CoverRound(p, k, chosen)' = CoverRound(p, k, chosen)
    BY <2>1 DEF CoverRound
  <2>3. \A f, p : Cover!IsComputed(f, p)' <=> Cover!IsComputed(f, p)
    BY <2>2 DEF Cover!IsComputed
  <2>4. \A p : CoverWalk(p)' = CoverWalk(p)
    BY <2>3 DEF CoverWalk
  <2>5. CoverIsWalked'
    BY CoverWalks, PTL
  <2> QED
    BY <2>4, <2>5, CoverWalks DEF CoverIsWalked
<1>4. \A S, edgeCycles, every : FeedbackEdges(S, edgeCycles, every)' = FeedbackEdges(S, edgeCycles, every)
  <2>1. \A p, k, removed : FeedbackRound(p, k, removed)' = FeedbackRound(p, k, removed)
    BY <1>3 DEF FeedbackRound
  <2>2. \A f, p : Feedback!IsComputed(f, p)' <=> Feedback!IsComputed(f, p)
    BY <1>3, <2>1 DEF Feedback!IsComputed, FeedbackFirst
  <2>3. \A p : FeedbackWalk(p)' = FeedbackWalk(p)
    BY <2>2 DEF FeedbackWalk
  <2>4. FeedbackIsWalked'
    BY FeedbackWalks, PTL
  <2> QED
    BY <2>3, <2>4, FeedbackWalks DEF FeedbackIsWalked
<1>5. ASSUME NEW es, NEW edgeCycles PROVE Ranked(es, edgeCycles)' = Ranked(es, edgeCycles)
  BY <1>1 DEF Ranked
<1>6. \A scc : ClusterOf(R, cycles, scc, tolerated)' = ClusterOf(R, cycles, scc, tolerated)
  BY <1>1, <1>4, <1>5 DEF ClusterOf
<1>7. Clusters(R, cycles, tolerated)' = Clusters(R, cycles, tolerated)
  BY <1>6 DEF Clusters
<1> QED
  BY <1>7 DEF ClusterReport

(***************************************************************************)
(* Of any set of edges: the feedback edges of a cluster break each cycle    *)
(* that counts, a cluster that counts every cycle is acyclic without them,  *)
(* and each of them breaks a cycle that those before it leave, one that     *)
(* counts where not every cycle does (cluster_report, "verified feedback    *)
(* edge sets").                                                             *)
(***************************************************************************)
THEOREM ReportBreaksCycles ==
  ASSUME NEW R, IsNumbered(R), NEW cycles, cycles = RepresentativeCycles(R), NEW tolerated
  PROVE  \A c \in Range(ClusterReport(R, cycles, tolerated)) : BreaksCycles(R, cycles, tolerated, c)
<1> SUFFICES ASSUME NEW c \in Clusters(R, cycles, tolerated) PROVE BreaksCycles(R, cycles, tolerated, c)
  BY ReportHoldsClusters
<1>1. PICK scc \in Sccs(R) : c = ClusterOf(R, cycles, scc, tolerated)
  BY DEF Clusters
<1> QED
  BY <1>1, ClusterBreaksCycles

===============================================================================
