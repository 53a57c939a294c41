-------------------------------- MODULE Rounds --------------------------------
(***************************************************************************)
(* Functions that are computed in rounds: the first value is given, and     *)
(* round k makes the next one from the last. Such a function exists, and    *)
(* what holds of the first value and survives each round holds of all. `p`  *)
(* are the parameters of the operator that the function is defined in.      *)
(***************************************************************************)
EXTENDS Naturals, WellFoundedInduction, TLAPS

CONSTANTS First(_), Round(_, _, _), Inv(_, _, _)

IsComputed(f, p) == f = [k \in Nat |-> IF k = 0 THEN First(p) ELSE Round(p, k, f[k - 1])]

\* Up to n.
IsBegun(g, p, n) ==
  /\ g[0] = First(p)
  /\ \A k \in 1 .. n : g[k] = Round(p, k, g[k - 1])

LEMMA LeastNatural ==
  ASSUME NEW S, S \subseteq Nat, S # {}
  PROVE  \E m \in S : \A k \in S : m <= k
<1>1. PICK m \in S : \A k \in S : <<k, m>> \notin OpToRel(<, Nat)
  BY NatLessThanWellFounded, WFMin
<1>2. \A k \in S : ~(k < m)
  BY <1>1 DEF OpToRel
<1> QED
  BY <1>2

\* Induction, for sets of naturals.
LEMMA AllNaturals ==
  ASSUME NEW S, 0 \in S, \A n \in Nat : n \in S => n + 1 \in S
  PROVE  Nat \subseteq S
<1> SUFFICES ASSUME Nat \ S # {} PROVE FALSE
  OBVIOUS
<1>1. PICK m \in Nat \ S : \A k \in Nat \ S : m <= k
  BY LeastNatural
<1>2. m - 1 \in Nat /\ m - 1 \in S
  BY <1>1
<1> QED
  BY <1>2

\* Whatever is begun can go on.
LEMMA BegunForAll == \A p : \A n \in Nat : \E g : IsBegun(g, p, n)
<1> SUFFICES ASSUME NEW p PROVE \A n \in Nat : \E g : IsBegun(g, p, n)
  OBVIOUS
<1> DEFINE S == {n \in Nat : \E g : IsBegun(g, p, n)}
<1>1. 0 \in S
  <2>1. IsBegun([k \in {0} |-> First(p)], p, 0)
    BY DEF IsBegun
  <2> QED
    BY <2>1
<1>2. ASSUME NEW n \in Nat, n \in S PROVE n + 1 \in S
  <2>1. PICK g : IsBegun(g, p, n)
    BY <1>2
  <2> DEFINE h == [k \in 0 .. n + 1 |-> IF k = n + 1 THEN Round(p, n + 1, g[n]) ELSE g[k]]
  <2>2. IsBegun(h, p, n + 1)
    BY <2>1 DEF IsBegun
  <2> QED
    BY <2>2
<1> HIDE DEF S
<1>3. Nat \subseteq S
  BY <1>1, <1>2, AllNaturals
<1> QED
  BY <1>3 DEF S

LEMMA BegunAgree ==
  ASSUME NEW p, NEW m \in Nat, NEW n \in Nat, NEW g, IsBegun(g, p, m), NEW h, IsBegun(h, p, n)
  PROVE  \A k \in Nat : k <= m /\ k <= n => g[k] = h[k]
<1> DEFINE S == {k \in Nat : k <= m /\ k <= n /\ g[k] # h[k]}
<1> SUFFICES ASSUME S # {} PROVE FALSE
  OBVIOUS
<1>1. PICK k \in S : \A j \in S : k <= j
  BY LeastNatural
<1>2. k # 0
  BY DEF IsBegun
<1>3. k - 1 \in Nat /\ k - 1 \notin S
  BY <1>1, <1>2
<1>4. g[k - 1] = h[k - 1]
  BY <1>3
<1> QED
  BY <1>2, <1>4 DEF IsBegun

\* A function given by its rounds, as the walk of routes_over_unpositioned is, is a function.
THEOREM ComputedExists == \A p : \E f : IsComputed(f, p)
<1> SUFFICES ASSUME NEW p PROVE \E f : IsComputed(f, p)
  OBVIOUS
<1> DEFINE begun(n) == CHOOSE g : IsBegun(g, p, n)
           f == [k \in Nat |-> begun(k)[k]]
<1>1. \A n \in Nat : IsBegun(begun(n), p, n)
  BY BegunForAll
<1>2. f[0] = First(p)
  BY <1>1 DEF IsBegun
<1>3. ASSUME NEW k \in Nat, k # 0 PROVE f[k] = Round(p, k, f[k - 1])
  <2>1. k - 1 \in Nat /\ k \in 1 .. k
    BY <1>3
  <2>2. begun(k)[k] = Round(p, k, begun(k)[k - 1])
    BY <1>1, <2>1 DEF IsBegun
  <2>3. begun(k)[k - 1] = begun(k - 1)[k - 1]
    <3> HIDE DEF begun
    <3> QED
      BY <1>1, <2>1, BegunAgree
  <2> QED
    BY <2>1, <2>2, <2>3
<1>4. f = [k \in Nat |-> f[k]]
  OBVIOUS
<1> HIDE DEF f
<1>5. f = [k \in Nat |-> IF k = 0 THEN First(p) ELSE Round(p, k, f[k - 1])]
  BY <1>2, <1>3, <1>4
<1> QED
  BY <1>5 DEF IsComputed

\* What holds at the start of such a walk and survives each of its rounds holds after any number of
\* them.
THEOREM InvariantOfRounds ==
  ASSUME \A p : Inv(p, 0, First(p)),
         \A p : \A k \in Nat : \A v : Inv(p, k, v) => Inv(p, k + 1, Round(p, k + 1, v))
  PROVE  \A p, f : IsComputed(f, p) => \A k \in Nat : Inv(p, k, f[k])
<1> SUFFICES ASSUME NEW p, NEW f, IsComputed(f, p) PROVE \A k \in Nat : Inv(p, k, f[k])
  OBVIOUS
<1> DEFINE S == {k \in Nat : Inv(p, k, f[k])}
<1>1. f[0] = First(p) /\ \A k \in Nat : f[k + 1] = Round(p, k + 1, f[k])
  BY DEF IsComputed
<1>2. 0 \in S /\ \A k \in Nat : k \in S => k + 1 \in S
  BY <1>1
<1> HIDE DEF S
<1>3. Nat \subseteq S
  BY <1>2, AllNaturals
<1> QED
  BY <1>3 DEF S

===============================================================================
