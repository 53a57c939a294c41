---------------------------- MODULE DiagramProofs ----------------------------
(***************************************************************************)
(* Proofs about the graph that is built of a workspace and its diagnosis    *)
(* (DependencyGraph, Diagnosis), for any workspaces: two nodes have one     *)
(* edge for their uses, and the representative cycles of the finished graph *)
(* are shortest.                                                            *)
(***************************************************************************)
EXTENDS Diagnosis, CycleProofs

-----------------------------------------------------------------------------
(***************************************************************************)
(* Lists: sets that are listed, lists that are joined.                      *)
(***************************************************************************)
LEMMA SetIsListed ==
  ASSUME NEW S, IsFiniteSet(S)
  PROVE  /\ SetToSeq(S) \in Seq(S)
         /\ Range(SetToSeq(S)) = S
         /\ IsInjective(SetToSeq(S))
<1> DEFINE n == Cardinality(S)
<1>1. n \in Nat /\ ExistsBijection(1 .. n, S)
  BY FS_CardinalityType
<1>2. PICK g \in Bijection(1 .. n, S) : TRUE
  BY <1>1 DEF ExistsBijection
<1>3. g \in [1 .. n -> S] /\ IsInjective(g)
  BY <1>2 DEF Bijection, Injection, IsInjective
<1>4. SetToSeq(S) \in [1 .. n -> S] /\ IsInjective(SetToSeq(S))
  BY <1>3 DEF SetToSeq
<1>5. SetToSeq(S) \in Injection(1 .. n, S)
  BY <1>4 DEF Injection, IsInjective
<1>6. Cardinality(1 .. n) = n
  BY <1>1, FS_Interval
<1>7. SetToSeq(S) \in Surjection(1 .. n, S)
  BY <1>5, <1>6, FS_Injection
<1> QED
  BY <1>1, <1>4, <1>7 DEF Surjection, Range

LEMMA JoinedLists ==
  ASSUME NEW U, NEW s \in Seq(U), NEW t \in Seq(U)
  PROVE  /\ s \o t \in Seq(U)
         /\ DOMAIN (s \o t) = 1 .. Len(s) + Len(t)
         /\ \A i \in 1 .. Len(s) : (s \o t)[i] = s[i]
         /\ \A i \in 1 .. Len(t) : (s \o t)[Len(s) + i] = t[i]
         /\ Range(s \o t) = Range(s) \cup Range(t)
         /\ IsInjective(s) /\ IsInjective(t) /\ Range(s) \cap Range(t) = {} => IsInjective(s \o t)
<1> DEFINE j == s \o t
           m == Len(s)
           n == Len(t)
<1>1. /\ j \in Seq(U) /\ DOMAIN j = 1 .. m + n /\ m \in Nat /\ n \in Nat
      /\ DOMAIN s = 1 .. m /\ DOMAIN t = 1 .. n
      /\ \A i \in 1 .. m : j[i] = s[i]
      /\ \A i \in 1 .. n : j[m + i] = t[i]
  OBVIOUS
<1> HIDE DEF j, m, n
<1>2. ASSUME NEW i \in 1 .. m + n
      PROVE  (i \in 1 .. m /\ j[i] = s[i]) \/ (i - m \in 1 .. n /\ j[i] = t[i - m])
  <2>1. CASE i <= m
    BY <1>1, <2>1
  <2>2. CASE i > m
    <3>1. i - m \in 1 .. n /\ m + (i - m) = i
      BY <1>1, <2>2
    <3> QED
      BY <1>1, <3>1
  <2> QED
    BY <1>1, <2>1, <2>2
<1>3. Range(j) = Range(s) \cup Range(t)
  <2>1. Range(j) \subseteq Range(s) \cup Range(t)
    BY <1>1, <1>2 DEF Range
  <2>2. ASSUME NEW i \in 1 .. m PROVE s[i] \in Range(j)
    BY <1>1 DEF Range
  <2>3. ASSUME NEW i \in 1 .. n PROVE t[i] \in Range(j)
    <3>1. m + i \in DOMAIN j
      BY <1>1
    <3> QED
      BY <1>1, <3>1 DEF Range
  <2> QED
    BY <1>1, <2>1, <2>2, <2>3 DEF Range
<1>4. ASSUME IsInjective(s), IsInjective(t), Range(s) \cap Range(t) = {} PROVE IsInjective(j)
  <2>1. \A a \in 1 .. m, b \in 1 .. n : s[a] # t[b]
    BY <1>1, <1>4 DEF Range
  <2> SUFFICES ASSUME NEW a \in 1 .. m + n, NEW b \in 1 .. m + n, j[a] = j[b] PROVE a = b
    BY <1>1 DEF IsInjective
  <2>2. (a \in 1 .. m /\ b \in 1 .. m /\ s[a] = s[b])
        \/ (a - m \in 1 .. n /\ b - m \in 1 .. n /\ t[a - m] = t[b - m])
    BY <1>2, <2>1
  <2>3. (a \in 1 .. m /\ b \in 1 .. m /\ a = b) \/ a - m = b - m
    BY <1>1, <1>4, <2>2 DEF IsInjective
  <2> QED
    BY <1>1, <2>3
<1> QED
  BY <1>1, <1>3, <1>4 DEF j, m, n

\* p: the lists, and what they list.
FlatFirst(p) == p[1][1]
FlatRound(p, k, s) == s \o p[1][k + 1]

AreLists(seqs, U) == Len(seqs) \in Nat /\ DOMAIN seqs = 1 .. Len(seqs) /\ \A i \in DOMAIN seqs : seqs[i] \in Seq(U)
AreApart(seqs) ==
  /\ \A i \in DOMAIN seqs : IsInjective(seqs[i])
  /\ \A i, j \in DOMAIN seqs : i # j => Range(seqs[i]) \cap Range(seqs[j]) = {}

IsJoined(seqs, U, k, s) ==
  /\ s \in Seq(U)
  /\ Range(s) = UNION {Range(seqs[i]) : i \in 1 .. k}
  /\ AreApart(seqs) => IsInjective(s)
FlatInv(p, k, s) == AreLists(p[1], p[2]) /\ k + 1 <= Len(p[1]) => IsJoined(p[1], p[2], k + 1, s)

Flat == INSTANCE Rounds WITH First <- FlatFirst, Round <- FlatRound, Inv <- FlatInv

LEMMA FlatStarts == \A p : FlatInv(p, 0, FlatFirst(p))
<1> SUFFICES ASSUME NEW p, AreLists(p[1], p[2]), 0 + 1 <= Len(p[1])
             PROVE  IsJoined(p[1], p[2], 0 + 1, p[1][1])
  BY DEF FlatInv, FlatFirst
<1>1. 1 \in DOMAIN p[1] /\ 1 .. 0 + 1 = {1}
  BY DEF AreLists
<1> QED
  BY <1>1 DEF IsJoined, AreLists, AreApart

LEMMA FlatGoesOn ==
  \A p : \A k \in Nat : \A s : FlatInv(p, k, s) => FlatInv(p, k + 1, FlatRound(p, k + 1, s))
<1> SUFFICES ASSUME NEW p, NEW k \in Nat, NEW s, FlatInv(p, k, s),
                    AreLists(p[1], p[2]), (k + 1) + 1 <= Len(p[1])
             PROVE  IsJoined(p[1], p[2], (k + 1) + 1, s \o p[1][(k + 1) + 1])
  BY DEF FlatInv, FlatRound
<1> DEFINE seqs == p[1]
           U == p[2]
           i == (k + 1) + 1
           t == seqs[i]
<1>1. i \in DOMAIN seqs /\ 1 .. i = (1 .. k + 1) \cup {i} /\ i \notin 1 .. k + 1 /\ 1 .. k + 1 \subseteq DOMAIN seqs
  BY DEF AreLists
<1>2. IsJoined(seqs, U, k + 1, s)
  BY DEF FlatInv, AreLists
<1>3. s \in Seq(U) /\ t \in Seq(U)
  BY <1>1, <1>2 DEF IsJoined, AreLists
<1> HIDE DEF t, i, U, seqs
<1>4. s \o t \in Seq(U) /\ Range(s \o t) = Range(s) \cup Range(t)
  BY <1>3, JoinedLists
<1>5. Range(s \o t) = UNION {Range(seqs[j]) : j \in 1 .. i}
  BY <1>1, <1>2, <1>4 DEF IsJoined, t
<1>6. ASSUME AreApart(seqs) PROVE IsInjective(s \o t)
  <2>1. IsInjective(s) /\ IsInjective(t)
    BY <1>1, <1>2, <1>6 DEF IsJoined, AreApart, t
  <2>2. Range(s) \cap Range(t) = {}
    BY <1>1, <1>2, <1>6 DEF IsJoined, AreApart, t
  <2> QED
    BY <1>3, <2>1, <2>2, JoinedLists
<1> QED
  BY <1>4, <1>5, <1>6 DEF IsJoined, t, i, U, seqs

LEMMA FlatIsJoined ==
  ASSUME NEW seqs, NEW U, AreLists(seqs, U)
  PROVE  IsJoined(seqs, U, Len(seqs), FlattenSeq(seqs))
<1> DEFINE n == Len(seqs)
           p == <<seqs, U>>
           IsFlat(f) == f = [i \in 1 .. n |-> IF i = 1 THEN seqs[i] ELSE f[i - 1] \o seqs[i]]
           flat == CHOOSE f : IsFlat(f)
<1>1. n \in Nat /\ DOMAIN seqs = 1 .. n
  BY DEF AreLists
<1>2. CASE n = 0
  <2>1. FlattenSeq(seqs) = seqs
    BY <1>2 DEF FlattenSeq
  <2>2. seqs = <<>> /\ 1 .. n = {}
    BY <1>1, <1>2
  <2>3. seqs \in Seq(U) /\ Range(seqs) = {} /\ IsInjective(seqs)
    BY <1>1, <2>2 DEF Range, IsInjective
  <2> QED
    BY <2>1, <2>2, <2>3 DEF IsJoined
<1>3. CASE n # 0
  <2>1. FlattenSeq(seqs) = flat[n]
    BY <1>3 DEF FlattenSeq
  <2>2. PICK g : Flat!IsComputed(g, p)
    BY Flat!ComputedExists
  <2>3. g = [k \in Nat |-> IF k = 0 THEN seqs[1] ELSE g[k - 1] \o seqs[k + 1]]
    BY <2>2 DEF Flat!IsComputed, FlatFirst, FlatRound
  <2> DEFINE h == [i \in 1 .. n |-> g[i - 1]]
  <2>4. IsFlat(h)
    <3>1. ASSUME NEW i \in 1 .. n PROVE h[i] = IF i = 1 THEN seqs[i] ELSE h[i - 1] \o seqs[i]
      <4>1. CASE i = 1
        BY <1>1, <2>3, <4>1
      <4>2. CASE i # 1
        <5>1. i - 1 \in Nat /\ i - 1 # 0 /\ (i - 1) + 1 = i /\ i - 1 \in 1 .. n
          BY <1>1, <4>2
        <5>2. g[i - 1] = g[(i - 1) - 1] \o seqs[i]
          BY <2>3, <5>1
        <5> QED
          BY <4>2, <5>1, <5>2
      <4> QED
        BY <4>1, <4>2
    <3> QED
      BY <3>1
  <2> HIDE DEF h, IsFlat
  <2>5. IsFlat(flat)
    BY <2>4
  <2> USE DEF IsFlat
  <2> HIDE DEF flat
  <2> DEFINE S == {k \in Nat : k + 1 <= n => FlatInv(p, k, flat[k + 1])}
  <2>6. 0 \in S
    <3>1. 1 <= n => flat[1] = seqs[1]
      BY <1>1, <2>5
    <3>2. FlatInv(p, 0, seqs[1])
      BY FlatStarts DEF FlatFirst
    <3> QED
      BY <3>1, <3>2
  <2>7. ASSUME NEW k \in Nat, k \in S PROVE k + 1 \in S
    <3> SUFFICES ASSUME (k + 1) + 1 <= n PROVE FlatInv(p, k + 1, flat[(k + 1) + 1])
      OBVIOUS
    <3>1. (k + 1) + 1 \in 1 .. n /\ (k + 1) + 1 # 1 /\ ((k + 1) + 1) - 1 = k + 1 /\ k + 1 <= n
      BY <1>1
    <3>2. flat[(k + 1) + 1] = flat[k + 1] \o seqs[(k + 1) + 1]
      BY <2>5, <3>1
    <3>3. FlatInv(p, k, flat[k + 1])
      BY <2>7, <3>1
    <3> HIDE DEF flat, p
    <3>4. FlatInv(p, k + 1, FlatRound(p, k + 1, flat[k + 1]))
      BY <3>3, FlatGoesOn
    <3> QED
      BY <3>2, <3>4 DEF FlatRound, p
  <2> HIDE DEF S
  <2>8. Nat \subseteq S
    BY <2>6, <2>7, Flat!AllNaturals
  <2>9. n - 1 \in Nat /\ (n - 1) + 1 = n
    BY <1>1, <1>3
  <2>10. FlatInv(p, n - 1, flat[n])
    BY <2>8, <2>9 DEF S
  <2> QED
    BY <1>1, <2>1, <2>9, <2>10 DEF FlatInv
<1> QED
  BY <1>2, <1>3

-----------------------------------------------------------------------------
(***************************************************************************)
(* What the graph is made of, pass by pass.                                 *)
(***************************************************************************)
LEMMA ListIsListed ==
  ASSUME NEW U, NEW s \in Seq(U)
  PROVE  /\ IsListed(s) /\ DOMAIN s = 1 .. Len(s) /\ Len(s) \in Nat /\ Range(s) \subseteq U
         /\ IsFiniteSet(DOMAIN s)
<1>1. Len(s) \in Nat /\ DOMAIN s = 1 .. Len(s) /\ \A i \in DOMAIN s : s[i] \in Range(s) /\ s[i] \in U
  BY DEF Range
<1>2. s = [i \in 1 .. Len(s) |-> s[i]]
  BY <1>1
<1>3. s \in Seq(Range(s))
  BY <1>1, <1>2
<1> QED
  BY <1>1, <1>3, FS_Interval DEF IsListed, Range

LEMMA MaxIsMember ==
  ASSUME NEW n \in Nat, NEW S, S \subseteq 0 .. n, S # {}
  PROVE  Max(S) \in S /\ \A i \in S : i <= Max(S)
<1>1. IsFiniteSet(0 .. n) /\ S \in SUBSET (0 .. n)
  BY FS_Interval
<1>2. IsFiniteSet(S)
  BY <1>1, FS_Subset
<1>3. \A i \in S : i \in Nat
  OBVIOUS
<1>4. S \subseteq Nat
  BY <1>3
<1> QED
  BY <1>2, <1>4, MaxOfFinite

-----------------------------------------------------------------------------
LinkPlaces == {i \in DOMAIN edges : edges[i].weight = "ModuleDep"}

KeepsLinks == LinkPlaces' = LinkPlaces /\ \A i \in LinkPlaces : edges'[i] = edges[i]

IsOther(e) == e.weight \notin {"Contains", "ModuleDep"}
AddsOthers == \A e \in EdgeSet' : e \in EdgeSet \/ IsOther(e)

LEMMA OthersKeepLinks ==
  ASSUME IsListed(edges), NEW U, \A e \in U : IsOther(e), NEW s \in Seq(U), edges' = edges \o s
  PROVE  IsListed(edges)' /\ KeepsLinks /\ AddsOthers
<1> DEFINE V == Range(edges) \cup U
           j == edges \o s
           m == Len(edges)
           n == Len(s)
<1>1. edges \in Seq(V) /\ s \in Seq(V)
  BY DEF IsListed
<1>2. /\ j \in Seq(V) /\ DOMAIN j = 1 .. m + n /\ DOMAIN edges = 1 .. m /\ m \in Nat /\ n \in Nat
      /\ \A i \in 1 .. m : j[i] = edges[i]
      /\ \A i \in 1 .. n : j[m + i] = s[i] /\ s[i] \in U
      /\ Range(j) = Range(edges) \cup Range(s)
  BY <1>1, JoinedLists
<1> HIDE DEF V, j, m, n
<1>3. ASSUME NEW i \in 1 .. m + n, j[i].weight = "ModuleDep" PROVE i \in 1 .. m
  <2> SUFFICES ASSUME i > m PROVE FALSE
    BY <1>2
  <2>1. i - m \in 1 .. n /\ m + (i - m) = i
    BY <1>2
  <2> QED
    BY <1>2, <1>3, <2>1 DEF IsOther
<1>4. edges' = j
  BY DEF j
<1>5. IsListed(edges)'
  BY <1>2, <1>4, ListIsListed DEF IsListed
<1>6. 1 .. m \subseteq 1 .. m + n
  BY <1>2
<1>7. AddsOthers
  <2>1. Range(s) \subseteq U
    BY ListIsListed
  <2> QED
    BY <1>2, <1>4, <2>1 DEF AddsOthers, EdgeSet
<1> QED
  BY <1>2, <1>3, <1>4, <1>5, <1>6, <1>7 DEF KeepsLinks, LinkPlaces

-----------------------------------------------------------------------------
(***************************************************************************)
(* Nodes: the crates, the modules and then the packages.                    *)
(***************************************************************************)
CrateCount == Len(ws.crates)
MemberCount == Len(ws.crates) + Len(ws.modules)
WithMembers == {"crateDeps", "moduleDeps", "externals", "graph", "diagnosed"}

MembersAreFirst ==
  /\ MemberCount <= Len(nodes)
  /\ \A n \in DOMAIN nodes :
       nodes[n].kind = IF n <= CrateCount THEN "crate" ELSE IF n <= MemberCount THEN "module" ELSE "package"
  /\ moduleMap = [p \in {m.path : m \in Range(ws.modules)} |->
                    CrateCount + Max({i \in DOMAIN ws.modules : ws.modules[i].path = p})]

NodesInv ==
  /\ ws \in Workspaces
  /\ IsListed(nodes)
  /\ pc = "modules" => Len(nodes) = CrateCount /\ \A n \in DOMAIN nodes : nodes[n].kind = "crate"
  /\ pc \in WithMembers => MembersAreFirst
  /\ pc \in {"crateDeps", "moduleDeps", "externals"} => Len(nodes) = MemberCount

LEMMA ListedPlaces ==
  ASSUME NEW s, IsListed(s)
  PROVE  DOMAIN s = 1 .. Len(s) /\ Len(s) \in Nat
BY DEF IsListed

LEMMA WorkspaceIsListed ==
  ASSUME ws \in Workspaces
  PROVE  /\ IsListed(ws.crates) /\ DOMAIN ws.crates = 1 .. CrateCount /\ CrateCount \in Nat
         /\ IsListed(ws.modules) /\ DOMAIN ws.modules = 1 .. Len(ws.modules) /\ Len(ws.modules) \in Nat
         /\ IsListed(ws.packages) /\ DOMAIN ws.packages = 1 .. Len(ws.packages) /\ Len(ws.packages) \in Nat
         /\ MemberCount = CrateCount + Len(ws.modules) /\ MemberCount \in Nat /\ CrateCount <= MemberCount
<1>1. IsListed(ws.crates) /\ IsListed(ws.modules) /\ IsListed(ws.packages)
  BY WorkspaceAssumption DEF IsWorkspace
<1>2. DOMAIN ws.crates = 1 .. CrateCount /\ CrateCount \in Nat
  BY <1>1, ListedPlaces DEF CrateCount
<1>3. DOMAIN ws.modules = 1 .. Len(ws.modules) /\ Len(ws.modules) \in Nat
  BY <1>1, ListedPlaces
<1>4. DOMAIN ws.packages = 1 .. Len(ws.packages) /\ Len(ws.packages) \in Nat
  BY <1>1, ListedPlaces
<1>5. MemberCount = CrateCount + Len(ws.modules)
  BY DEF MemberCount, CrateCount
<1> QED
  BY <1>1, <1>2, <1>3, <1>4, <1>5

LEMMA CratesStep ==
  ASSUME NodesInv, AddCrates
  PROVE  NodesInv'
<1>1. DOMAIN ws.crates = 1 .. CrateCount /\ CrateCount \in Nat
  BY WorkspaceIsListed DEF NodesInv
<1> DEFINE node == [i \in DOMAIN ws.crates |-> Node("crate", <<ws.crates[i].name>>, i)]
<1>2. node \in Seq(Range(node)) /\ Len(node) = CrateCount
  BY <1>1 DEF Range
<1>3. \A n \in DOMAIN node : node[n].kind = "crate"
  BY DEF Node
<1>4. nodes' = node /\ ws' = ws /\ pc' = "modules"
  BY DEF AddCrates
<1> HIDE DEF node
<1>5. IsListed(nodes)'
  BY <1>2, <1>4 DEF IsListed
<1> QED
  BY <1>2, <1>3, <1>4, <1>5 DEF NodesInv, WithMembers, CrateCount

LEMMA NodesAreAdded ==
  ASSUME IsListed(nodes), NEW s, IsListed(s), nodes' = nodes \o s
  PROVE  /\ IsListed(nodes)' /\ Len(nodes') = Len(nodes) + Len(s) /\ Len(nodes) \in Nat /\ Len(s) \in Nat
         /\ DOMAIN nodes' = 1 .. Len(nodes) + Len(s) /\ DOMAIN nodes = 1 .. Len(nodes)
         /\ \A n \in DOMAIN nodes' :
              IF n <= Len(nodes) THEN n \in DOMAIN nodes /\ nodes'[n] = nodes[n]
              ELSE n - Len(nodes) \in DOMAIN s /\ nodes'[n] = s[n - Len(nodes)]
<1> DEFINE U == Range(nodes) \cup Range(s)
           m == Len(nodes)
           k == Len(s)
           j == nodes \o s
<1>1. nodes \in Seq(U) /\ s \in Seq(U)
  BY DEF IsListed
<1>2. /\ j \in Seq(U) /\ Len(j) = m + k /\ DOMAIN j = 1 .. m + k /\ DOMAIN nodes = 1 .. m /\ DOMAIN s = 1 .. k
      /\ m \in Nat /\ k \in Nat
      /\ \A i \in 1 .. m : j[i] = nodes[i]
      /\ \A i \in 1 .. k : j[m + i] = s[i]
  BY <1>1, JoinedLists
<1>3. nodes' = j
  OBVIOUS
<1> HIDE DEF U, m, k, j
<1>4. ASSUME NEW n \in 1 .. m + k
      PROVE  IF n <= m THEN n \in 1 .. m /\ j[n] = nodes[n] ELSE n - m \in 1 .. k /\ j[n] = s[n - m]
  <2>1. CASE n <= m
    BY <1>2, <2>1
  <2>2. CASE n > m
    <3>1. n - m \in 1 .. k /\ m + (n - m) = n
      BY <1>2, <2>2
    <3> QED
      BY <1>2, <2>2, <3>1
  <2> QED
    BY <1>2, <2>1, <2>2
<1>5. IsListed(nodes)'
  BY <1>2, <1>3, ListIsListed DEF IsListed
<1> QED
  BY <1>2, <1>3, <1>4, <1>5 DEF m, k

LEMMA ModulesStep ==
  ASSUME NodesInv, AddModules
  PROVE  NodesInv'
<1> DEFINE s == [i \in DOMAIN ws.modules |->
                   Node("module", ws.modules[i].path, Max(CrateOf(ws.modules[i].path[1])))]
<1>1. DOMAIN ws.modules = 1 .. Len(ws.modules) /\ Len(ws.modules) \in Nat /\ CrateCount \in Nat
  BY WorkspaceIsListed DEF NodesInv
<1>2. s \in Seq(Range(s)) /\ Len(s) = Len(ws.modules) /\ DOMAIN s = DOMAIN ws.modules
  BY <1>1 DEF Range
<1>3. \A n \in DOMAIN s : s[n].kind = "module"
  BY DEF Node
<1>4. nodes' = nodes \o s /\ ws' = ws /\ pc' = "crateDeps" /\ pc = "modules"
  BY DEF AddModules
<1>5. Len(nodes) = CrateCount /\ \A n \in DOMAIN nodes : nodes[n].kind = "crate"
  BY <1>4 DEF NodesInv
<1>6. moduleMap' = [p \in {m.path : m \in Range(ws.modules)} |->
                     CrateCount + Max({i \in DOMAIN ws.modules : ws.modules[i].path = p})]
  BY <1>5 DEF AddModules
<1> HIDE DEF s
<1>7. /\ IsListed(nodes)' /\ Len(nodes') = MemberCount /\ DOMAIN nodes' = 1 .. MemberCount
      /\ \A n \in DOMAIN nodes' : nodes'[n].kind = IF n <= CrateCount THEN "crate" ELSE "module"
  <2>1. IsListed(nodes) /\ IsListed(s) /\ MemberCount = CrateCount + Len(ws.modules)
    BY <1>2, WorkspaceIsListed DEF NodesInv, IsListed
  <2>2. /\ IsListed(nodes)' /\ Len(nodes') = MemberCount /\ DOMAIN nodes' = 1 .. MemberCount
        /\ \A n \in DOMAIN nodes' :
             IF n <= CrateCount THEN n \in DOMAIN nodes /\ nodes'[n] = nodes[n]
             ELSE n - CrateCount \in DOMAIN s /\ nodes'[n] = s[n - CrateCount]
    BY <1>2, <1>4, <1>5, <2>1, NodesAreAdded
  <2> QED
    BY <1>3, <1>5, <2>2
<1>8. CrateCount' = CrateCount /\ MemberCount' = MemberCount
  BY <1>4 DEF CrateCount, MemberCount
<1>9. MembersAreFirst'
  <2>1. MemberCount' <= Len(nodes')
    BY <1>7, <1>8, WorkspaceIsListed DEF NodesInv
  <2>2. \A n \in DOMAIN nodes' : n <= MemberCount
    BY <1>7, WorkspaceIsListed DEF NodesInv
  <2> QED
    BY <1>4, <1>6, <1>7, <1>8, <2>1, <2>2 DEF MembersAreFirst
<1> QED
  BY <1>4, <1>7, <1>8, <1>9 DEF NodesInv

LEMMA ExternalsStep ==
  ASSUME NodesInv, AddExternals
  PROVE  NodesInv'
<1> DEFINE s == [k \in DOMAIN ws.packages |-> Node("package", <<ws.packages[k]>>, Len(nodes) + k)]
<1>1. DOMAIN ws.packages = 1 .. Len(ws.packages) /\ Len(ws.packages) \in Nat /\ MemberCount \in Nat
  BY WorkspaceIsListed DEF NodesInv
<1>2. s \in Seq(Range(s)) /\ Len(s) = Len(ws.packages)
  BY <1>1 DEF Range
<1>3. \A n \in DOMAIN s : s[n].kind = "package"
  BY DEF Node
<1>4. nodes' = nodes \o s /\ ws' = ws /\ pc' = "graph" /\ pc = "externals" /\ moduleMap' = moduleMap
  BY DEF AddExternals
<1>5. Len(nodes) = MemberCount /\ MembersAreFirst
  BY <1>4 DEF NodesInv, WithMembers
<1> HIDE DEF s
<1>6. /\ IsListed(nodes)' /\ Len(nodes') = MemberCount + Len(s)
      /\ \A n \in DOMAIN nodes' :
           IF n <= MemberCount THEN n \in DOMAIN nodes /\ nodes'[n] = nodes[n] ELSE nodes'[n].kind = "package"
  BY <1>2, <1>3, <1>4, <1>5, NodesAreAdded DEF NodesInv, IsListed
<1>7. CrateCount' = CrateCount /\ MemberCount' = MemberCount /\ CrateCount <= MemberCount
  <2>1. CrateCount <= MemberCount
    BY WorkspaceIsListed DEF NodesInv
  <2> QED
    BY <1>4, <2>1 DEF CrateCount, MemberCount
<1>8. \A n \in DOMAIN nodes' : n \in Nat
  BY <1>6, ListIsListed DEF IsListed
<1>9. MembersAreFirst'
  <2>1. MemberCount' <= Len(nodes')
    BY <1>1, <1>2, <1>6, <1>7
  <2>2. ASSUME NEW n \in DOMAIN nodes'
        PROVE  nodes'[n].kind = IF n <= CrateCount THEN "crate" ELSE IF n <= MemberCount THEN "module" ELSE "package"
    BY <1>1, <1>5, <1>6, <1>7, <1>8, WorkspaceIsListed DEF MembersAreFirst, NodesInv
  <2> QED
    BY <1>4, <1>5, <1>7, <2>1, <2>2 DEF MembersAreFirst
<1> QED
  BY <1>4, <1>6, <1>9 DEF NodesInv

-----------------------------------------------------------------------------
(***************************************************************************)
(* A member's path resolves to it and to no other, and no other path does.  *)
(***************************************************************************)
PathOf(n) == IF n <= CrateCount THEN <<ws.crates[n].name>> ELSE ws.modules[n - CrateCount].path
RefsAt(n) == IF n <= CrateCount THEN ws.crates[n].root ELSE ws.modules[n - CrateCount].dependencies

LEMMA ModulesAreMapped ==
  ASSUME ws \in Workspaces, MembersAreFirst
  PROVE  /\ \A p : p \in DOMAIN moduleMap <=> \E i \in DOMAIN ws.modules : ws.modules[i].path = p
         /\ \A p \in DOMAIN moduleMap :
              \E i \in DOMAIN ws.modules : ws.modules[i].path = p /\ moduleMap[p] = CrateCount + i
         /\ \A i \in DOMAIN ws.modules : Len(ws.modules[i].path) > 1 /\ IsListed(ws.modules[i].path)
<1> DEFINE places(p) == {i \in DOMAIN ws.modules : ws.modules[i].path = p}
<1>1. moduleMap = [p \in {m.path : m \in Range(ws.modules)} |-> CrateCount + Max(places(p))]
  BY DEF MembersAreFirst
<1>2. \A p : p \in DOMAIN moduleMap <=> \E i \in DOMAIN ws.modules : ws.modules[i].path = p
  BY <1>1 DEF Range
<1>3. ASSUME NEW p \in DOMAIN moduleMap PROVE Max(places(p)) \in places(p)
  <2>1. places(p) # {} /\ places(p) \subseteq 0 .. Len(ws.modules) /\ Len(ws.modules) \in Nat
    BY <1>2, WorkspaceIsListed
  <2> HIDE DEF places
  <2> QED
    BY <2>1, MaxIsMember
<1>4. \A p \in DOMAIN moduleMap : moduleMap[p] = CrateCount + Max(places(p))
  BY <1>1
<1>5. \A i \in DOMAIN ws.modules : Len(ws.modules[i].path) > 1 /\ IsListed(ws.modules[i].path)
  BY WorkspaceAssumption DEF IsWorkspace
<1> QED
  BY <1>2, <1>3, <1>4, <1>5

LEMMA PathIsOfNode ==
  ASSUME ws \in Workspaces, MembersAreFirst, IsListed(nodes), PathsDiffer(ws),
         NEW b \in 1 .. MemberCount, NEW p, IsListed(p)
  PROVE  b \in Resolve(p) <=> p = PathOf(b)
<1>1. /\ MemberCount = CrateCount + Len(ws.modules) /\ MemberCount \in Nat /\ CrateCount \in Nat
      /\ DOMAIN ws.modules = 1 .. Len(ws.modules) /\ DOMAIN ws.crates = 1 .. CrateCount
      /\ Len(ws.modules) \in Nat
  BY WorkspaceIsListed
<1>2. b > CrateCount => b - CrateCount \in DOMAIN ws.modules /\ CrateCount + (b - CrateCount) = b
  BY <1>1
<1>3. b <= CrateCount => b \in DOMAIN ws.crates /\ PathOf(b) = <<ws.crates[b].name>>
  BY <1>1 DEF PathOf
<1>4. b > CrateCount => PathOf(b) = ws.modules[b - CrateCount].path
  BY <1>1 DEF PathOf
<1>5. CASE p \in DOMAIN moduleMap
  <2>1. PICK i \in DOMAIN ws.modules : ws.modules[i].path = p /\ moduleMap[p] = CrateCount + i
    BY <1>5, ModulesAreMapped
  <2>2. Resolve(p) = {CrateCount + i}
    BY <1>5, <2>1 DEF Resolve
  <2>3. Len(p) > 1
    BY <2>1, ModulesAreMapped
  <2>4. ASSUME b = CrateCount + i PROVE p = PathOf(b)
    <3>1. b > CrateCount /\ b - CrateCount = i
      BY <1>1, <2>1, <2>4
    <3> QED
      BY <1>4, <2>1, <3>1
  <2>5. ASSUME p = PathOf(b) PROVE b = CrateCount + i
    <3>1. b > CrateCount
      <4>1. ASSUME b <= CrateCount PROVE FALSE
        <5>1. Len(p) = 1
          BY <1>3, <2>5, <4>1
        <5>2. ~(1 > 1)
          OBVIOUS
        <5> QED
          BY <2>3, <5>1, <5>2
      <4> QED
        BY <1>1, <4>1
    <3>2. b - CrateCount = i
      BY <1>2, <1>4, <2>1, <2>5, <3>1 DEF PathsDiffer
    <3> QED
      BY <1>2, <3>1, <3>2
  <2> QED
    BY <2>2, <2>4, <2>5
<1>6. CASE p \notin DOMAIN moduleMap
  <2>1. ASSUME p = PathOf(b) PROVE b \in Resolve(p)
    <3>1. b <= CrateCount
      BY <1>1, <1>2, <1>4, <1>6, <2>1, ModulesAreMapped
    <3>2. p = <<ws.crates[b].name>> /\ Len(p) = 1 /\ b \in CrateOf(p[1])
      BY <1>3, <2>1, <3>1 DEF CrateOf
    <3> QED
      BY <1>6, <3>2 DEF Resolve
  <2>2. ASSUME b \in Resolve(p) PROVE p = PathOf(b)
    <3>1. b \notin PackageNodes
      BY <1>1 DEF MembersAreFirst, PackageNodes, Kind
    <3>2. Len(p) = 1 /\ b \in CrateOf(p[1])
      BY <1>6, <2>2, <3>1 DEF Resolve
    <3>3. b \in DOMAIN ws.crates /\ ws.crates[b].name = p[1] /\ b <= CrateCount
      BY <1>1, <3>2 DEF CrateOf
    <3>4. p = <<p[1]>>
      BY <3>2 DEF IsListed
    <3> QED
      BY <1>3, <3>3, <3>4
  <2> QED
    BY <2>1, <2>2
<1> QED
  BY <1>5, <1>6

LEMMA PathResolves ==
  ASSUME ws \in Workspaces, MembersAreFirst, IsListed(nodes), PathsDiffer(ws), NEW b \in 1 .. MemberCount
  PROVE  Resolve(PathOf(b)) = {b}
<1>1. /\ MemberCount = CrateCount + Len(ws.modules) /\ MemberCount \in Nat /\ CrateCount \in Nat
      /\ DOMAIN ws.modules = 1 .. Len(ws.modules) /\ DOMAIN ws.crates = 1 .. CrateCount
      /\ Len(ws.modules) \in Nat
  BY WorkspaceIsListed
<1>2. CASE b > CrateCount
  <2>1. b - CrateCount \in DOMAIN ws.modules /\ PathOf(b) = ws.modules[b - CrateCount].path
    BY <1>1, <1>2 DEF PathOf
  <2>2. PathOf(b) \in DOMAIN moduleMap /\ IsListed(PathOf(b))
    BY <2>1, ModulesAreMapped
  <2>3. b \in Resolve(PathOf(b))
    BY <2>2, PathIsOfNode
  <2> QED
    BY <2>2, <2>3 DEF Resolve
<1>3. CASE b <= CrateCount
  <2>1. b \in DOMAIN ws.crates /\ PathOf(b) = <<ws.crates[b].name>>
    BY <1>1, <1>3 DEF PathOf
  <2>2. Len(PathOf(b)) = 1 /\ PathOf(b)[1] = ws.crates[b].name
    BY <2>1
  <2>3. PathOf(b) \notin DOMAIN moduleMap
    <3>1. ~(1 > 1)
      OBVIOUS
    <3> QED
      BY <2>2, <3>1, ModulesAreMapped
  <2>4. CrateOf(PathOf(b)[1]) = {b}
    BY <2>1, <2>2 DEF CrateOf, PathsDiffer
  <2> QED
    BY <2>2, <2>3, <2>4 DEF Resolve
<1> QED
  BY <1>1, <1>2, <1>3

-----------------------------------------------------------------------------
(***************************************************************************)
(* The dependencies of a module: finitely many, and none on itself.         *)
(***************************************************************************)
LEMMA ResolvedAreNodes ==
  ASSUME NodesInv, pc \in WithMembers, NEW p
  PROVE  Resolve(p) \subseteq DOMAIN nodes /\ Resolve(p) \subseteq Nat /\ IsFiniteSet(Resolve(p))
<1>1. /\ CrateCount \in Nat /\ DOMAIN ws.modules = 1 .. Len(ws.modules) /\ DOMAIN ws.crates = 1 .. CrateCount
      /\ DOMAIN nodes = 1 .. Len(nodes) /\ Len(nodes) \in Nat /\ Len(ws.modules) \in Nat
  BY WorkspaceIsListed, ListedPlaces DEF NodesInv
<1>2. CrateCount + Len(ws.modules) <= Len(nodes)
  BY WorkspaceIsListed DEF NodesInv, MembersAreFirst
<1>3. Resolve(p) \subseteq DOMAIN nodes
  <2>1. CASE p \in DOMAIN moduleMap
    <3>1. PICK i \in DOMAIN ws.modules : moduleMap[p] = CrateCount + i
      BY <2>1, ModulesAreMapped DEF NodesInv
    <3>2. moduleMap[p] \in DOMAIN nodes
      BY <1>1, <1>2, <3>1
    <3> QED
      BY <2>1, <3>2 DEF Resolve
  <2>2. CASE p \notin DOMAIN moduleMap
    <3>1. DOMAIN ws.crates \subseteq DOMAIN nodes
      BY <1>1, <1>2
    <3> QED
      BY <2>2, <3>1 DEF Resolve, CrateOf, PackageNodes
  <2> QED
    BY <2>1, <2>2
<1>4. IsFiniteSet(DOMAIN nodes) /\ DOMAIN nodes \subseteq Nat
  BY <1>1, FS_Interval
<1> QED
  BY <1>3, <1>4, FS_Subset

Group(refs, to) == {r \in refs : r.to = to}
DepsOn(from, refs, to) ==
  {Edge(a, b, "ModuleDep", AggregateContext(Group(refs, to)), Locations(Group(refs, to))) :
     a \in Resolve(from), b \in Resolve(to) \ Resolve(from)}

LEMMA DepsByTarget ==
  ASSUME NEW from, NEW refs
  PROVE  ModuleDeps(from, refs) = UNION {DepsOn(from, refs, to) : to \in {r.to : r \in refs}}
BY DEF ModuleDeps, DepsOn, Group

LEMMA DepsAreLinks ==
  ASSUME NodesInv, pc \in WithMembers, NEW from, NEW refs, IsFiniteSet(refs)
  PROVE  /\ IsFiniteSet(ModuleDeps(from, refs))
         /\ \A e \in ModuleDeps(from, refs) :
              /\ e.weight = "ModuleDep" /\ e.src \in Resolve(from)
              /\ e.src \in Nat /\ e.dst \in Nat /\ e.src # e.dst
              /\ {e.src, e.dst} \subseteq DOMAIN nodes
<1> DEFINE tos == {r.to : r \in refs}
           A == Resolve(from)
           edge(to, a, b) == Edge(a, b, "ModuleDep", AggregateContext(Group(refs, to)), Locations(Group(refs, to)))
<1>1. IsFiniteSet(tos)
  <2>1. tos = Range([r \in refs |-> r.to])
    BY DEF Range
  <2> QED
    BY <2>1, ImageIsFinite
<1>2. ASSUME NEW to PROVE IsFiniteSet(DepsOn(from, refs, to))
  <2> DEFINE B == Resolve(to) \ A
             f == [q \in A \X B |-> edge(to, q[1], q[2])]
  <2>1. IsFiniteSet(A) /\ IsFiniteSet(B)
    BY ResolvedAreNodes, FS_Subset
  <2>2. IsFiniteSet(A \X B)
    BY <2>1, FS_Product
  <2> HIDE DEF edge
  <2>3. DepsOn(from, refs, to) = {edge(to, a, b) : a \in A, b \in B}
    BY DEF DepsOn, edge
  <2> HIDE DEF A, B
  <2>4. DepsOn(from, refs, to) \subseteq Range(f)
    <3>1. ASSUME NEW a \in A, NEW b \in B PROVE edge(to, a, b) \in Range(f)
      <4>1. <<a, b>> \in DOMAIN f /\ f[<<a, b>>] = edge(to, a, b)
        OBVIOUS
      <4> QED
        BY <4>1 DEF Range
    <3> HIDE DEF f
    <3> QED
      BY <2>3, <3>1
  <2>5. DOMAIN f = A \X B
    OBVIOUS
  <2> HIDE DEF f
  <2>6. IsFiniteSet(Range(f))
    BY <2>2, <2>5, ImageIsFinite
  <2> QED
    BY <2>4, <2>6, FS_Subset
<1>3. IsFiniteSet(ModuleDeps(from, refs))
  <2> DEFINE sets == {DepsOn(from, refs, to) : to \in tos}
  <2>1. sets = Range([to \in tos |-> DepsOn(from, refs, to)])
    BY DEF Range
  <2>2. IsFiniteSet(sets)
    BY <1>1, <2>1, ImageIsFinite
  <2> QED
    BY <1>2, <2>2, FS_UNION, DepsByTarget
<1>4. ASSUME NEW e \in ModuleDeps(from, refs)
      PROVE  /\ e.weight = "ModuleDep" /\ e.src \in Resolve(from)
             /\ e.src \in Nat /\ e.dst \in Nat /\ e.src # e.dst
             /\ {e.src, e.dst} \subseteq DOMAIN nodes
  <2>1. PICK to \in tos : e \in DepsOn(from, refs, to)
    BY DepsByTarget
  <2>2. PICK a \in A, b \in Resolve(to) \ A : e = edge(to, a, b)
    BY <2>1 DEF DepsOn
  <2>3. e.weight = "ModuleDep" /\ e.src = a /\ e.dst = b
    BY <2>2 DEF Edge
  <2>4. {a, b} \subseteq Nat /\ {a, b} \subseteq DOMAIN nodes
    BY ResolvedAreNodes
  <2> QED
    BY <2>3, <2>4
<1> QED
  BY <1>3, <1>4

-----------------------------------------------------------------------------
(***************************************************************************)
(* The edges between modules: none runs from a module to itself, and only   *)
(* AddModuleDeps adds any.                                                  *)
(***************************************************************************)
DepsOf(a) == ModuleDeps(PathOf(a), RefsAt(a))
AllDeps == UNION {DepsOf(a) : a \in 1 .. MemberCount}

Linked == pc \in {"externals", "graph", "diagnosed"}

LinksInv ==
  /\ IsListed(edges)
  /\ ~Linked => LinkPlaces = {}
  /\ \A i \in LinkPlaces : edges[i].src \in Nat /\ edges[i].dst \in Nat /\ edges[i].src # edges[i].dst

LEMMA RefsAreFinite ==
  ASSUME ws \in Workspaces, NEW a \in 1 .. MemberCount
  PROVE  IsFiniteSet(RefsAt(a)) /\ \A r \in RefsAt(a) : IsListed(r.to)
<1>1. /\ MemberCount = CrateCount + Len(ws.modules) /\ MemberCount \in Nat /\ CrateCount \in Nat
      /\ DOMAIN ws.modules = 1 .. Len(ws.modules) /\ DOMAIN ws.crates = 1 .. CrateCount
      /\ Len(ws.modules) \in Nat
  BY WorkspaceIsListed
<1>2. RefsAt(a) \in RefLists(ws)
  <2>1. CASE a <= CrateCount
    <3>1. a \in DOMAIN ws.crates /\ RefsAt(a) = ws.crates[a].root
      BY <1>1, <2>1 DEF RefsAt
    <3> QED
      BY <3>1 DEF RefLists, Range
  <2>2. CASE a > CrateCount
    <3>1. a - CrateCount \in DOMAIN ws.modules /\ RefsAt(a) = ws.modules[a - CrateCount].dependencies
      BY <1>1, <2>2 DEF RefsAt
    <3> QED
      BY <3>1 DEF RefLists, Range
  <2> QED
    BY <1>1, <2>1, <2>2
<1>3. /\ \A refs \in RefLists(ws) : IsFiniteSet(refs)
      /\ \A r \in UNION RefLists(ws) : IsListed(r.to)
  BY WorkspaceAssumption DEF IsWorkspace
<1> QED
  BY <1>2, <1>3

AreSetsOf(sets, U) == \A i \in DOMAIN sets : IsFiniteSet(sets[i]) /\ sets[i] \subseteq U
AreDisjoint(sets) == \A i, j \in DOMAIN sets : i # j => sets[i] \cap sets[j] = {}
ListSets(seqs, sets) ==
  /\ Len(seqs) \in Nat /\ DOMAIN seqs = 1 .. Len(seqs) /\ DOMAIN sets = DOMAIN seqs
  /\ \A i \in DOMAIN sets : seqs[i] = SetToSeq(sets[i])

LEMMA SetsAreListed ==
  ASSUME NEW sets, NEW U, AreSetsOf(sets, U), NEW seqs, ListSets(seqs, sets)
  PROVE  /\ FlattenSeq(seqs) \in Seq(U)
         /\ Range(FlattenSeq(seqs)) = UNION Range(sets)
         /\ AreDisjoint(sets) => IsInjective(FlattenSeq(seqs))
<1>1. /\ Len(seqs) \in Nat /\ DOMAIN seqs = 1 .. Len(seqs) /\ DOMAIN sets = DOMAIN seqs
      /\ 1 .. Len(seqs) = DOMAIN seqs
  BY DEF ListSets
<1>2. ASSUME NEW i \in DOMAIN seqs
      PROVE  seqs[i] \in Seq(U) /\ Range(seqs[i]) = sets[i] /\ IsInjective(seqs[i])
  <2>1. IsFiniteSet(sets[i]) /\ sets[i] \subseteq U /\ seqs[i] = SetToSeq(sets[i])
    BY <1>1 DEF ListSets, AreSetsOf
  <2>2. seqs[i] \in Seq(sets[i]) /\ Range(seqs[i]) = sets[i] /\ IsInjective(seqs[i])
    BY <2>1, SetIsListed
  <2>3. seqs[i] \in Seq(U)
    BY <2>1, <2>2
  <2> QED
    BY <2>2, <2>3
<1>3. AreLists(seqs, U)
  BY <1>1, <1>2 DEF AreLists
<1>4. IsJoined(seqs, U, Len(seqs), FlattenSeq(seqs))
  BY <1>3, FlatIsJoined
<1> DEFINE ranges == {Range(seqs[i]) : i \in 1 .. Len(seqs)}
<1>5. \A S : S \in ranges <=> \E i \in DOMAIN seqs : S = Range(seqs[i])
  BY <1>1
<1>6. \A S : S \in Range(sets) <=> \E i \in DOMAIN seqs : S = sets[i]
  BY <1>1 DEF Range
<1>7. UNION ranges = UNION Range(sets)
  <2> HIDE DEF ranges
  <2>1. \A S : S \in ranges <=> S \in Range(sets)
    BY <1>2, <1>5, <1>6
  <2> QED
    BY <2>1
<1>8. ASSUME AreDisjoint(sets) PROVE AreApart(seqs)
  <2>1. \A i \in DOMAIN seqs : IsInjective(seqs[i])
    BY <1>2
  <2>2. ASSUME NEW i \in DOMAIN seqs, NEW j \in DOMAIN seqs, i # j PROVE Range(seqs[i]) \cap Range(seqs[j]) = {}
    <3>1. sets[i] \cap sets[j] = {}
      BY <1>1, <1>8, <2>2 DEF AreDisjoint
    <3> QED
      BY <1>2, <3>1
  <2> QED
    BY <2>1, <2>2 DEF AreApart
<1> QED
  BY <1>4, <1>7, <1>8 DEF IsJoined

LEMMA MembersAreCounted ==
  ASSUME ws \in Workspaces
  PROVE  /\ \A i \in 1 .. CrateCount : /\ i \in 1 .. MemberCount /\ i \in DOMAIN ws.crates
                                       /\ PathOf(i) = <<ws.crates[i].name>> /\ RefsAt(i) = ws.crates[i].root
         /\ \A i \in 1 .. Len(ws.modules) :
              /\ CrateCount + i \in 1 .. MemberCount /\ i \in DOMAIN ws.modules
              /\ PathOf(CrateCount + i) = ws.modules[i].path
              /\ RefsAt(CrateCount + i) = ws.modules[i].dependencies
         /\ \A a \in 1 .. MemberCount :
              a \in 1 .. CrateCount \/ \E i \in 1 .. Len(ws.modules) : a = CrateCount + i
<1> DEFINE C == CrateCount
           n == Len(ws.modules)
<1>1. /\ MemberCount = C + n /\ C \in Nat /\ n \in Nat
      /\ DOMAIN ws.modules = 1 .. n /\ DOMAIN ws.crates = 1 .. C
  BY WorkspaceIsListed
<1>2. ASSUME NEW i \in 1 .. n
      PROVE  PathOf(C + i) = ws.modules[i].path /\ RefsAt(C + i) = ws.modules[i].dependencies
  <2>1. ~(C + i <= C) /\ (C + i) - C = i
    BY <1>1
  <2> QED
    BY <2>1 DEF PathOf, RefsAt
<1>3. ASSUME NEW a \in 1 .. MemberCount PROVE a \in 1 .. C \/ \E i \in 1 .. n : a = C + i
  <2> SUFFICES ASSUME a > C PROVE \E i \in 1 .. n : a = C + i
    BY <1>1
  <2>1. a - C \in 1 .. n /\ a = C + (a - C)
    BY <1>1
  <2> QED
    BY <2>1
<1>4. \A i \in 1 .. C : PathOf(i) = <<ws.crates[i].name>> /\ RefsAt(i) = ws.crates[i].root
  BY <1>1 DEF PathOf, RefsAt
<1>5. (\A i \in 1 .. C : i \in 1 .. MemberCount) /\ \A i \in 1 .. n : C + i \in 1 .. MemberCount
  BY <1>1
<1> QED
  BY <1>1, <1>2, <1>3, <1>4, <1>5

\* The lists that AddModuleDeps puts one after the other.
LEMMA DepsAreListed ==
  ASSUME NodesInv, pc \in WithMembers,
         NEW crates, DOMAIN crates = 1 .. CrateCount, Len(crates) = CrateCount,
         \A i \in 1 .. CrateCount : crates[i] = SetToSeq(DepsOf(i)),
         NEW modules, DOMAIN modules = 1 .. Len(ws.modules), Len(modules) = Len(ws.modules),
         \A i \in 1 .. Len(ws.modules) : modules[i] = SetToSeq(DepsOf(CrateCount + i)),
         NEW all, all = FlattenSeq(crates) \o FlattenSeq(modules)
  PROVE  /\ all \in Seq(AllDeps) /\ Range(all) = AllDeps
         /\ PathsDiffer(ws) => IsInjective(all)
<1> DEFINE C == CrateCount
           n == Len(ws.modules)
           one == [i \in 1 .. C |-> DepsOf(i)]
           two == [i \in 1 .. n |-> DepsOf(C + i)]
           first == FlattenSeq(crates)
           then == FlattenSeq(modules)
<1>1. MemberCount = C + n /\ C \in Nat /\ n \in Nat
  BY WorkspaceIsListed DEF NodesInv
<1>2. /\ \A i \in 1 .. C : i \in 1 .. MemberCount
      /\ \A i \in 1 .. n : C + i \in 1 .. MemberCount
      /\ \A a \in 1 .. MemberCount : a \in 1 .. C \/ \E i \in 1 .. n : a = C + i
  BY MembersAreCounted DEF NodesInv
<1>3. \A a \in 1 .. MemberCount : IsFiniteSet(DepsOf(a)) /\ DepsOf(a) \subseteq AllDeps
  <2> SUFFICES ASSUME NEW a \in 1 .. MemberCount PROVE IsFiniteSet(DepsOf(a)) /\ DepsOf(a) \subseteq AllDeps
    OBVIOUS
  <2>1. IsFiniteSet(DepsOf(a))
    BY RefsAreFinite, DepsAreLinks DEF DepsOf, NodesInv
  <2> QED
    BY <2>1 DEF AllDeps
<1>4. /\ DOMAIN one = 1 .. C
      /\ \A i \in 1 .. C : one[i] = DepsOf(i) /\ crates[i] = SetToSeq(one[i])
  OBVIOUS
<1>5. /\ DOMAIN two = 1 .. n
      /\ \A i \in 1 .. n : two[i] = DepsOf(C + i) /\ modules[i] = SetToSeq(two[i])
  OBVIOUS
<1>6. all = first \o then /\ DOMAIN crates = 1 .. C /\ Len(crates) = C /\ DOMAIN modules = 1 .. n /\ Len(modules) = n
  OBVIOUS
<1> HIDE DEF C, n, one, two
<1>7. /\ AreSetsOf(one, AllDeps) /\ ListSets(crates, one)
      /\ AreSetsOf(two, AllDeps) /\ ListSets(modules, two)
  BY <1>1, <1>2, <1>3, <1>4, <1>5, <1>6 DEF AreSetsOf, ListSets
<1>8. /\ first \in Seq(AllDeps) /\ Range(first) = UNION Range(one)
      /\ AreDisjoint(one) => IsInjective(first)
  BY <1>7, SetsAreListed
<1>9. /\ then \in Seq(AllDeps) /\ Range(then) = UNION Range(two)
      /\ AreDisjoint(two) => IsInjective(then)
  BY <1>7, SetsAreListed
<1> HIDE DEF first, then
<1>10. all \in Seq(AllDeps) /\ Range(all) = Range(first) \cup Range(then)
  BY <1>6, <1>8, <1>9, JoinedLists
<1>11. /\ \A e : e \in Range(first) <=> \E i \in 1 .. C : e \in DepsOf(i)
       /\ \A e : e \in Range(then) <=> \E i \in 1 .. n : e \in DepsOf(C + i)
  <2>1. \A S : S \in Range(one) <=> \E i \in 1 .. C : S = DepsOf(i)
    BY <1>4 DEF Range
  <2>2. \A S : S \in Range(two) <=> \E i \in 1 .. n : S = DepsOf(C + i)
    BY <1>5 DEF Range
  <2> QED
    BY <1>8, <1>9, <2>1, <2>2
<1>12. Range(all) = AllDeps
  <2>1. ASSUME NEW e \in AllDeps PROVE e \in Range(all)
    <3>1. PICK a \in 1 .. MemberCount : e \in DepsOf(a)
      BY DEF AllDeps
    <3> QED
      BY <1>2, <1>10, <1>11, <3>1
  <2>2. Range(first) \subseteq AllDeps /\ Range(then) \subseteq AllDeps
    BY <1>2, <1>3, <1>11
  <2> QED
    BY <1>10, <2>1, <2>2
<1>13. ASSUME PathsDiffer(ws) PROVE IsInjective(all)
  <2>1. ASSUME NEW a \in 1 .. MemberCount, NEW e \in DepsOf(a) PROVE e.src = a
    <3>1. e.src \in Resolve(PathOf(a))
      BY RefsAreFinite, DepsAreLinks DEF DepsOf, NodesInv
    <3>2. Resolve(PathOf(a)) = {a}
      BY <1>13, PathResolves DEF NodesInv
    <3> QED
      BY <3>1, <3>2
  <2>2. \A a, b \in 1 .. MemberCount : a # b => DepsOf(a) \cap DepsOf(b) = {}
    BY <2>1
  <2>3. AreDisjoint(one)
    BY <1>2, <1>4, <2>2 DEF AreDisjoint
  <2>4. \A i, j \in 1 .. n : i # j => C + i # C + j
    BY <1>1
  <2>5. AreDisjoint(two)
    BY <1>2, <1>5, <2>2, <2>4 DEF AreDisjoint
  <2>6. \A i \in 1 .. C, j \in 1 .. n : i # C + j
    BY <1>1
  <2>7. Range(first) \cap Range(then) = {}
    BY <1>2, <1>11, <2>2, <2>6
  <2>8. IsInjective(first) /\ IsInjective(then)
    BY <1>8, <1>9, <2>3, <2>5
  <2> QED
    BY <1>6, <1>8, <1>9, <2>7, <2>8, JoinedLists
<1> QED
  BY <1>10, <1>12, <1>13

-----------------------------------------------------------------------------
(***************************************************************************)
(* The edge for the uses of b in a.                                         *)
(***************************************************************************)
UsesOf(a, b) == {r \in RefsAt(a) : r.to = PathOf(b)}
Between(a, b) == {i \in LinkPlaces : edges[i].src = a /\ edges[i].dst = b}
UseEdge(a, b) == Edge(a, b, "ModuleDep", AggregateContext(UsesOf(a, b)), Locations(UsesOf(a, b)))

OneLink(a, b) ==
  IF UsesOf(a, b) = {} \/ a = b THEN Between(a, b) = {}
  ELSE \E i : Between(a, b) = {i} /\ edges[i] = UseEdge(a, b)

PairsInv ==
  Linked /\ PathsDiffer(ws) =>
    \A a, b \in 1 .. MemberCount : OneLink(a, b)

LEMMA DepsBetween ==
  ASSUME NodesInv, pc \in WithMembers, PathsDiffer(ws), NEW a \in 1 .. MemberCount, NEW b \in 1 .. MemberCount
  PROVE  /\ \A e \in AllDeps : e.src = a /\ e.dst = b => UsesOf(a, b) # {} /\ a # b /\ e = UseEdge(a, b)
         /\ UsesOf(a, b) # {} /\ a # b => UseEdge(a, b) \in AllDeps
<1>1. ws \in Workspaces /\ MembersAreFirst /\ IsListed(nodes)
  BY DEF NodesInv
<1>2. \A c \in 1 .. MemberCount : Resolve(PathOf(c)) = {c}
  BY <1>1, PathResolves
<1>3. \A to : UsesOf(a, b) = Group(RefsAt(a), PathOf(b))
  BY DEF UsesOf, Group
<1>4. ASSUME NEW e \in AllDeps, e.src = a, e.dst = b PROVE UsesOf(a, b) # {} /\ a # b /\ e = UseEdge(a, b)
  <2>1. PICK c \in 1 .. MemberCount : e \in ModuleDeps(PathOf(c), RefsAt(c))
    BY DEF AllDeps, DepsOf
  <2>2. PICK r \in RefsAt(c) : e \in DepsOn(PathOf(c), RefsAt(c), r.to)
    BY <2>1, DepsByTarget
  <2>3. PICK x \in Resolve(PathOf(c)), y \in Resolve(r.to) \ Resolve(PathOf(c)) :
          e = Edge(x, y, "ModuleDep", AggregateContext(Group(RefsAt(c), r.to)), Locations(Group(RefsAt(c), r.to)))
    BY <2>2 DEF DepsOn
  <2>4. e.src = x /\ e.dst = y
    BY <2>3 DEF Edge
  <2>5. x = a /\ y = b /\ c = a /\ a # b
    BY <1>2, <1>4, <2>3, <2>4
  <2>6. IsListed(r.to)
    BY <1>1, <2>2, RefsAreFinite
  <2>7. r.to = PathOf(b)
    BY <1>1, <2>3, <2>5, <2>6, PathIsOfNode
  <2>8. r \in UsesOf(a, b)
    BY <2>2, <2>5, <2>7 DEF UsesOf
  <2>9. e = UseEdge(a, b)
    BY <1>3, <2>3, <2>5, <2>7 DEF UseEdge
  <2> QED
    BY <2>5, <2>8, <2>9
<1>5. ASSUME UsesOf(a, b) # {}, a # b PROVE UseEdge(a, b) \in AllDeps
  <2>1. PICK r \in RefsAt(a) : r.to = PathOf(b)
    BY <1>5 DEF UsesOf
  <2>2. a \in Resolve(PathOf(a)) /\ b \in Resolve(PathOf(b)) \ Resolve(PathOf(a))
    BY <1>2, <1>5
  <2>3. UseEdge(a, b) \in DepsOn(PathOf(a), RefsAt(a), PathOf(b))
    BY <1>3, <2>2 DEF DepsOn, UseEdge
  <2>4. UseEdge(a, b) \in ModuleDeps(PathOf(a), RefsAt(a))
    BY <2>1, <2>3, DepsByTarget
  <2> QED
    BY <2>4 DEF AllDeps, DepsOf
<1> QED
  BY <1>4, <1>5

\* The edges that AddModuleDeps adds are the only ones between modules.
LEMMA LinksAreAdded ==
  ASSUME NodesInv, LinksInv, AddModuleDeps
  PROVE  \E all :
           /\ all \in Seq(AllDeps) /\ Range(all) = AllDeps
           /\ PathsDiffer(ws) => IsInjective(all)
           /\ IsListed(edges)' /\ EdgeSet' = EdgeSet \cup AllDeps
           /\ LinkPlaces' = {Len(edges) + k : k \in DOMAIN all}
           /\ Len(edges) \in Nat /\ \A k \in DOMAIN all : edges'[Len(edges) + k] = all[k]
<1> DEFINE crates == [i \in DOMAIN ws.crates |-> SetToSeq(ModuleDeps(<<ws.crates[i].name>>, ws.crates[i].root))]
           modules == [i \in DOMAIN ws.modules |-> SetToSeq(ModuleDeps(ws.modules[i].path, ws.modules[i].dependencies))]
           all == FlattenSeq(crates) \o FlattenSeq(modules)
           m == Len(edges)
           n == Len(all)
<1>1. edges' = edges \o all /\ pc = "moduleDeps"
  BY DEF AddModuleDeps
<1>2. /\ DOMAIN ws.modules = 1 .. Len(ws.modules) /\ DOMAIN ws.crates = 1 .. CrateCount
      /\ Len(ws.modules) \in Nat /\ CrateCount \in Nat
  BY WorkspaceIsListed DEF NodesInv
<1>3. DOMAIN crates = 1 .. CrateCount /\ Len(crates) = CrateCount
  <2>1. crates \in Seq(Range(crates))
    BY <1>2 DEF Range
  <2> QED
    BY <1>2, <2>1
<1>4. DOMAIN modules = 1 .. Len(ws.modules) /\ Len(modules) = Len(ws.modules)
  <2>1. modules \in Seq(Range(modules))
    BY <1>2 DEF Range
  <2> QED
    BY <1>2, <2>1
<1>5. \A i \in 1 .. CrateCount : crates[i] = SetToSeq(DepsOf(i))
  BY <1>2, MembersAreCounted DEF DepsOf, NodesInv
<1>6. \A i \in 1 .. Len(ws.modules) : modules[i] = SetToSeq(DepsOf(CrateCount + i))
  BY <1>2, MembersAreCounted DEF DepsOf, NodesInv
<1> HIDE DEF crates, modules
<1>7. pc \in WithMembers
  BY <1>1 DEF WithMembers
<1>8. all \in Seq(AllDeps) /\ Range(all) = AllDeps /\ (PathsDiffer(ws) => IsInjective(all))
  BY <1>3, <1>4, <1>5, <1>6, <1>7, DepsAreListed
<1>9. ASSUME NEW e \in AllDeps PROVE e.weight = "ModuleDep"
  <2>1. PICK a \in 1 .. MemberCount : e \in DepsOf(a)
    BY DEF AllDeps
  <2> QED
    BY <1>7, <2>1, RefsAreFinite, DepsAreLinks DEF DepsOf, NodesInv
<1> HIDE DEF all
<1> DEFINE V == Range(edges) \cup AllDeps
<1>10. edges \in Seq(V) /\ all \in Seq(V)
  BY <1>8 DEF LinksInv, IsListed
<1>11. /\ edges' \in Seq(V) /\ DOMAIN edges' = 1 .. m + n /\ DOMAIN edges = 1 .. m /\ m \in Nat /\ n \in Nat
       /\ DOMAIN all = 1 .. n
       /\ \A i \in 1 .. m : edges'[i] = edges[i]
       /\ \A i \in 1 .. n : edges'[m + i] = all[i] /\ all[i] \in AllDeps
       /\ Range(edges') = Range(edges) \cup Range(all)
  BY <1>1, <1>8, <1>10, JoinedLists
<1> HIDE DEF V, m, n
<1>12. IsListed(edges)'
  BY <1>11, ListIsListed DEF IsListed
<1>13. \A i \in 1 .. m : edges'[i].weight # "ModuleDep"
  BY <1>1, <1>11 DEF LinksInv, LinkPlaces, Linked
<1>14. LinkPlaces' = {m + k : k \in 1 .. n}
  <2>1. ASSUME NEW i \in LinkPlaces' PROVE i \in {m + k : k \in 1 .. n}
    <3>1. i \in 1 .. m + n /\ edges'[i].weight = "ModuleDep"
      BY <1>11, <2>1 DEF LinkPlaces
    <3>2. i \notin 1 .. m /\ m \in Nat /\ n \in Nat
      BY <1>11, <1>13, <3>1
    <3>3. i - m \in 1 .. n /\ m + (i - m) = i
      BY <3>1, <3>2
    <3> QED
      BY <3>3
  <2>2. ASSUME NEW k \in 1 .. n PROVE m + k \in LinkPlaces'
    <3>1. m + k \in 1 .. m + n
      <4>1. m \in Nat /\ n \in Nat
        BY <1>11
      <4> QED
        BY <4>1
    <3>2. edges'[m + k] = all[k] /\ all[k] \in AllDeps /\ m + k \in DOMAIN edges'
      BY <1>11, <3>1
    <3> QED
      BY <1>9, <3>2 DEF LinkPlaces
  <2> QED
    BY <2>1, <2>2
<1>15. EdgeSet' = EdgeSet \cup AllDeps
  BY <1>8, <1>11 DEF EdgeSet
<1> QED
  BY <1>8, <1>11, <1>12, <1>14, <1>15 DEF m

LEMMA NodesStay ==
  ASSUME NodesInv, ws' = ws, nodes' = nodes, moduleMap' = moduleMap,
         \/ pc = "crateDeps" /\ pc' = "moduleDeps"
         \/ pc = "moduleDeps" /\ pc' = "externals"
         \/ pc = "graph" /\ pc' = "diagnosed"
  PROVE  NodesInv'
<1>1. CrateCount' = CrateCount /\ MemberCount' = MemberCount
  BY DEF CrateCount, MemberCount
<1>2. MembersAreFirst' <=> MembersAreFirst
  BY <1>1 DEF MembersAreFirst
<1>3. IsListed(nodes)' <=> IsListed(nodes)
  BY DEF IsListed
<1> QED
  BY <1>1, <1>2, <1>3 DEF NodesInv, WithMembers

LEMMA LinksStay ==
  ASSUME LinksInv, PairsInv, KeepsLinks, IsListed(edges)', ws' = ws, Linked' <=> Linked
  PROVE  LinksInv' /\ PairsInv'
<1>1. LinkPlaces' = LinkPlaces /\ \A i \in LinkPlaces : edges'[i] = edges[i]
  BY DEF KeepsLinks
<1>2. LinksInv'
  BY <1>1 DEF LinksInv
<1>3. MemberCount' = MemberCount
  BY DEF MemberCount
<1>4. ASSUME NEW a, NEW b
      PROVE  /\ Between(a, b)' = Between(a, b) /\ UsesOf(a, b)' = UsesOf(a, b)
             /\ UseEdge(a, b)' = UseEdge(a, b)
  <2>1. Between(a, b)' = Between(a, b)
    BY <1>1 DEF Between
  <2>2. UsesOf(a, b)' = UsesOf(a, b)
    BY DEF UsesOf, RefsAt, PathOf, CrateCount
  <2>3. UseEdge(a, b)' = UseEdge(a, b)
    BY <2>2 DEF UseEdge
  <2> QED
    BY <2>1, <2>2, <2>3
<1>5. ASSUME NEW a, NEW b, OneLink(a, b) PROVE OneLink(a, b)'
  <2>1. \A i : Between(a, b) = {i} => edges'[i] = edges[i]
    BY <1>1 DEF Between
  <2> QED
    BY <1>4, <1>5, <2>1 DEF OneLink
<1>6. PairsInv'
  <2>1. ASSUME Linked', PathsDiffer(ws), NEW a \in 1 .. MemberCount, NEW b \in 1 .. MemberCount
        PROVE  OneLink(a, b)'
    BY <1>5, <2>1 DEF PairsInv
  <2> QED
    BY <1>3, <2>1 DEF PairsInv
<1> QED
  BY <1>2, <1>6

LEMMA CratesAndModulesLinkNothing ==
  ASSUME NodesInv, LinksInv, PairsInv, AddCrates \/ AddModules
  PROVE  LinksInv' /\ PairsInv'
<1>1. CASE AddCrates
  <2>1. KeepsLinks /\ IsListed(edges)'
    BY <1>1 DEF AddCrates, KeepsLinks, LinkPlaces, LinksInv, IsListed
  <2>2. ws' = ws /\ (Linked' <=> Linked)
    BY <1>1 DEF AddCrates, Linked
  <2> QED
    BY <2>1, <2>2, LinksStay
<1>2. CASE AddModules
  <2> DEFINE crate(m) == Max(CrateOf(m.path[1]))
             parent(m) == IF m.parent = 0 THEN crate(m) ELSE Len(nodes) + m.parent
             holds == [i \in DOMAIN ws.modules |->
                         Edge(parent(ws.modules[i]), Len(nodes) + i, "Contains", "production", {})]
  <2>1. edges' = holds /\ ws' = ws /\ pc = "modules" /\ pc' = "crateDeps"
    BY <1>2 DEF AddModules
  <2>2. DOMAIN ws.modules = 1 .. Len(ws.modules) /\ Len(ws.modules) \in Nat
    BY WorkspaceIsListed DEF NodesInv
  <2>3. \A i \in DOMAIN holds : holds[i].weight = "Contains"
    BY DEF Edge
  <2>4. DOMAIN holds = 1 .. Len(ws.modules) /\ holds \in Seq(Range(holds))
    BY <2>2 DEF Range
  <2> HIDE DEF holds
  <2>5. IsListed(edges)' /\ LinkPlaces' = {} /\ LinkPlaces = {}
    BY <2>1, <2>3, <2>4 DEF IsListed, LinkPlaces, LinksInv, Linked
  <2>6. KeepsLinks
    BY <2>5 DEF KeepsLinks
  <2>7. Linked' <=> Linked
    BY <2>1 DEF Linked
  <2> QED
    BY <2>1, <2>5, <2>6, <2>7, LinksStay
<1> QED
  BY <1>1, <1>2

\* The edges to a set of nodes.
LEMMA EdgesAreFinite ==
  ASSUME NEW S, IsFiniteSet(S), NEW f, DOMAIN f = S, \A x \in S : IsOther(f[x])
  PROVE  /\ SetToSeq(Range(f)) \in Seq(Range(f))
         /\ \A e \in Range(f) : IsOther(e)
<1>1. IsFiniteSet(Range(f))
  BY ImageIsFinite
<1> QED
  BY <1>1, SetIsListed DEF Range

LEMMA ExternalsLinkNothing ==
  ASSUME NodesInv, LinksInv, PairsInv, AddExternals
  PROVE  LinksInv' /\ PairsInv' /\ AddsOthers
<1> DEFINE n == Len(nodes)
           context(kinds) == IF "normal" \in kinds THEN "production" ELSE "test"
           depend(d, from) == Edge(from, n + d[2], "CrateDep", context(d[3]), {})
           one == [d \in ws.workspaceDeps |-> depend(d, d[1])]
           two == [d \in ws.externalDeps |-> depend(d, n + d[1])]
           U == Range(one) \cup Range(two)
<1>1. edges' = edges \o SetToSeq({depend(d, d[1]) : d \in ws.workspaceDeps})
                     \o SetToSeq({depend(d, n + d[1]) : d \in ws.externalDeps})
  BY DEF AddExternals
<1>2. ws' = ws /\ pc = "externals" /\ pc' = "graph"
  BY DEF AddExternals
<1>3. Range(one) = {depend(d, d[1]) : d \in ws.workspaceDeps} /\ Range(two) = {depend(d, n + d[1]) : d \in ws.externalDeps}
  BY DEF Range
<1>4. IsFiniteSet(ws.workspaceDeps) /\ IsFiniteSet(ws.externalDeps)
  BY WorkspaceAssumption DEF NodesInv, IsWorkspace
<1>5. (\A d \in ws.workspaceDeps : IsOther(one[d])) /\ \A d \in ws.externalDeps : IsOther(two[d])
  BY DEF Edge, IsOther
<1>6. DOMAIN one = ws.workspaceDeps /\ DOMAIN two = ws.externalDeps
  OBVIOUS
<1> HIDE DEF depend, one, two
<1>7. /\ SetToSeq(Range(one)) \in Seq(Range(one)) /\ SetToSeq(Range(two)) \in Seq(Range(two))
      /\ \A e \in U : IsOther(e)
  BY <1>4, <1>5, <1>6, EdgesAreFinite
<1>8. edges' = edges \o SetToSeq(Range(one)) \o SetToSeq(Range(two))
  BY <1>1, <1>3
<1>9. SetToSeq(Range(one)) \in Seq(U) /\ SetToSeq(Range(two)) \in Seq(U)
  BY <1>7
<1> DEFINE s == SetToSeq(Range(one))
           t == SetToSeq(Range(two))
           V == Range(edges) \cup U
<1> HIDE DEF s, t, U
<1>10. edges \in Seq(V) /\ s \in Seq(V) /\ t \in Seq(V)
  BY <1>9 DEF LinksInv, IsListed, s, t
<1> HIDE DEF V
<1>11. edges' = edges \o (s \o t)
  BY <1>8, <1>10 DEF s, t
<1>12. s \o t \in Seq(U)
  BY <1>9 DEF s, t
<1>13. IsListed(edges)' /\ KeepsLinks /\ AddsOthers
  BY <1>7, <1>11, <1>12, OthersKeepLinks DEF LinksInv
<1>14. Linked' <=> Linked
  BY <1>2 DEF Linked
<1> QED
  BY <1>2, <1>13, <1>14, LinksStay

LEMMA CrateDepsLinkNothing ==
  ASSUME NodesInv, LinksInv, PairsInv, AddCrateDeps
  PROVE  LinksInv' /\ PairsInv' /\ AddsOthers
<1> DEFINE ends(names) == UNION {CrateOf(name) : name \in names}
           depend(c, names, weight, kind) == {Edge(c, d, weight, kind, {}) : d \in ends(names)}
           dev == IF ws.includeTests THEN "CrateDep" ELSE "DevDep"
           normal(c) == depend(c, ws.crates[c].dependencies, "CrateDep", "production")
           other(c) == depend(c, ws.crates[c].devDependencies, dev, "test")
           seqs == [c \in DOMAIN ws.crates |-> SetToSeq(normal(c)) \o SetToSeq(other(c))]
           U == UNION {normal(c) \cup other(c) : c \in DOMAIN ws.crates}
<1>1. edges' = edges \o FlattenSeq(seqs) /\ ws' = ws /\ pc = "crateDeps" /\ pc' = "moduleDeps"
  BY DEF AddCrateDeps
<1>2. DOMAIN ws.crates = 1 .. CrateCount /\ CrateCount \in Nat /\ IsFiniteSet(1 .. CrateCount)
  BY WorkspaceIsListed, FS_Interval DEF NodesInv
<1>3. ASSUME NEW c, NEW names, NEW weight \in {"CrateDep", "DevDep"}, NEW kind
      PROVE  /\ IsFiniteSet(depend(c, names, weight, kind))
             /\ \A e \in depend(c, names, weight, kind) : IsOther(e)
  <2> DEFINE f == [d \in ends(names) |-> Edge(c, d, weight, kind, {})]
  <2>1. ends(names) \subseteq DOMAIN ws.crates
    BY DEF CrateOf
  <2>2. IsFiniteSet(ends(names))
    BY <1>2, <2>1, FS_Subset
  <2>3. depend(c, names, weight, kind) = Range(f)
    BY DEF Range
  <2>4. \A e \in depend(c, names, weight, kind) : IsOther(e)
    BY DEF Edge, IsOther
  <2>5. DOMAIN f = ends(names)
    OBVIOUS
  <2> HIDE DEF f, depend
  <2> QED
    BY <2>2, <2>3, <2>4, <2>5, ImageIsFinite
<1>4. dev \in {"CrateDep", "DevDep"}
  OBVIOUS
<1>5. ASSUME NEW c PROVE /\ IsFiniteSet(normal(c)) /\ IsFiniteSet(other(c))
                         /\ \A e \in normal(c) \cup other(c) : IsOther(e)
  <2> HIDE DEF depend, dev
  <2> QED
    BY <1>3, <1>4
<1> HIDE DEF normal, other
<1>6. ASSUME NEW c \in DOMAIN ws.crates PROVE seqs[c] \in Seq(U)
  <2>1. SetToSeq(normal(c)) \in Seq(normal(c)) /\ SetToSeq(other(c)) \in Seq(other(c))
    BY <1>5, SetIsListed
  <2>2. normal(c) \subseteq U /\ other(c) \subseteq U
    OBVIOUS
  <2> HIDE DEF U
  <2>3. SetToSeq(normal(c)) \in Seq(U) /\ SetToSeq(other(c)) \in Seq(U)
    BY <2>1, <2>2
  <2> QED
    BY <2>3
<1>7. DOMAIN seqs = 1 .. Len(seqs) /\ Len(seqs) \in Nat /\ DOMAIN seqs = DOMAIN ws.crates
  <2> DEFINE list(c) == SetToSeq(normal(c)) \o SetToSeq(other(c))
  <2>1. seqs = [c \in 1 .. CrateCount |-> list(c)]
    BY <1>2
  <2> HIDE DEF list, seqs
  <2>2. seqs \in Seq({list(c) : c \in 1 .. CrateCount}) /\ Len(seqs) = CrateCount
    BY <1>2, <2>1
  <2> QED
    BY <1>2, <2>1, <2>2
<1>8. \A e \in U : IsOther(e)
  BY <1>5
<1> HIDE DEF seqs, U
<1>9. AreLists(seqs, U)
  BY <1>6, <1>7 DEF AreLists
<1>10. FlattenSeq(seqs) \in Seq(U)
  BY <1>9, FlatIsJoined DEF IsJoined
<1>11. IsListed(edges)' /\ KeepsLinks /\ AddsOthers
  BY <1>1, <1>8, <1>10, OthersKeepLinks DEF LinksInv
<1>12. Linked' <=> Linked
  BY <1>1 DEF Linked
<1> QED
  BY <1>1, <1>11, <1>12, LinksStay

LEMMA ModuleDepsLinkOnce ==
  ASSUME NodesInv, LinksInv, AddModuleDeps
  PROVE  LinksInv' /\ PairsInv'
<1>1. ws' = ws /\ nodes' = nodes /\ pc = "moduleDeps" /\ pc' = "externals"
  BY DEF AddModuleDeps
<1> DEFINE m == Len(edges)
<1>2. PICK all :
        /\ all \in Seq(AllDeps) /\ Range(all) = AllDeps
        /\ PathsDiffer(ws) => IsInjective(all)
        /\ IsListed(edges)'
        /\ LinkPlaces' = {m + k : k \in DOMAIN all}
        /\ m \in Nat /\ \A k \in DOMAIN all : edges'[m + k] = all[k]
  BY LinksAreAdded
<1> HIDE DEF m
<1>3. \A k \in DOMAIN all : k \in Nat /\ all[k] \in AllDeps
  BY <1>2
<1>4. pc \in WithMembers
  BY <1>1 DEF WithMembers
<1>5. ASSUME NEW e \in AllDeps PROVE e.src \in Nat /\ e.dst \in Nat /\ e.src # e.dst
  <2>1. PICK a \in 1 .. MemberCount : e \in ModuleDeps(PathOf(a), RefsAt(a))
    BY DEF AllDeps, DepsOf
  <2> QED
    BY <1>4, <2>1, RefsAreFinite, DepsAreLinks DEF NodesInv
<1>6. LinksInv'
  BY <1>1, <1>2, <1>3, <1>5 DEF LinksInv, Linked
<1>7. ASSUME PathsDiffer(ws), NEW a \in 1 .. MemberCount, NEW b \in 1 .. MemberCount PROVE OneLink(a, b)'
  <2>1. UsesOf(a, b)' = UsesOf(a, b) /\ UseEdge(a, b)' = UseEdge(a, b)
    <3>1. UsesOf(a, b)' = UsesOf(a, b)
      BY <1>1 DEF UsesOf, RefsAt, PathOf, CrateCount
    <3> QED
      BY <3>1 DEF UseEdge
  <2>2. \A i : i \in Between(a, b)' <=> \E k \in DOMAIN all : i = m + k /\ all[k].src = a /\ all[k].dst = b
    <3>1. \A i : i \in Between(a, b)' <=> i \in LinkPlaces' /\ edges'[i].src = a /\ edges'[i].dst = b
      BY DEF Between
    <3> QED
      BY <1>2, <3>1
  <2>3. /\ \A k \in DOMAIN all : all[k].src = a /\ all[k].dst = b =>
             UsesOf(a, b) # {} /\ a # b /\ all[k] = UseEdge(a, b)
        /\ UsesOf(a, b) # {} /\ a # b => UseEdge(a, b) \in AllDeps
    BY <1>3, <1>4, <1>7, DepsBetween
  <2>4. CASE UsesOf(a, b) = {} \/ a = b
    BY <2>1, <2>2, <2>3, <2>4 DEF OneLink
  <2>5. CASE UsesOf(a, b) # {} /\ a # b
    <3>1. PICK k \in DOMAIN all : all[k] = UseEdge(a, b)
      BY <1>2, <2>3, <2>5 DEF Range
    <3>2. all[k].src = a /\ all[k].dst = b
      BY <3>1 DEF UseEdge, Edge
    <3>3. \A j \in DOMAIN all : all[j].src = a /\ all[j].dst = b => j = k
      BY <1>2, <1>7, <2>3, <3>1 DEF IsInjective
    <3>4. Between(a, b)' = {m + k}
      BY <2>2, <3>2, <3>3
    <3>5. edges'[m + k] = UseEdge(a, b)'
      BY <1>2, <2>1, <3>1
    <3> QED
      BY <2>1, <2>5, <3>4, <3>5 DEF OneLink
  <2> QED
    BY <2>4, <2>5
<1>8. PairsInv'
  <2>1. MemberCount' = MemberCount
    BY <1>1 DEF MemberCount
  <2> QED
    BY <1>1, <1>7, <2>1 DEF PairsInv
<1> QED
  BY <1>6, <1>8

-----------------------------------------------------------------------------
(***************************************************************************)
(* What holds a node. A parent comes before its children, so that each      *)
(* chain ends.                                                              *)
(***************************************************************************)
ParentsComeFirst == \A k \in Nat : \A p \in ParentOf(k) : p \in Nat /\ p < k

\* p: the parents of each node. A round makes the chain of one more.
ChainFirst(p) == [j \in {0} |-> <<0>>]
ChainRound(p, k, up) ==
  [j \in 0 .. k |-> IF j < k THEN up[j] ELSE IF p[k] = {} THEN <<k>> ELSE <<k>> \o up[Max(p[k])]]
ChainInv(p, k, up) == TRUE

Chains == INSTANCE Rounds WITH First <- ChainFirst, Round <- ChainRound, Inv <- ChainInv

LEMMA ChainGoesUp ==
  ASSUME ParentsComeFirst
  PROVE  /\ \A k \in Nat : Chain(k) = IF ParentOf(k) = {} THEN <<k>> ELSE <<k>> \o Chain(Max(ParentOf(k)))
         /\ \A k \in Nat : ParentOf(k) # {} => Max(ParentOf(k)) \in Nat /\ Max(ParentOf(k)) < k
<1> DEFINE p == [k \in Nat |-> ParentOf(k)]
           IsUp(up) == up = [k \in Nat |-> IF ParentOf(k) = {} THEN <<k>> ELSE <<k>> \o up[Max(ParentOf(k))]]
           up == CHOOSE f : IsUp(f)
<1>1. ASSUME NEW k \in Nat, ParentOf(k) # {} PROVE Max(ParentOf(k)) \in Nat /\ Max(ParentOf(k)) < k
  <2>1. ParentOf(k) \subseteq 0 .. k /\ \A j \in ParentOf(k) : j \in Nat /\ j < k
    BY DEF ParentsComeFirst
  <2>2. Max(ParentOf(k)) \in ParentOf(k)
    BY <1>1, <2>1, MaxIsMember
  <2> QED
    BY <2>1, <2>2
<1>2. PICK f : Chains!IsComputed(f, p)
  BY Chains!ComputedExists
<1>3. /\ f[0] = [j \in {0} |-> <<0>>]
      /\ \A k \in Nat : k # 0 => f[k] = ChainRound(p, k, f[k - 1])
  BY <1>2 DEF Chains!IsComputed, ChainFirst
<1>4. \A k \in Nat : \A j \in 0 .. k : f[k][j] = f[j][j]
  <2> DEFINE S == {k \in Nat : \A j \in 0 .. k : f[k][j] = f[j][j]}
  <2>1. 0 \in S
    OBVIOUS
  <2>2. ASSUME NEW k \in Nat, k \in S PROVE k + 1 \in S
    <3>1. f[k + 1] = ChainRound(p, k + 1, f[k])
      BY <1>3
    <3>2. \A j \in 0 .. k : f[k + 1][j] = f[k][j]
      BY <3>1 DEF ChainRound
    <3> QED
      BY <2>2, <3>2
  <2> HIDE DEF S
  <2>3. Nat \subseteq S
    BY <2>1, <2>2, Chains!AllNaturals
  <2> QED
    BY <2>3 DEF S
<1> DEFINE h == [k \in Nat |-> f[k][k]]
<1>5. IsUp(h)
  <2>1. ASSUME NEW k \in Nat
        PROVE  h[k] = IF ParentOf(k) = {} THEN <<k>> ELSE <<k>> \o h[Max(ParentOf(k))]
    <3>1. CASE k = 0
      <4>1. ParentOf(k) = {}
        BY <3>1 DEF ParentsComeFirst
      <4> QED
        BY <1>3, <3>1, <4>1
    <3>2. CASE k # 0
      <4>1. f[k][k] = IF ParentOf(k) = {} THEN <<k>> ELSE <<k>> \o f[k - 1][Max(ParentOf(k))]
        <5>1. f[k] = ChainRound(p, k, f[k - 1]) /\ p[k] = ParentOf(k)
          BY <1>3, <3>2
        <5>2. k \in 0 .. k /\ ~(k < k)
          OBVIOUS
        <5> HIDE DEF p
        <5> QED
          BY <5>1, <5>2 DEF ChainRound
      <4>2. ASSUME ParentOf(k) # {} PROVE f[k - 1][Max(ParentOf(k))] = h[Max(ParentOf(k))]
        <5>1. Max(ParentOf(k)) \in Nat /\ Max(ParentOf(k)) < k
          BY <1>1, <4>2
        <5>2. k - 1 \in Nat /\ Max(ParentOf(k)) \in 0 .. (k - 1)
          BY <3>2, <5>1
        <5> QED
          BY <1>4, <5>1, <5>2
      <4> QED
        BY <4>1, <4>2
    <3> QED
      BY <3>1, <3>2
  <2> HIDE DEF h
  <2>2. h = [k \in Nat |-> h[k]]
    BY DEF h
  <2> QED
    BY <2>1, <2>2
<1> HIDE DEF h, IsUp
<1>6. IsUp(up)
  BY <1>5
<1> HIDE DEF up
<1>7. \A k \in Nat : up[k] = IF ParentOf(k) = {} THEN <<k>> ELSE <<k>> \o up[Max(ParentOf(k))]
  BY <1>6 DEF IsUp
<1>8. \A k : Chain(k) = up[k]
  BY DEF Chain, up, IsUp
<1> QED
  BY <1>1, <1>7, <1>8

\* n and what holds it, as a set.
Up(n) == Range(Chain(n))
IsChained(n) ==
  /\ Chain(n) \in Seq(Nat)
  /\ n \in Up(n) /\ Up(n) \subseteq 0 .. n
  /\ \A m \in Up(n) : Up(m) \subseteq Up(n)
  /\ \A a, b \in Up(n) : a <= b => a \in Up(b)

LEMMA ChainsAreNested ==
  ASSUME ParentsComeFirst
  PROVE  \A n \in Nat : IsChained(n)
<1>1. ASSUME NEW k \in Nat, ParentOf(k) = {} PROVE IsChained(k)
  <2>1. Chain(k) = <<k>>
    BY <1>1, ChainGoesUp
  <2>2. Chain(k) \in Seq(Nat) /\ Up(k) = {k}
    BY <2>1 DEF Up, Range
  <2> QED
    BY <2>2 DEF IsChained
<1>2. ASSUME NEW k \in Nat, ParentOf(k) # {}, \A j \in Nat : j < k => IsChained(j) PROVE IsChained(k)
  <2> DEFINE q == Max(ParentOf(k))
  <2>1. q \in Nat /\ q < k /\ Chain(k) = <<k>> \o Chain(q)
    BY <1>2, ChainGoesUp
  <2> HIDE DEF q
  <2>2. IsChained(q)
    BY <1>2, <2>1
  <2>3. <<k>> \in Seq(Nat) /\ Range(<<k>>) = {k} /\ Chain(q) \in Seq(Nat)
    BY <2>2 DEF Range, IsChained
  <2>4. Chain(k) \in Seq(Nat) /\ Up(k) = {k} \cup Up(q)
    <3>1. /\ <<k>> \o Chain(q) \in Seq(Nat)
          /\ Range(<<k>> \o Chain(q)) = Range(<<k>>) \cup Range(Chain(q))
      BY <2>3, JoinedLists
    <3> QED
      BY <2>1, <2>3, <3>1 DEF Up
  <2>5. Up(q) \subseteq 0 .. q
    BY <2>2 DEF IsChained
  <2>6. Up(k) \subseteq 0 .. k
    BY <2>1, <2>4, <2>5
  <2>7. ASSUME NEW m \in Up(k) PROVE Up(m) \subseteq Up(k)
    BY <2>2, <2>4 DEF IsChained
  <2>8. ASSUME NEW a \in Up(k), NEW b \in Up(k), a <= b PROVE a \in Up(b)
    <3>1. CASE b = k
      BY <3>1
    <3>2. CASE b # k
      <4>1. b \in Up(q) /\ b <= q /\ b \in Nat /\ a \in Nat
        BY <2>1, <2>4, <2>5, <2>6, <3>2
      <4>2. a # k
        BY <2>1, <2>8, <4>1
      <4> QED
        BY <2>2, <2>4, <2>8, <4>1, <4>2 DEF IsChained
    <3> QED
      BY <3>1, <3>2
  <2> QED
    BY <2>4, <2>6, <2>7, <2>8 DEF IsChained
<1> DEFINE S == {n \in Nat : ~IsChained(n)}
<1>3. S = {}
  <2> SUFFICES ASSUME S # {} PROVE FALSE
    OBVIOUS
  <2>1. PICK k \in S : \A j \in S : k <= j
    BY Chains!LeastNatural
  <2>2. \A j \in Nat : j < k => IsChained(j)
    BY <2>1
  <2> QED
    BY <1>1, <1>2, <2>2
<1> QED
  BY <1>3

\* Modules that hold all of `ns` are held by the deepest of them.
LEMMA DeepestIsFound ==
  ASSUME ParentsComeFirst, ModuleNodes \subseteq Nat,
         NEW ns, ns \subseteq Nat, ns # {},
         NEW m \in ModuleNodes, \A n \in ns : m \in Up(n)
  PROVE  \E d \in DeepestCommonModule(ns) : m \in Up(d)
<1> DEFINE common == {k \in ModuleNodes : \A n \in ns : k \in Up(n)}
<1>1. PICK n \in ns : TRUE
  OBVIOUS
<1>2. n \in Nat /\ IsChained(n) /\ common \subseteq Up(n) /\ m \in common
  BY ChainsAreNested
<1>3. common \subseteq 0 .. n /\ common # {}
  BY <1>2 DEF IsChained
<1> DEFINE d == Max(common)
<1>4. d \in common /\ \A k \in common : k <= d
  <2> HIDE DEF common
  <2> QED
    BY <1>2, <1>3, MaxIsMember
<1> HIDE DEF d
<1>5. \A k \in common : k \in Up(d)
  <2> HIDE DEF common
  <2>1. \A k \in common : k \in Up(n) /\ d \in Up(n) /\ k <= d
    BY <1>2, <1>4
  <2> QED
    BY <1>2, <2>1 DEF IsChained
<1>6. d \in DeepestCommonModule(ns)
  BY <1>4, <1>5 DEF DeepestCommonModule, Up
<1> QED
  BY <1>2, <1>5, <1>6

-----------------------------------------------------------------------------
(***************************************************************************)
(* The ends of edges: a parent is added before its children, and a use is   *)
(* of a node by a node, of finitely many symbols.                           *)
(***************************************************************************)
SymbolsAt(e) == UNION {l.symbols : l \in e.locations}
HasEnds(e) ==
  /\ e.weight = "Contains" => e.src \in Nat /\ e.dst \in Nat /\ e.src < e.dst
  /\ e.weight = "ModuleDep" => {e.src, e.dst} \subseteq DOMAIN nodes /\ IsFiniteSet(SymbolsAt(e))
EndsInv == \A e \in EdgeSet : HasEnds(e)

LEMMA EndsTellParents ==
  ASSUME EndsInv
  PROVE  ParentsComeFirst
BY DEF EndsInv, HasEnds, ParentsComeFirst, ParentOf, In

LEMMA EndsStay ==
  ASSUME EndsInv, AddsOthers, DOMAIN nodes \subseteq DOMAIN nodes'
  PROVE  EndsInv'
BY DEF EndsInv, AddsOthers, HasEnds, IsOther

LEMMA CratesHaveEnds ==
  ASSUME LinksInv, EndsInv, AddCrates
  PROVE  EndsInv'
<1>1. edges' = edges /\ ~Linked
  BY DEF AddCrates, Linked
<1>2. \A e \in EdgeSet : e.weight # "ModuleDep"
  BY <1>1 DEF LinksInv, LinkPlaces, EdgeSet, Range
<1>3. EdgeSet' = EdgeSet
  BY <1>1 DEF EdgeSet
<1> QED
  BY <1>2, <1>3 DEF EndsInv, HasEnds

LEMMA ModulesHaveEnds ==
  ASSUME NodesInv, AddModules
  PROVE  EndsInv'
<1> DEFINE n == Len(nodes)
           crate(m) == Max(CrateOf(m.path[1]))
           parent(m) == IF m.parent = 0 THEN crate(m) ELSE n + m.parent
           edge(i) == Edge(parent(ws.modules[i]), n + i, "Contains", "production", {})
<1>1. edges' = [i \in DOMAIN ws.modules |-> edge(i)] /\ n = CrateCount
  BY DEF AddModules, NodesInv
<1>2. /\ DOMAIN ws.modules = 1 .. Len(ws.modules) /\ Len(ws.modules) \in Nat
      /\ DOMAIN ws.crates = 1 .. n /\ n \in Nat
  BY <1>1, WorkspaceIsListed DEF NodesInv
<1>3. ASSUME NEW i \in DOMAIN ws.modules PROVE parent(ws.modules[i]) \in Nat /\ parent(ws.modules[i]) < n + i
  <2> DEFINE m == ws.modules[i]
  <2>1. m.parent \in 0 .. (i - 1) /\ m.path[1] \in {c.name : c \in Range(ws.crates)}
    BY WorkspaceAssumption DEF NodesInv, IsWorkspace
  <2>2. i \in Nat /\ i > 0
    BY <1>2
  <2>3. CASE m.parent = 0
    <3>1. CrateOf(m.path[1]) \subseteq 0 .. n /\ CrateOf(m.path[1]) # {}
      BY <1>2, <2>1 DEF CrateOf, Range
    <3>2. crate(m) \in 0 .. n
      BY <1>2, <3>1, MaxIsMember
    <3>3. parent(m) = crate(m)
      BY <2>3
    <3> HIDE DEF crate, parent, m
    <3>4. parent(m) \in Nat /\ parent(m) < n + i
      BY <1>2, <2>2, <3>2, <3>3
    <3> QED
      BY <3>4 DEF m
  <2>4. CASE m.parent # 0
    <3>1. parent(m) = n + m.parent
      BY <2>4
    <3>2. m.parent \in Nat /\ m.parent < i
      BY <2>1, <2>2
    <3> HIDE DEF crate, parent, m
    <3>3. parent(m) \in Nat /\ parent(m) < n + i
      BY <1>2, <2>2, <3>1, <3>2
    <3> QED
      BY <3>3 DEF m
  <2> QED
    BY <2>3, <2>4
<1> HIDE DEF parent
<1>4. \A i \in DOMAIN ws.modules : /\ edge(i).weight = "Contains"
                                  /\ edge(i).src = parent(ws.modules[i]) /\ edge(i).dst = n + i
  BY DEF Edge
<1> HIDE DEF edge
<1>5. ASSUME NEW e \in EdgeSet'
      PROVE  e.weight = "Contains" /\ e.src \in Nat /\ e.dst \in Nat /\ e.src < e.dst
  <2>1. PICK i \in DOMAIN ws.modules : e = edge(i)
    BY <1>1 DEF EdgeSet, Range
  <2>2. i \in Nat /\ n \in Nat
    BY <1>2
  <2>3. e.weight = "Contains" /\ e.src \in Nat /\ e.src < n + i /\ e.dst = n + i
    BY <1>3, <1>4, <2>1
  <2> QED
    BY <2>2, <2>3
<1> QED
  BY <1>5 DEF EndsInv, HasEnds

\* What the locations of an edge keep of the references it stands for.
LEMMA LocationsKeepUses ==
  ASSUME NEW group, NEW locations, locations = Locations(group)
  PROVE  /\ UNION {l.symbols : l \in locations} = {r.item : r \in group} \ {NoItem}
         /\ group # {} => locations # {}
         /\ (\A l \in locations : l.reexport) <=> \A r \in group : r.reexport
<1> DEFINE at(r) == SourceLocation(r.at, {q \in group : q.at = r.at})
<1>1. \A l : l \in locations <=> \E r \in group : l = at(r)
  BY DEF Locations
<1>2. \A r : /\ at(r).symbols = {q.item : q \in {x \in group : x.at = r.at}} \ {NoItem}
             /\ at(r).reexport = \A q \in {x \in group : x.at = r.at} : q.reexport
  BY DEF SourceLocation
<1> HIDE DEF at
<1>3. UNION {l.symbols : l \in locations} = {r.item : r \in group} \ {NoItem}
  <2>1. ASSUME NEW l \in locations, NEW s \in l.symbols PROVE s \in {r.item : r \in group} \ {NoItem}
    BY <1>1, <1>2, <2>1
  <2>2. ASSUME NEW r \in group, r.item # NoItem PROVE \E l \in locations : r.item \in l.symbols
    BY <1>1, <1>2, <2>2
  <2> QED
    BY <2>1, <2>2
<1>4. group # {} => locations # {}
  BY <1>1
<1>5. (\A l \in locations : l.reexport) <=> \A r \in group : r.reexport
  <2>1. (\A l \in locations : l.reexport) <=> \A r \in group : at(r).reexport
    BY <1>1
  <2>2. (\A r \in group : at(r).reexport) <=> \A r \in group : r.reexport
    BY <1>2
  <2> QED
    BY <2>1, <2>2
<1> QED
  BY <1>3, <1>4, <1>5

LEMMA DepsCarryFinitely ==
  ASSUME NEW from, NEW refs, IsFiniteSet(refs), NEW e \in ModuleDeps(from, refs)
  PROVE  IsFiniteSet(SymbolsAt(e))
<1>1. PICK to \in {r.to : r \in refs} : e \in DepsOn(from, refs, to)
  BY DepsByTarget
<1> DEFINE group == Group(refs, to)
           items == [r \in group |-> r.item]
<1>2. e.locations = Locations(group)
  BY <1>1 DEF DepsOn, Edge
<1>3. group \in SUBSET refs
  BY DEF Group
<1> HIDE DEF group
<1>4. DOMAIN items = group /\ Range(items) = {r.item : r \in group}
  BY DEF Range
<1> HIDE DEF items
<1>5. IsFiniteSet(Range(items))
  BY <1>3, <1>4, ImageIsFinite, FS_Subset
<1>6. SymbolsAt(e) = {r.item : r \in group} \ {NoItem}
  BY <1>2, LocationsKeepUses DEF SymbolsAt
<1>7. SymbolsAt(e) \in SUBSET Range(items)
  BY <1>4, <1>6
<1> QED
  BY <1>5, <1>7, FS_Subset

LEMMA ModuleDepsHaveEnds ==
  ASSUME NodesInv, LinksInv, EndsInv, AddModuleDeps
  PROVE  EndsInv'
<1>1. EdgeSet' = EdgeSet \cup AllDeps /\ nodes' = nodes /\ pc \in WithMembers
  BY LinksAreAdded DEF AddModuleDeps, WithMembers
<1>2. ASSUME NEW e \in AllDeps
      PROVE  /\ e.weight = "ModuleDep" /\ {e.src, e.dst} \subseteq DOMAIN nodes
             /\ IsFiniteSet(SymbolsAt(e))
  <2>1. PICK a \in 1 .. MemberCount : e \in ModuleDeps(PathOf(a), RefsAt(a))
    BY DEF AllDeps, DepsOf
  <2>2. IsFiniteSet(RefsAt(a))
    BY RefsAreFinite DEF NodesInv
  <2> QED
    BY <1>1, <2>1, <2>2, DepsAreLinks, DepsCarryFinitely
<1> QED
  BY <1>1, <1>2 DEF EndsInv, HasEnds

LEMMA PackagesAreLast ==
  ASSUME NodesInv, AddExternals
  PROVE  DOMAIN nodes \subseteq DOMAIN nodes'
<1> DEFINE s == [k \in DOMAIN ws.packages |-> Node("package", <<ws.packages[k]>>, Len(nodes) + k)]
<1>1. DOMAIN ws.packages = 1 .. Len(ws.packages) /\ Len(ws.packages) \in Nat
  BY WorkspaceIsListed DEF NodesInv
<1>2. s \in Seq(Range(s))
  BY <1>1 DEF Range
<1>3. nodes' = nodes \o s
  BY DEF AddExternals
<1> HIDE DEF s
<1>4. /\ DOMAIN nodes' = 1 .. Len(nodes) + Len(s) /\ DOMAIN nodes = 1 .. Len(nodes)
      /\ Len(nodes) \in Nat /\ Len(s) \in Nat
  BY <1>2, <1>3, NodesAreAdded DEF NodesInv, IsListed
<1> QED
  BY <1>4

-----------------------------------------------------------------------------
\* Who takes the symbol s of n.
Takers(n, s) == {e.src : e \in {f \in In(n) : IsProductionModuleDep(f) /\
                                  \E l \in f.locations : ~l.reexport /\ s \in l.symbols}}

LEMMA ConsumersAreTakers ==
  ASSUME NEW n
  PROVE  /\ \A s : s \in DOMAIN Consumers(n) <=> Takers(n, s) # {}
         /\ \A s \in DOMAIN Consumers(n) : Consumers(n)[s] = Takers(n, s)
<1> DEFINE deps == {f \in In(n) : IsProductionModuleDep(f)}
           uses == UNION {{<<e, l>> : l \in {k \in e.locations : ~k.reexport}} : e \in deps}
<1>1. \A u : u \in uses <=> \E e \in deps : \E l \in e.locations : ~l.reexport /\ u = <<e, l>>
  OBVIOUS
<1>2. \A s : s \in UNION {u[2].symbols : u \in uses} <=> Takers(n, s) # {}
  <2> SUFFICES ASSUME NEW s PROVE s \in UNION {u[2].symbols : u \in uses} <=> Takers(n, s) # {}
    OBVIOUS
  <2>1. s \in UNION {u[2].symbols : u \in uses} <=> \E u \in uses : s \in u[2].symbols
    OBVIOUS
  <2>2. (\E u \in uses : s \in u[2].symbols)
          <=> \E e \in deps : \E l \in e.locations : ~l.reexport /\ s \in l.symbols
    <3> HIDE DEF uses, deps
    <3>1. ASSUME NEW u \in uses, s \in u[2].symbols
          PROVE  \E e \in deps : \E l \in e.locations : ~l.reexport /\ s \in l.symbols
      <4>1. PICK e \in deps : \E l \in e.locations : ~l.reexport /\ u = <<e, l>>
        BY <1>1
      <4>2. PICK l \in e.locations : ~l.reexport /\ u = <<e, l>>
        BY <4>1
      <4> QED
        BY <3>1, <4>2
    <3>2. ASSUME NEW e \in deps, NEW l \in e.locations, ~l.reexport, s \in l.symbols
          PROVE  \E u \in uses : s \in u[2].symbols
      <4>1. <<e, l>> \in uses /\ <<e, l>>[2] = l
        BY <1>1, <3>2
      <4> QED
        BY <3>2, <4>1
    <3> QED
      BY <3>1, <3>2
  <2> QED
    BY <2>1, <2>2 DEF Takers
<1>3. ASSUME NEW s PROVE {u[1].src : u \in {v \in uses : s \in v[2].symbols}} = Takers(n, s)
  <2>1. \A c : c \in {u[1].src : u \in {v \in uses : s \in v[2].symbols}}
                 <=> \E u \in uses : s \in u[2].symbols /\ c = u[1].src
    OBVIOUS
  <2>2. \A c : (\E u \in uses : s \in u[2].symbols /\ c = u[1].src)
                 <=> \E e \in deps : \E l \in e.locations : ~l.reexport /\ s \in l.symbols /\ c = e.src
    <3> HIDE DEF uses, deps
    <3>1. ASSUME NEW u \in uses, s \in u[2].symbols
          PROVE  \E e \in deps : \E l \in e.locations : ~l.reexport /\ s \in l.symbols /\ u[1].src = e.src
      <4>1. PICK e \in deps : \E l \in e.locations : ~l.reexport /\ u = <<e, l>>
        BY <1>1
      <4>2. PICK l \in e.locations : ~l.reexport /\ u = <<e, l>>
        BY <4>1
      <4> QED
        BY <3>1, <4>2
    <3>2. ASSUME NEW e \in deps, NEW l \in e.locations, ~l.reexport, s \in l.symbols
          PROVE  \E u \in uses : s \in u[2].symbols /\ e.src = u[1].src
      <4>1. <<e, l>> \in uses /\ <<e, l>>[2] = l /\ <<e, l>>[1] = e
        BY <1>1, <3>2
      <4> QED
        BY <3>2, <4>1
    <3> QED
      BY <3>1, <3>2
  <2>3. \A c : c \in Takers(n, s)
                 <=> \E e \in deps : \E l \in e.locations : ~l.reexport /\ s \in l.symbols /\ c = e.src
    BY DEF Takers
  <2> HIDE DEF uses
  <2> QED
    BY <2>1, <2>2, <2>3
<1>4. Consumers(n) = [s \in UNION {u[2].symbols : u \in uses} |->
                        {u[1].src : u \in {v \in uses : s \in v[2].symbols}}]
  BY DEF Consumers
<1> HIDE DEF uses
<1> QED
  BY <1>2, <1>3, <1>4

IsGroup(g) ==
  /\ g.symbols # {}
  /\ \A s : s \in g.symbols <=> Takers(g.provider, s) = g.consumers /\ Takers(g.provider, s) # {}
  /\ LET home == {m \in DeepestCommonModule(g.consumers) : g.provider \notin ContainmentSubtree(m)}
     IN  IF Cardinality(g.consumers) = 1 THEN g.locality = "SingleConsumer"
         ELSE /\ g.home = home
              /\ g.locality = IF home # {} THEN "CommonAncestor" ELSE "CrateWide"

LEMMA GroupsAre ==
  ASSUME NEW n
  PROVE  /\ \A g \in ConsumerGroups(n) : g.provider = n /\ IsGroup(g)
         /\ \A g, h \in ConsumerGroups(n) : g.consumers = h.consumers => g = h
         /\ \A s : Takers(n, s) # {} => \E g \in ConsumerGroups(n) : s \in g.symbols
<1> DEFINE C == Consumers(n)
           group(cs) == {s \in DOMAIN C : C[s] = cs}
           made(cs) == [provider |-> n, consumers |-> cs, symbols |-> group(cs),
                        locality |-> ConsumerLocality(n, cs).locality, home |-> ConsumerLocality(n, cs).home]
           home(cs) == {m \in DeepestCommonModule(cs) : n \notin ContainmentSubtree(m)}
<1>1. ConsumerGroups(n) = {made(cs) : cs \in Range(C)}
  BY DEF ConsumerGroups
<1>2. ASSUME NEW cs
      PROVE  /\ made(cs).provider = n /\ made(cs).consumers = cs /\ made(cs).symbols = group(cs)
             /\ IF Cardinality(cs) = 1 THEN made(cs).locality = "SingleConsumer"
                ELSE /\ made(cs).home = home(cs)
                     /\ made(cs).locality = IF home(cs) # {} THEN "CommonAncestor" ELSE "CrateWide"
  BY DEF ConsumerLocality
<1>3. /\ \A s : s \in DOMAIN C <=> Takers(n, s) # {}
      /\ \A s \in DOMAIN C : C[s] = Takers(n, s)
  BY ConsumersAreTakers
<1> HIDE DEF C
<1>4. \A s, cs : s \in group(cs) <=> Takers(n, s) = cs /\ Takers(n, s) # {}
  BY <1>3
<1>5. \A cs \in Range(C) : group(cs) # {}
  BY <1>3 DEF Range
<1> HIDE DEF made, group
<1>6. ASSUME NEW cs \in Range(C) PROVE IsGroup(made(cs))
  BY <1>2, <1>4, <1>5 DEF IsGroup
<1>7. ASSUME NEW s, Takers(n, s) # {} PROVE \E g \in ConsumerGroups(n) : s \in g.symbols
  <2>1. s \in DOMAIN C /\ C[s] \in Range(C) /\ s \in group(C[s])
    BY <1>3, <1>4, <1>7 DEF Range
  <2> QED
    BY <1>1, <1>2, <2>1
<1> HIDE DEF home
<1> QED
  BY <1>1, <1>2, <1>6, <1>7

LEMMA HomesAreDeepest ==
  ASSUME EndsInv, IsListed(nodes), localities = UNION {ConsumerGroups(n) : n \in DOMAIN nodes}
  PROVE  LocalityIsDeepestHome
<1> DEFINE homes(g) == {m \in ModuleNodes :
             /\ g.consumers \subseteq ContainmentSubtree(m)
             /\ g.provider \notin ContainmentSubtree(m)}
           taken(e) == UNION {l.symbols : l \in {k \in e.locations : ~k.reexport}}
           used == UNION {{<<e.dst, s, e.src>> : s \in taken(e)} : e \in {f \in EdgeSet : IsProductionModuleDep(f)}}
           told == UNION {{<<g.provider, s, c>> : s \in g.symbols, c \in g.consumers} : g \in localities}
<1>1. DOMAIN nodes \subseteq Nat /\ ParentsComeFirst /\ ModuleNodes \subseteq DOMAIN nodes
  BY EndsTellParents, ListedPlaces DEF ModuleNodes
<1>2. \A n, s, c : c \in Takers(n, s) <=>
        \E e \in EdgeSet : IsProductionModuleDep(e) /\ e.dst = n /\ e.src = c /\ s \in taken(e)
  BY DEF Takers, In
<1>3. \A n, s : \A c \in Takers(n, s) : n \in DOMAIN nodes /\ c \in DOMAIN nodes
  BY <1>2 DEF EndsInv, HasEnds, IsProductionModuleDep
<1>4. /\ \A g \in localities : g.provider \in DOMAIN nodes /\ g \in ConsumerGroups(g.provider) /\ IsGroup(g)
      /\ \A n, s : Takers(n, s) # {} => \E g \in localities : g.provider = n /\ s \in g.symbols
  BY <1>3, GroupsAre
<1>5. \A g, h \in localities : g.provider = h.provider /\ g.symbols \cap h.symbols # {} => g = h
  BY <1>4, GroupsAre DEF IsGroup
<1>6. used = told
  <2>1. \A t : t \in used <=> \E n, s, c : t = <<n, s, c>> /\ c \in Takers(n, s)
    BY <1>2
  <2>2. \A t : t \in told <=> \E g \in localities : \E s \in g.symbols, c \in g.consumers : t = <<g.provider, s, c>>
    OBVIOUS
  <2>3. \A g \in localities : \A s \in g.symbols : Takers(g.provider, s) = g.consumers
    BY <1>4 DEF IsGroup
  <2> HIDE DEF used, told
  <2>4. ASSUME NEW t \in used PROVE t \in told
    BY <1>4, <2>1, <2>2, <2>3
  <2>5. ASSUME NEW t \in told PROVE t \in used
    BY <2>1, <2>2, <2>3
  <2> QED
    BY <2>4, <2>5
<1> HIDE DEF used, told, taken
<1>7. ASSUME NEW g \in localities, Cardinality(g.consumers) > 1
      PROVE  \/ /\ g.locality = "CommonAncestor"
                /\ \A home \in g.home : home \in homes(g) /\ \A m \in homes(g) : home \in ContainmentSubtree(m)
             \/ g.locality = "CrateWide" /\ homes(g) = {}
  <2> DEFINE cs == g.consumers
             home == {m \in DeepestCommonModule(cs) : g.provider \notin ContainmentSubtree(m)}
  <2>1. Cardinality(cs) # 1 /\ cs # {}
    <3>1. ~(1 > 1) /\ ~(0 > 1)
      OBVIOUS
    <3> QED
      BY <1>7, <3>1, FS_EmptySet
  <2>2. g.home = home /\ g.locality = IF home # {} THEN "CommonAncestor" ELSE "CrateWide"
    BY <1>4, <2>1 DEF IsGroup
  <2>3. cs \subseteq DOMAIN nodes
    BY <1>3, <1>4 DEF IsGroup
  <2>4. \A m, n : n \in ContainmentSubtree(m) <=> n \in DOMAIN nodes /\ m \in Up(n)
    BY DEF ContainmentSubtree, Up
  <2>5. \A m : m \in homes(g) <=> /\ m \in ModuleNodes /\ (\A c \in cs : m \in Up(c))
                                  /\ g.provider \notin ContainmentSubtree(m)
    BY <2>3, <2>4
  <2>6. \A d : d \in DeepestCommonModule(cs) <=>
           /\ d \in ModuleNodes /\ \A c \in cs : d \in Up(c)
           /\ \A m \in ModuleNodes : (\A c \in cs : m \in Up(c)) => m \in Up(d)
    BY DEF DeepestCommonModule, Up
  <2> HIDE DEF homes
  <2>7. ASSUME NEW d \in home PROVE d \in homes(g) /\ \A m \in homes(g) : d \in ContainmentSubtree(m)
    BY <1>1, <2>4, <2>5, <2>6
  <2>8. ASSUME NEW m \in homes(g) PROVE home # {}
    <3>1. PICK d \in DeepestCommonModule(cs) : m \in Up(d)
      BY <1>1, <2>1, <2>3, <2>5, DeepestIsFound
    <3>2. d \in ModuleNodes
      BY <2>6
    <3>3. g.provider \notin ContainmentSubtree(d)
      <4>1. ASSUME d \in Up(g.provider) PROVE m \in Up(g.provider)
        BY <1>1, <1>4, <3>1, <4>1, ChainsAreNested DEF IsChained
      <4> QED
        BY <1>4, <2>4, <2>5, <4>1
    <3> QED
      BY <3>1, <3>3
  <2> QED
    BY <2>2, <2>7, <2>8
<1>8. "CommonAncestor" # "CrateWide"
  OBVIOUS
<1> QED
  BY <1>5, <1>6, <1>7, <1>8 DEF LocalityIsDeepestHome, used, told, taken

\* What the diagnosis found stays true while the graph stays as it is.
LEMMA GroupsStay ==
  ASSUME nodes' = nodes, edges' = edges, NEW n
  PROVE  ConsumerGroups(n)' = ConsumerGroups(n)
<1>1. \A m : Chain(m)' = Chain(m)
  BY DEF Chain, ParentOf, In, EdgeSet
<1>2. \A m : ContainmentSubtree(m)' = ContainmentSubtree(m)
  BY <1>1 DEF ContainmentSubtree
<1>3. \A ns : DeepestCommonModule(ns)' = DeepestCommonModule(ns)
  BY <1>1 DEF DeepestCommonModule, ModuleNodes, Kind
<1>4. \A cs : ConsumerLocality(n, cs)' = ConsumerLocality(n, cs)
  BY <1>2, <1>3 DEF ConsumerLocality
<1>5. Consumers(n)' = Consumers(n)
  BY DEF Consumers, In, EdgeSet
<1> QED
  BY <1>4, <1>5 DEF ConsumerGroups

-----------------------------------------------------------------------------
(***************************************************************************)
(* What holds of the graph after every pass.                                *)
(***************************************************************************)
DiagramInv ==
  /\ NodesInv
  /\ LinksInv
  /\ PairsInv
  /\ EndsInv
  /\ pc = "diagnosed" =>
       /\ analysis = RepresentativeCycles(Subgraph)
       /\ report = ClusterReport(Subgraph, analysis, tolerated)
       /\ localities = UNION {ConsumerGroups(n) : n \in DOMAIN nodes}

LEMMA DiagramStarts ==
  ASSUME GraphInit, DiagnosisInit
  PROVE  DiagramInv
<1>1. pc = "crates" /\ ws \in Workspaces /\ nodes = <<>> /\ edges = <<>>
  BY DEF GraphInit
<1>2. IsListed(nodes) /\ IsListed(edges) /\ LinkPlaces = {} /\ EdgeSet = {}
  BY <1>1 DEF IsListed, LinkPlaces, EdgeSet, Range
<1> QED
  BY <1>1, <1>2 DEF DiagramInv, NodesInv, LinksInv, PairsInv, EndsInv, Linked, WithMembers

\* A finished graph stays as it is.
LEMMA GraphStays ==
  ASSUME LinksInv, PairsInv, EndsInv, ws' = ws, nodes' = nodes, edges' = edges, Linked' <=> Linked
  PROVE  /\ LinksInv' /\ PairsInv' /\ EndsInv'
         /\ Subgraph' = Subgraph
         /\ \A R, cycles, some : ClusterReport(R, cycles, some)' = ClusterReport(R, cycles, some)
         /\ \A found : found = UNION {ConsumerGroups(n) : n \in DOMAIN nodes} =>
                        found = UNION {ConsumerGroups(n)' : n \in DOMAIN nodes'}
<1>1. KeepsLinks /\ IsListed(edges)'
  BY DEF KeepsLinks, LinkPlaces, LinksInv, IsListed
<1>2. AddsOthers
  BY DEF AddsOthers, EdgeSet
<1>3. Subgraph' = Subgraph
  BY DEF Subgraph, ProductionSubgraph, EdgeSet
<1>4. \A n : ConsumerGroups(n)' = ConsumerGroups(n)
  BY GroupsStay
<1>5. \A R, cycles, some : ClusterReport(R, cycles, some)' = ClusterReport(R, cycles, some)
  BY ReportStays
<1> QED
  BY <1>1, <1>2, <1>3, <1>4, <1>5, LinksStay, EndsStay

LEMMA DiagramGoesOn ==
  ASSUME DiagramInv, [DiagnosisNext]_<<graphVars, diagnosisVars>>
  PROVE  DiagramInv'
<1> USE DEF DiagramInv
<1>1. CASE AddCrates
  BY <1>1, CratesStep, CratesAndModulesLinkNothing, CratesHaveEnds DEF AddCrates
<1>2. CASE AddModules
  BY <1>2, ModulesStep, CratesAndModulesLinkNothing, ModulesHaveEnds DEF AddModules
<1>3. CASE AddCrateDeps
  <2>1. /\ ws' = ws /\ nodes' = nodes /\ moduleMap' = moduleMap
        /\ pc = "crateDeps" /\ pc' = "moduleDeps"
    BY <1>3 DEF AddCrateDeps
  <2>2. NodesInv'
    BY <2>1, NodesStay
  <2>3. LinksInv' /\ PairsInv' /\ EndsInv'
    BY <1>3, <2>1, CrateDepsLinkNothing, EndsStay
  <2> QED
    BY <2>1, <2>2, <2>3
<1>4. CASE AddModuleDeps
  <2>1. /\ ws' = ws /\ nodes' = nodes /\ moduleMap' = moduleMap
        /\ pc = "moduleDeps" /\ pc' = "externals"
    BY <1>4 DEF AddModuleDeps
  <2>2. NodesInv'
    BY <2>1, NodesStay
  <2>3. LinksInv' /\ PairsInv' /\ EndsInv'
    BY <1>4, ModuleDepsLinkOnce, ModuleDepsHaveEnds
  <2> QED
    BY <2>1, <2>2, <2>3
<1>5. CASE AddExternals
  <2>1. pc' = "graph"
    BY <1>5 DEF AddExternals
  <2>2. LinksInv' /\ PairsInv' /\ EndsInv'
    BY <1>5, ExternalsLinkNothing, PackagesAreLast, EndsStay
  <2> QED
    BY <1>5, <2>1, <2>2, ExternalsStep
<1>6. CASE Diagnose
  <2>1. /\ ws' = ws /\ nodes' = nodes /\ edges' = edges /\ moduleMap' = moduleMap
        /\ pc = "graph" /\ pc' = "diagnosed" /\ analysis' = RepresentativeCycles(Subgraph)
        /\ report' = ClusterReport(Subgraph, analysis', tolerated) /\ tolerated' = tolerated
        /\ localities' = UNION {ConsumerGroups(n) : n \in DOMAIN nodes}
    BY <1>6 DEF Diagnose
  <2>2. NodesInv'
    BY <2>1, NodesStay
  <2>3. Linked' <=> Linked
    BY <2>1 DEF Linked
  <2> QED
    BY <2>1, <2>2, <2>3, GraphStays
<1>7. CASE UNCHANGED <<graphVars, diagnosisVars>>
  <2>1. /\ ws' = ws /\ nodes' = nodes /\ edges' = edges /\ moduleMap' = moduleMap
        /\ pc' = pc /\ analysis' = analysis /\ localities' = localities
        /\ report' = report /\ tolerated' = tolerated
    BY <1>7 DEF graphVars, diagnosisVars
  <2>2. NodesInv'
    BY <2>1 DEF NodesInv, MembersAreFirst, IsListed, MemberCount, CrateCount
  <2>3. Linked' <=> Linked
    BY <2>1 DEF Linked
  <2> QED
    BY <2>1, <2>2, <2>3, GraphStays
<1> QED
  BY <1>1, <1>2, <1>3, <1>4, <1>5, <1>6, <1>7 DEF DiagnosisNext, BuildGraph

LEMMA DiagramInvHolds == DiagnosisSpec => []DiagramInv
<1>1. GraphInit /\ DiagnosisInit => DiagramInv
  BY DiagramStarts
<1>2. DiagramInv /\ [DiagnosisNext]_<<graphVars, diagnosisVars>> => DiagramInv'
  BY DiagramGoesOn
<1> QED
  BY <1>1, <1>2, PTL DEF DiagnosisSpec

-----------------------------------------------------------------------------
LEMMA MembersAreNumbered ==
  ASSUME NodesInv, pc \in WithMembers
  PROVE  /\ Members = 1 .. MemberCount
         /\ \A a \in Members : RefsOf(a) = RefsAt(a)
<1>1. /\ CrateCount \in Nat /\ MemberCount \in Nat /\ CrateCount <= MemberCount
      /\ MembersAreFirst /\ DOMAIN nodes = 1 .. Len(nodes) /\ Len(nodes) \in Nat
  BY WorkspaceIsListed, ListedPlaces DEF NodesInv
<1>2. \A n \in DOMAIN nodes : n \in Members <=> n <= MemberCount
  BY <1>1 DEF MembersAreFirst, Members, CrateNodes, ModuleNodes, Kind
<1>3. Members \subseteq DOMAIN nodes
  BY DEF Members, CrateNodes, ModuleNodes
<1>4. Members = 1 .. MemberCount
  <2>1. MemberCount <= Len(nodes)
    BY <1>1 DEF MembersAreFirst
  <2>2. 1 .. MemberCount \subseteq DOMAIN nodes
    BY <1>1, <2>1
  <2>3. \A n \in DOMAIN nodes : n \in Members <=> n \in 1 .. MemberCount
    BY <1>1, <1>2
  <2> QED
    BY <1>3, <2>2, <2>3
<1>5. ASSUME NEW a \in Members PROVE RefsOf(a) = RefsAt(a)
  <2>1. Kind(a) = "crate" <=> a <= CrateCount
    BY <1>1, <1>3 DEF MembersAreFirst, Kind
  <2> QED
    BY <2>1 DEF RefsOf, RefsAt, CrateCount
<1> QED
  BY <1>4, <1>5

\* Of an edge and the references it stands for.
Tells(e, uses) ==
  /\ e.kind = "production" <=> \E r \in uses : r.kind = "production"
  /\ UNION {l.symbols : l \in e.locations} = {r.item : r \in uses} \ {NoItem}
  /\ IsReexport(e) <=> e.kind = "production" /\ \A r \in uses : r.reexport

LEMMA EdgeTellsUses ==
  ASSUME NEW a, NEW b, NEW uses, uses # {},
         NEW e, e = Edge(a, b, "ModuleDep", AggregateContext(uses), Locations(uses))
  PROVE  Tells(e, uses)
<1> DEFINE locations == e.locations
<1>1. e.weight = "ModuleDep" /\ e.kind = AggregateContext(uses) /\ locations = Locations(uses)
  BY DEF Edge
<1>2. e.kind = "production" <=> \E r \in uses : r.kind = "production"
  BY <1>1 DEF AggregateContext
<1>3. IsReexport(e) <=> e.kind = "production" /\ locations # {} /\ \A l \in locations : l.reexport
  BY <1>1 DEF IsReexport, IsProductionModuleDep
<1> HIDE DEF locations
<1>4. /\ UNION {l.symbols : l \in locations} = {r.item : r \in uses} \ {NoItem}
      /\ uses # {} => locations # {}
      /\ (\A l \in locations : l.reexport) <=> \A r \in uses : r.reexport
  BY <1>1, LocationsKeepUses
<1>5. IsReexport(e) <=> e.kind = "production" /\ \A r \in uses : r.reexport
  BY <1>3, <1>4
<1> QED
  BY <1>2, <1>4, <1>5 DEF Tells, locations

(***************************************************************************)
(* Where no two modules have one path, there is one edge at most between    *)
(* two nodes for their uses, with everything about them in it               *)
(* (OneEdgePerPair): a module's references are grouped by the path they     *)
(* name, a path resolves to one node then, and no pass but that of the      *)
(* modules adds such an edge.                                               *)
(***************************************************************************)
THEOREM OneEdgePerPairHolds == DiagnosisSpec => [](PathsDiffer(ws) => OneEdgePerPair)
<1>1. ASSUME DiagramInv, PathsDiffer(ws) PROVE OneEdgePerPair
  <2> DEFINE between(a, b) == {i \in DOMAIN edges : /\ edges[i].src = a /\ edges[i].dst = b
                                                    /\ edges[i].weight = "ModuleDep"}
             uses(a, b) == {r \in RefsOf(a) : b \in Resolve(r.to)}
             IsTold(a, b) == /\ Cardinality(between(a, b)) = IF uses(a, b) = {} \/ a = b THEN 0 ELSE 1
                             /\ \A i \in between(a, b) : Tells(edges[i], uses(a, b))
  <2>1. ASSUME pc \in {"externals", "graph"}, NEW a \in Members, NEW b \in Members PROVE IsTold(a, b)
    <3>1. NodesInv /\ PairsInv /\ pc \in WithMembers /\ Linked
      BY <1>1, <2>1 DEF DiagramInv, WithMembers, Linked
    <3>2. a \in 1 .. MemberCount /\ b \in 1 .. MemberCount /\ RefsOf(a) = RefsAt(a)
      BY <3>1, MembersAreNumbered
    <3>3. between(a, b) = Between(a, b)
      BY DEF Between, LinkPlaces
    <3>4. uses(a, b) = UsesOf(a, b)
      <4>1. \A r \in RefsAt(a) : b \in Resolve(r.to) <=> r.to = PathOf(b)
        BY <1>1, <3>1, <3>2, RefsAreFinite, PathIsOfNode DEF NodesInv
      <4> QED
        BY <3>2, <4>1 DEF UsesOf
    <3>5. OneLink(a, b)
      BY <1>1, <3>1, <3>2 DEF PairsInv
    <3> HIDE DEF between, uses
    <3>6. CASE uses(a, b) = {} \/ a = b
      <4>1. between(a, b) = {}
        BY <3>3, <3>4, <3>5, <3>6 DEF OneLink
      <4> QED
        BY <3>6, <4>1, FS_EmptySet
    <3>7. CASE ~(uses(a, b) = {} \/ a = b)
      <4>1. PICK i : /\ between(a, b) = {i}
                     /\ edges[i] = Edge(a, b, "ModuleDep", AggregateContext(uses(a, b)), Locations(uses(a, b)))
        BY <3>3, <3>4, <3>5, <3>7 DEF OneLink, UseEdge
      <4>2. Cardinality(between(a, b)) = 1
        BY <4>1, FS_Singleton
      <4>3. Tells(edges[i], uses(a, b))
        BY <3>7, <4>1, EdgeTellsUses
      <4> QED
        BY <3>7, <4>1, <4>2, <4>3
    <3> QED
      BY <3>6, <3>7
  <2>2. OneEdgePerPair <=>
          (pc \in {"externals", "graph"} => \A a, b \in Members : IsTold(a, b))
    BY DEF OneEdgePerPair, Tells
  <2> QED
    BY <2>1, <2>2
<1> QED
  BY <1>1, DiagramInvHolds, PTL

-----------------------------------------------------------------------------
LEMMA SubgraphIsEdgeSet ==
  ASSUME LinksInv
  PROVE  /\ IsEdgeSet(Subgraph)
         /\ \A p \in Subgraph : p[1] # p[2]
<1>1. ASSUME NEW p \in Subgraph
      PROVE  \E i \in DOMAIN edges : /\ p = <<edges[i].src, edges[i].dst>>
                                     /\ edges[i].src \in Nat /\ edges[i].dst \in Nat /\ edges[i].src # edges[i].dst
  <2>1. PICK e \in EdgeSet : p = <<e.src, e.dst>> /\ IsProductionModuleDep(e)
    BY DEF Subgraph, ProductionSubgraph
  <2>2. PICK i \in DOMAIN edges : e = edges[i]
    BY <2>1 DEF EdgeSet, Range
  <2>3. i \in LinkPlaces
    BY <2>1, <2>2 DEF LinkPlaces, IsProductionModuleDep
  <2> QED
    BY <2>1, <2>2, <2>3 DEF LinksInv
<1>2. Subgraph \subseteq Nat \X Nat
  BY <1>1
<1>3. IsFiniteSet(Targets(Subgraph))
  <2> DEFINE f == [i \in DOMAIN edges |-> edges[i].dst]
  <2>1. DOMAIN f = 1 .. Len(edges) /\ Len(edges) \in Nat
    BY ListedPlaces DEF LinksInv
  <2>2. IsFiniteSet(DOMAIN f)
    BY <2>1, FS_Interval
  <2>3. Targets(Subgraph) \subseteq Range(f)
    <3>1. ASSUME NEW p \in Subgraph PROVE p[2] \in Range(f)
      <4>1. PICK i \in DOMAIN edges : p = <<edges[i].src, edges[i].dst>>
        BY <1>1
      <4> QED
        BY <4>1 DEF Range
    <3> QED
      BY <3>1 DEF Targets
  <2> HIDE DEF f
  <2> QED
    BY <2>2, <2>3, ImageIsFinite, FS_Subset
<1> QED
  BY <1>1, <1>2, <1>3 DEF IsEdgeSet

\* What Symbols counts of two nodes is on an edge between them.
LEMMA SymbolsAreCounted ==
  ASSUME LinksInv, EndsInv, NEW p
  PROVE  Symbols(p) \in Nat
<1> DEFINE found == {f \in FindEdge(p[1], p[2]) : f.weight = "ModuleDep"}
           locations == UNION {e.locations : e \in found}
           named == SymbolsOf(p[1], p[2]).named
<1>1. ASSUME NEW e \in found PROVE e \in EdgeSet /\ found = {e}
  <2> DEFINE places == {i \in DOMAIN edges : edges[i].src = p[1] /\ edges[i].dst = p[2]}
  <2>1. DOMAIN edges = 1 .. Len(edges) /\ Len(edges) \in Nat
    BY ListedPlaces DEF LinksInv
  <2>2. places # {} /\ e = edges[Max(places)] /\ \A f \in found : f = edges[Max(places)]
    BY DEF FindEdge
  <2>3. places \subseteq 0 .. Len(edges)
    BY <2>1
  <2>4. places \subseteq DOMAIN edges
    OBVIOUS
  <2> HIDE DEF places
  <2>5. Max(places) \in DOMAIN edges
    BY <2>1, <2>2, <2>3, <2>4, MaxIsMember
  <2> QED
    BY <2>2, <2>5 DEF EdgeSet, Range
<1>2. IsFiniteSet(UNION {l.symbols : l \in locations})
  <2>1. CASE found = {}
    <3>1. UNION {l.symbols : l \in locations} = {}
      BY <2>1
    <3> QED
      BY <3>1, FS_EmptySet
  <2>2. CASE found # {}
    <3>1. PICK e : e \in found
      BY <2>2
    <3>2. e \in EdgeSet /\ found = {e} /\ e.weight = "ModuleDep"
      BY <1>1, <3>1
    <3>3. UNION {l.symbols : l \in locations} = SymbolsAt(e)
      BY <3>2 DEF SymbolsAt
    <3> QED
      BY <3>2, <3>3 DEF EndsInv, HasEnds
  <2> QED
    BY <2>1, <2>2
<1>3. SymbolsOf(p[1], p[2]) = EdgeSymbols(locations)
  BY DEF SymbolsOf
<1> HIDE DEF locations
<1>4. named \in SUBSET UNION {l.symbols : l \in locations}
  BY <1>3 DEF EdgeSymbols
<1>5. Cardinality(named) \in Nat
  <2> HIDE DEF named
  <2> QED
    BY <1>2, <1>4, FS_Subset, FS_CardinalityType
<1>6. Symbols(p) = Cardinality(named) + (IF SymbolsOf(p[1], p[2]).bare THEN 1 ELSE 0)
  BY DEF Symbols, Size
<1> HIDE DEF named
<1> QED
  BY <1>5, <1>6

LEMMA SubgraphIsNumbered ==
  ASSUME LinksInv, EndsInv
  PROVE  IsNumbered(Subgraph)
<1> DEFINE f == [i \in DOMAIN edges |-> <<edges[i].src, edges[i].dst>>]
<1>1. DOMAIN f = 1 .. Len(edges) /\ Len(edges) \in Nat
  BY ListedPlaces DEF LinksInv
<1>2. Subgraph \in SUBSET Range(f)
  BY DEF Subgraph, ProductionSubgraph, EdgeSet, Range
<1> HIDE DEF f
<1>3. IsFiniteSet(Subgraph)
  BY <1>1, <1>2, FS_Interval, ImageIsFinite, FS_Subset
<1> QED
  BY <1>3, SubgraphIsEdgeSet, SymbolsAreCounted DEF IsNumbered, IsEdgeSet

LEMMA WithinIsWalked ==
  ASSUME NEW R, NEW u, NEW v, NEW k
  PROVE  LeadsWithin(R, u, v, k) <=> v \in ReachWalk({u}, R)[k]
BY DEF LeadsWithin, ReachWalk

(***************************************************************************)
(* The representative cycles of the finished graph are simple cycles of it, *)
(* each listed once, and every edge on a cycle lies on one that is as short *)
(* as any (RepresentativesAreShortest): the edges between modules are       *)
(* finitely many, none leads from a module to itself, and of such a graph   *)
(* the search finds shortest ways.                                          *)
(***************************************************************************)
THEOREM RepresentativesAreShortestHolds == DiagnosisSpec => []RepresentativesAreShortest
<1>1. ASSUME DiagramInv PROVE RepresentativesAreShortest
  <2> SUFFICES ASSUME pc = "diagnosed"
               PROVE  /\ \A c \in analysis :
                           /\ CycleEdges(c) \subseteq Subgraph
                           /\ Cardinality(Range(c)) = Len(c)
                           /\ \A d \in analysis : CycleEdges(c) = CycleEdges(d) => c = d
                      /\ \A p \in Subgraph : p[1] \in ReachedFrom({p[2]}, Subgraph) =>
                           \E c \in analysis :
                             p \in CycleEdges(c) /\ ~LeadsWithin(Subgraph, p[2], p[1], Len(c) - 2)
    BY DEF RepresentativesAreShortest
  <2> DEFINE R == Subgraph
  <2>1. analysis = RepresentativeCycles(R) /\ LinksInv
    BY <1>1 DEF DiagramInv
  <2>2. IsEdgeSet(R) /\ \A p \in R : p[1] # p[2]
    BY <2>1, SubgraphIsEdgeSet
  <2> HIDE DEF R
  <2>3. /\ \A c \in analysis : Cardinality(Range(c)) = Len(c)
        /\ \A c, d \in analysis : CycleEdges(c) = CycleEdges(d) => c = d
        /\ \A p \in R : p[1] # p[2] /\ Leads(R, p[2], p[1]) =>
             \E c \in analysis : /\ p \in CycleEdges(c)
                                 /\ p[1] \notin ReachWalk({p[2]}, R)[Len(c) - 2]
    BY <2>1, <2>2, RepresentativesAreShort
  <2>4. ASSUME NEW c \in analysis PROVE CycleEdges(c) \subseteq R
    <3>1. PICK scc \in Sccs(R) : \E p \in Within(R, scc) : c = Representative(R, scc, p)
      BY <2>1, RepresentativesAre
    <3>2. CycleEdges(c) \subseteq Within(R, scc)
      BY <2>2, <3>1, RepresentativeIsCycle
    <3> QED
      BY <3>2 DEF Within
  <2>5. ASSUME NEW p \in R, p[1] \in ReachedFrom({p[2]}, R)
        PROVE  \E c \in analysis : p \in CycleEdges(c) /\ ~LeadsWithin(R, p[2], p[1], Len(c) - 2)
    <3>1. Leads(R, p[2], p[1])
      BY <2>5 DEF Leads
    <3> QED
      BY <2>2, <2>3, <3>1, WithinIsWalked
  <2> QED
    BY <2>3, <2>4, <2>5 DEF R
<1> QED
  BY <1>1, DiagramInvHolds, PTL

-----------------------------------------------------------------------------
(***************************************************************************)
(* The home of a symbol's consumers is the deepest module that holds them   *)
(* and not the provider, and where no module does there is no home          *)
(* (LocalityIsDeepestHome): a node's parent is added before it, so what     *)
(* holds a node is a chain, and of two modules that hold all the consumers  *)
(* one holds the other.                                                     *)
(***************************************************************************)
THEOREM LocalityIsDeepestHomeHolds == DiagnosisSpec => []LocalityIsDeepestHome
<1>1. ASSUME DiagramInv PROVE LocalityIsDeepestHome
  <2>1. CASE pc = "diagnosed"
    BY <1>1, <2>1, HomesAreDeepest DEF DiagramInv, NodesInv
  <2>2. CASE pc # "diagnosed"
    BY <2>2 DEF LocalityIsDeepestHome
  <2> QED
    BY <2>1, <2>2
<1> QED
  BY <1>1, DiagramInvHolds, PTL

-----------------------------------------------------------------------------
(***************************************************************************)
(* Without the feedback edges of its cluster no cycle that counts is left,  *)
(* and each of them breaks a cycle that those before it leave               *)
(* (FeedbackBreaksCycles): each round of the greedy choice takes an edge of *)
(* an open cycle, so there are rounds enough for all of them, and a cluster *)
(* that counts every cycle goes on until no representative is left.         *)
(***************************************************************************)
THEOREM FeedbackBreaksCyclesHolds == DiagnosisSpec => []FeedbackBreaksCycles
<1>1. ASSUME DiagramInv PROVE FeedbackBreaksCycles
  <2>1. CASE pc = "diagnosed"
    <3>1. analysis = RepresentativeCycles(Subgraph) /\ report = ClusterReport(Subgraph, analysis, tolerated)
      BY <1>1, <2>1 DEF DiagramInv
    <3>2. IsNumbered(Subgraph)
      BY <1>1, SubgraphIsNumbered DEF DiagramInv
    <3>3. \A c \in Range(report) : BreaksCycles(Subgraph, analysis, tolerated, c)
      BY <3>1, <3>2, ReportBreaksCycles
    <3>4. ASSUME NEW c \in Range(report)
          PROVE  /\ FeedbackOf(c) = ListedEdges(c.feedback) /\ {f.edge : f \in Range(c.edges)} = ListedEdges(c.edges)
                 /\ \A cycle : cycle \in Counted(c) <=> \E k \in c.cycles : cycle = CycleEdges(k)
      BY DEF FeedbackOf, Counted, ListedEdges
    <3>5. ASSUME NEW c \in Range(report), NEW inside, inside = Within(Subgraph, c.nodes)
          PROVE  /\ \A cycle \in Counted(c) : cycle \cap FeedbackOf(c) # {}
                 /\ c.countsEveryCycle =>
                      /\ Acyclic(inside \ FeedbackOf(c))
                      /\ \A picks \in (SUBSET FeedbackOf(c)) \ {{}} :
                           \E e \in picks : OnCycleWithout(inside, picks, e)
                 /\ ~c.countsEveryCycle =>
                      /\ \A picks \in (SUBSET FeedbackOf(c)) \ {{}} :
                           \E cycle \in Counted(c) : Cardinality(cycle \cap picks) = 1
                      /\ \A cycle \in Counted(c) : ~(cycle \subseteq tolerated)
                 /\ FeedbackOf(c) \subseteq {f.edge : f \in Range(c.edges)}
                 /\ c.tolerated => \A cycle \in analysis :
                      cycle[1] \in c.nodes => CycleEdges(cycle) \subseteq tolerated
      <4> DEFINE feedback == ListedEdges(c.feedback)
      <4>1. /\ \A cycle \in c.cycles : CycleEdges(cycle) \cap feedback # {}
            /\ EachBreaks(inside, feedback)
            /\ c.countsEveryCycle => Acyclic(inside \ feedback)
            /\ ~c.countsEveryCycle =>
                 /\ \A picks \in (SUBSET feedback) \ {{}} :
                      \E cycle \in c.cycles, e \in picks : CycleEdges(cycle) \cap picks = {e}
                 /\ \A cycle \in c.cycles : ~(CycleEdges(cycle) \subseteq tolerated)
            /\ feedback \subseteq ListedEdges(c.edges)
            /\ c.tolerated => \A cycle \in analysis :
                 cycle[1] \in c.nodes => CycleEdges(cycle) \subseteq tolerated
        BY <3>3, <3>5 DEF BreaksCycles
      <4> HIDE DEF feedback
      <4>2. \A cycle \in Counted(c) : cycle \cap feedback # {}
        BY <3>4, <4>1
      <4>3. ASSUME ~c.countsEveryCycle, NEW picks \in (SUBSET feedback) \ {{}}
            PROVE  \E cycle \in Counted(c) : Cardinality(cycle \cap picks) = 1
        <5>1. PICK k \in c.cycles, e \in picks : CycleEdges(k) \cap picks = {e}
          BY <4>1, <4>3
        <5>2. CycleEdges(k) \in Counted(c)
          BY <3>4
        <5>3. Cardinality({e}) = 1
          BY FS_Singleton
        <5> QED
          BY <5>1, <5>2, <5>3
      <4>4. ~c.countsEveryCycle => \A cycle \in Counted(c) : ~(cycle \subseteq tolerated)
        BY <3>4, <4>1
      <4>5. FeedbackOf(c) = feedback /\ {f.edge : f \in Range(c.edges)} = ListedEdges(c.edges)
        BY <3>4 DEF feedback
      <4>6. \A picks \in (SUBSET feedback) \ {{}} : \E e \in picks : OnCycleWithout(inside, picks, e)
        BY <4>1 DEF EachBreaks, OnCycleWithout, Leads
      <4> QED
        BY <4>1, <4>2, <4>3, <4>4, <4>5, <4>6
    <3> QED
      BY <3>5 DEF FeedbackBreaksCycles
  <2>2. CASE pc # "diagnosed"
    BY <2>2 DEF FeedbackBreaksCycles
  <2> QED
    BY <2>1, <2>2
<1> QED
  BY <1>1, DiagramInvHolds, PTL

=============================================================================
