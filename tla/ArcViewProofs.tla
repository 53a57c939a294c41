---------------------------- MODULE ArcViewProofs ----------------------------
(***************************************************************************)
(* Proofs about module ArcView, for any pages: whatever the reader clicks,  *)
(* the editor focuses and a reload brings back, one cluster is chosen at a  *)
(* time, and pin, rows and sidebar are of it.                               *)
(***************************************************************************)
EXTENDS ArcView, TLAPS

-----------------------------------------------------------------------------
(***************************************************************************)
(* A choice, and what makes it one of a single cluster: OneClusterAtATime   *)
(* of any record c, so that handlers can be composed.                       *)
(***************************************************************************)
IsChoice(c) == c = [pin |-> c.pin, scc |-> c.scc, rows |-> c.rows, sidebar |-> c.sidebar]

PinIsOfCluster(c) == c.pin[1] = "arc" /\ SccOf(c.pin[2]) # 0 => c.scc = SccOf(c.pin[2])
RowsAreOfCluster(c) == c.rows \subseteq RowsOfCluster(c.scc)
SidebarIsOfCluster(c) == c.sidebar[1] = "cluster" => c.sidebar[2] = c.scc

\* Before the sidebar is drawn anew.
IsOfOneCluster(c) == IsChoice(c) /\ PinIsOfCluster(c) /\ RowsAreOfCluster(c)
ChoiceInv(c) == IsOfOneCluster(c) /\ SidebarIsOfCluster(c)

ViewInv == page \in Pages /\ ChoiceInv(chosen)

\* Where a choice points, by its first word.
LEMMA PlacesDiffer ==
  /\ Nothing[1] = "nothing"
  /\ \A n : ThisNode(n)[1] = "node"
  /\ \A a : ThisArc(a)[1] = "arc" /\ ThisArc(a)[2] = a /\ Summary(a)[1] = "summary"
  /\ \A scc : Cluster(scc)[1] = "cluster" /\ Cluster(scc)[2] = scc
BY DEF Nothing, ThisNode, ThisArc, Summary, Cluster

\* An arc of a cluster is a row of its table (compute_cycle_info).
LEMMA ArcIsARow ==
  ASSUME page \in Pages, NEW a, SccOf(a) # 0
  PROVE  a \in RowsOfCluster(SccOf(a))
BY PagesAssumption DEF SccOf, RowsOfCluster, Arcs

\* The updates that handlers make, field by field.
LEMMA Updates ==
  ASSUME NEW c, IsChoice(c), NEW pin, NEW rows, NEW sidebar
  PROVE  /\ [c EXCEPT !.pin = pin] =
              [pin |-> pin, scc |-> c.scc, rows |-> c.rows, sidebar |-> c.sidebar]
         /\ [c EXCEPT !.rows = rows, !.pin = pin] =
              [pin |-> pin, scc |-> c.scc, rows |-> rows, sidebar |-> c.sidebar]
         /\ [c EXCEPT !.pin = pin, !.sidebar = sidebar] =
              [pin |-> pin, scc |-> c.scc, rows |-> c.rows, sidebar |-> sidebar]
<1>1. PICK p, k, r, b : c = [pin |-> p, scc |-> k, rows |-> r, sidebar |-> b]
  BY DEF IsChoice
<1>2. [c EXCEPT !.pin = pin] = [pin |-> pin, scc |-> k, rows |-> r, sidebar |-> b]
  BY <1>1
<1>3. [c EXCEPT !.rows = rows, !.pin = pin] = [pin |-> pin, scc |-> k, rows |-> rows, sidebar |-> b]
  <2> DEFINE opened == [c EXCEPT !.rows = rows]
  <2>1. opened = [pin |-> p, scc |-> k, rows |-> rows, sidebar |-> b]
    BY <1>1
  <2>2. [c EXCEPT !.rows = rows, !.pin = pin] = [opened EXCEPT !.pin = pin]
    OBVIOUS
  <2> HIDE DEF opened
  <2>3. [opened EXCEPT !.pin = pin] = [pin |-> pin, scc |-> k, rows |-> rows, sidebar |-> b]
    BY <2>1
  <2> QED
    BY <2>2, <2>3
<1>4. [c EXCEPT !.pin = pin, !.sidebar = sidebar] =
        [pin |-> pin, scc |-> k, rows |-> r, sidebar |-> sidebar]
  <2> DEFINE moved == [c EXCEPT !.pin = pin]
  <2>1. [c EXCEPT !.pin = pin, !.sidebar = sidebar] = [moved EXCEPT !.sidebar = sidebar]
    OBVIOUS
  <2>2. moved = [pin |-> pin, scc |-> k, rows |-> r, sidebar |-> b]
    BY <1>2
  <2> HIDE DEF moved
  <2>3. [moved EXCEPT !.sidebar = sidebar] = [pin |-> pin, scc |-> k, rows |-> r, sidebar |-> sidebar]
    BY <2>2
  <2> QED
    BY <2>1, <2>3
<1> QED
  BY <1>1, <1>2, <1>3, <1>4

LEMMA NothingIsChosen == ChoiceInv(NothingChosen)
BY PlacesDiffer
DEF ChoiceInv, IsOfOneCluster, IsChoice, PinIsOfCluster, RowsAreOfCluster, SidebarIsOfCluster,
    NothingChosen

-----------------------------------------------------------------------------
(***************************************************************************)
(* The pieces of the handlers. Another cluster closes the rows; the pin has *)
(* to move with it, which is each handler's part.                           *)
(***************************************************************************)
LEMMA EnterSccFields ==
  ASSUME NEW c, IsChoice(c), NEW scc
  PROVE  /\ IsChoice(EnterScc(c, scc))
         /\ EnterScc(c, scc).scc = scc
         /\ EnterScc(c, scc).pin = c.pin
         /\ EnterScc(c, scc).sidebar = c.sidebar
         /\ RowsAreOfCluster(c) => RowsAreOfCluster(EnterScc(c, scc))
         /\ c.scc = scc => EnterScc(c, scc) = c
BY DEF IsChoice, EnterScc, RowsAreOfCluster

\* A new sidebar leaves the rest alone.
LEMMA NewSidebar ==
  ASSUME NEW c, IsOfOneCluster(c), NEW s, s[1] = "cluster" => s[2] = c.scc
  PROVE  ChoiceInv([c EXCEPT !.sidebar = s])
BY DEF ChoiceInv, IsOfOneCluster, IsChoice, PinIsOfCluster, RowsAreOfCluster, SidebarIsOfCluster

LEMMA TogglePinFields ==
  ASSUME NEW c, IsChoice(c), NEW what
  PROVE  /\ IsChoice(TogglePin(c, what))
         /\ TogglePin(c, what).pin \in {Nothing, what}
         /\ TogglePin(c, what).scc = c.scc
         /\ TogglePin(c, what).rows = c.rows
BY DEF IsChoice, TogglePin

\* A row's arc is pinned and its row opened, or unpinned.
LEMMA RowIsPinned ==
  ASSUME NEW c, IsOfOneCluster(c), NEW a, a \in RowsOfCluster(c.scc)
  PROVE  /\ IsOfOneCluster(Pinned(c, a)) /\ Pinned(c, a).scc = c.scc
         /\ Pinned(c, a).sidebar = c.sidebar
<1>1. SccOf(a) = c.scc
  BY DEF RowsOfCluster
<1> DEFINE rows == IF c.pin = ThisArc(a) THEN c.rows ELSE c.rows \cup {a}
<1>2. Pinned(c, a) = [c EXCEPT !.rows = rows, !.pin = ThisArc(a)]
  BY DEF Pinned
<1>3. rows \subseteq RowsOfCluster(c.scc)
  BY DEF IsOfOneCluster, RowsAreOfCluster
<1> HIDE DEF rows
<1>4. Pinned(c, a) = [pin |-> ThisArc(a), scc |-> c.scc, rows |-> rows, sidebar |-> c.sidebar]
  BY <1>2, Updates DEF IsOfOneCluster
<1> QED
  BY <1>1, <1>3, <1>4, PlacesDiffer DEF IsOfOneCluster, IsChoice, PinIsOfCluster, RowsAreOfCluster

LEMMA RowIsUnpinned ==
  ASSUME NEW c, IsOfOneCluster(c), NEW a
  PROVE  /\ IsOfOneCluster(Unpinned(c, a)) /\ Unpinned(c, a).scc = c.scc
         /\ Unpinned(c, a).sidebar = c.sidebar
<1>1. Unpinned(c, a) = [pin |-> IF c.pin = ThisArc(a) THEN Nothing ELSE c.pin, scc |-> c.scc,
                        rows |-> c.rows, sidebar |-> c.sidebar]
  BY DEF IsOfOneCluster, IsChoice, Unpinned
<1> QED
  BY <1>1, PlacesDiffer DEF IsOfOneCluster, IsChoice, PinIsOfCluster, RowsAreOfCluster

-----------------------------------------------------------------------------
(***************************************************************************)
(* Clicks on arcs. The first click on an arc of a cluster keeps the pin: it *)
(* is of no cluster then, since none was chosen.                            *)
(***************************************************************************)
LEMMA EdgeIsClicked ==
  ASSUME page \in Pages, NEW c, IsOfOneCluster(c), NEW a
  PROVE  IsOfOneCluster(ClickEdge(c, a)) /\ ClickEdge(c, a).scc = SccOf(a)
<1> DEFINE scc == SccOf(a)
           entered == EnterScc(c, scc)
<1>1. /\ IsChoice(entered) /\ entered.scc = scc /\ entered.pin = c.pin
      /\ RowsAreOfCluster(entered)
  BY EnterSccFields DEF IsOfOneCluster
<1>2. CASE scc = 0
  <2>1. ClickEdge(c, a) = TogglePin(entered, ThisArc(a))
    BY <1>2 DEF ClickEdge
  <2> HIDE DEF entered
  <2>2. /\ IsChoice(TogglePin(entered, ThisArc(a)))
        /\ TogglePin(entered, ThisArc(a)).pin \in {Nothing, ThisArc(a)}
        /\ TogglePin(entered, ThisArc(a)).scc = entered.scc
        /\ TogglePin(entered, ThisArc(a)).rows = entered.rows
    BY <1>1, TogglePinFields
  <2> QED
    BY <1>1, <1>2, <2>1, <2>2, PlacesDiffer DEF IsOfOneCluster, PinIsOfCluster, RowsAreOfCluster
<1>3. CASE scc # 0 /\ c.scc = 0
  <2>1. ClickEdge(c, a) = entered
    BY <1>3 DEF ClickEdge
  <2>2. PinIsOfCluster(entered)
    BY <1>1, <1>3 DEF IsOfOneCluster, PinIsOfCluster
  <2> QED
    BY <1>1, <2>1, <2>2 DEF IsOfOneCluster
<1>4. CASE scc # 0 /\ c.scc = scc
  <2>1. ClickEdge(c, a) \in {Unpinned(c, a), Pinned(c, a)}
    BY <1>4 DEF ClickEdge
  <2>2. a \in RowsOfCluster(c.scc)
    BY <1>4, ArcIsARow
  <2> QED
    BY <1>4, <2>1, <2>2, RowIsPinned, RowIsUnpinned
<1>5. CASE scc # 0 /\ c.scc # 0 /\ c.scc # scc
  <2>1. ClickEdge(c, a) = [entered EXCEPT !.pin = Nothing]
    BY <1>5 DEF ClickEdge
  <2> HIDE DEF entered
  <2>2. ClickEdge(c, a) =
          [pin |-> Nothing, scc |-> entered.scc, rows |-> entered.rows, sidebar |-> entered.sidebar]
    BY <1>1, <2>1, Updates
  <2> QED
    BY <1>1, <2>2, PlacesDiffer DEF IsOfOneCluster, IsChoice, PinIsOfCluster, RowsAreOfCluster
<1> QED
  BY <1>2, <1>3, <1>4, <1>5

LEMMA EdgeIsHandled ==
  ASSUME page \in Pages, NEW c, IsOfOneCluster(c), NEW mode, NEW a, NEW shown, shown[1] # "cluster"
  PROVE  ChoiceInv(HandleEdge(c, mode, a, shown))
<1> DEFINE clicked == ClickEdge(c, a)
           sidebar == CASE SccOf(a) # 0 -> SidebarOf(mode, a)
                        [] SccOf(a) = 0 /\ clicked.pin = ThisArc(a) -> shown
                        [] OTHER -> Nothing
<1>1. IsOfOneCluster(clicked) /\ clicked.scc = SccOf(a)
  BY EdgeIsClicked
<1>2. sidebar[1] = "cluster" => sidebar[2] = SccOf(a)
  BY PlacesDiffer DEF SidebarOf
<1>3. HandleEdge(c, mode, a, shown) = [clicked EXCEPT !.sidebar = sidebar]
  BY DEF HandleEdge
<1> HIDE DEF clicked, sidebar
<1> QED
  BY <1>1, <1>2, <1>3, NewSidebar

-----------------------------------------------------------------------------
(***************************************************************************)
(* The other handlers.                                                      *)
(***************************************************************************)
LEMMA SidebarIsRefreshed ==
  ASSUME NEW c, ChoiceInv(c) PROVE ChoiceInv(RefreshSidebar(c))
<1> DEFINE sidebar == IF c.pin[1] = "node" THEN c.pin ELSE c.sidebar
<1>1. RefreshSidebar(c) = [c EXCEPT !.sidebar = sidebar]
  BY DEF RefreshSidebar
<1>2. sidebar[1] = "cluster" => sidebar[2] = c.scc
  BY DEF ChoiceInv, SidebarIsOfCluster
<1> HIDE DEF sidebar
<1> QED
  BY <1>1, <1>2, NewSidebar DEF ChoiceInv

LEMMA NodeIsClicked ==
  ASSUME NEW c, IsOfOneCluster(c), NEW n PROVE ChoiceInv(ClickNode(c, n))
<1> DEFINE clicked == TogglePin(c, ThisNode(n))
           sidebar == IF clicked.pin = ThisNode(n) THEN ThisNode(n) ELSE Nothing
<1>1. /\ IsChoice(clicked) /\ clicked.pin \in {Nothing, ThisNode(n)}
      /\ clicked.scc = c.scc /\ clicked.rows = c.rows
  BY TogglePinFields DEF IsOfOneCluster
<1>2. ClickNode(c, n) = [clicked EXCEPT !.sidebar = sidebar]
  BY DEF ClickNode
<1>3. sidebar[1] # "cluster"
  BY PlacesDiffer
<1> HIDE DEF clicked, sidebar
<1>4. IsOfOneCluster(clicked)
  BY <1>1, PlacesDiffer DEF IsOfOneCluster, PinIsOfCluster, RowsAreOfCluster
<1> QED
  BY <1>2, <1>3, <1>4, NewSidebar

LEMMA BackgroundIsClicked ==
  ASSUME NEW c, IsOfOneCluster(c) PROVE ChoiceInv(ClickEmpty(c))
<1> DEFINE entered == EnterScc(c, 0)
<1>1. IsChoice(entered) /\ RowsAreOfCluster(entered)
  BY EnterSccFields DEF IsOfOneCluster
<1>2. ClickEmpty(c) = [entered EXCEPT !.pin = Nothing, !.sidebar = Nothing]
  BY DEF ClickEmpty
<1> HIDE DEF entered
<1> QED
  BY <1>1, <1>2, PlacesDiffer
  DEF ChoiceInv, IsOfOneCluster, IsChoice, PinIsOfCluster, RowsAreOfCluster, SidebarIsOfCluster

\* Rows that open or close within the cluster.
LEMMA NewRows ==
  ASSUME NEW c, ChoiceInv(c), NEW rows, rows \subseteq RowsOfCluster(c.scc)
  PROVE  ChoiceInv([c EXCEPT !.rows = rows])
BY DEF ChoiceInv, IsOfOneCluster, IsChoice, PinIsOfCluster, RowsAreOfCluster, SidebarIsOfCluster

LEMMA RowIsClicked ==
  ASSUME ViewInv, ClickRow PROVE ChoiceInv(chosen')
<1>1. RowsInSight \subseteq RowsOfCluster(chosen.scc)
  BY DEF ViewInv, ChoiceInv, SidebarIsOfCluster, RowsInSight
<1>2. chosen.rows \subseteq RowsOfCluster(chosen.scc) /\ IsChoice(chosen)
  BY DEF ViewInv, ChoiceInv, IsOfOneCluster, RowsAreOfCluster
<1>3. ASSUME NEW a \in RowsInSight, chosen' = ToggleRow(chosen, a) PROVE ChoiceInv(chosen')
  <2> DEFINE rows == IF a \in chosen.rows THEN chosen.rows \ {a} ELSE chosen.rows \cup {a}
  <2>1. rows \subseteq RowsOfCluster(chosen.scc)
    BY <1>1, <1>2
  <2>2. chosen' = [chosen EXCEPT !.rows = rows]
    BY <1>3 DEF ToggleRow
  <2> HIDE DEF rows
  <2> QED
    BY <2>1, <2>2, NewRows DEF ViewInv
<1>4. ASSUME NEW a \in RowsInSight, chosen' = PinRow(chosen, a) PROVE ChoiceInv(chosen')
  <2>1. a \in RowsOfCluster(chosen.scc) /\ SccOf(a) = chosen.scc
    BY <1>1 DEF RowsOfCluster
  <2>2. EnterScc(chosen, SccOf(a)) = chosen
    BY <2>1, <1>2, EnterSccFields
  <2>3. chosen' \in {Unpinned(chosen, a), Pinned(chosen, a)}
    BY <1>4, <2>2 DEF PinRow
  <2>4. IsOfOneCluster(chosen') /\ chosen'.scc = chosen.scc /\ chosen'.sidebar = chosen.sidebar
    BY <2>1, <2>3, RowIsPinned, RowIsUnpinned DEF ViewInv, ChoiceInv
  <2> QED
    BY <2>4 DEF ViewInv, ChoiceInv, SidebarIsOfCluster
<1>5. ASSUME NEW opening \in BOOLEAN, chosen' = OpenRows(chosen, opening) PROVE ChoiceInv(chosen')
  <2> DEFINE all == RowsOfCluster(chosen.scc)
             rows == IF opening THEN chosen.rows \cup all ELSE chosen.rows \ all
  <2>1. rows \subseteq RowsOfCluster(chosen.scc)
    BY <1>2
  <2>2. chosen' = [chosen EXCEPT !.rows = rows]
    BY <1>5 DEF OpenRows
  <2> HIDE DEF rows
  <2> QED
    BY <2>1, <2>2, NewRows DEF ViewInv
<1> QED
  BY <1>3, <1>4, <1>5 DEF ClickRow

LEMMA NodeIsFocused ==
  ASSUME ViewInv, NEW n, NEW rows \in SUBSET RowsInSight
  PROVE  ChoiceInv(FocusNode(chosen, n, rows))
<1> DEFINE seen == [chosen EXCEPT !.pin = ThisNode(n), !.sidebar = ThisNode(n)]
           focused == IF chosen.pin = ThisNode(n) THEN chosen ELSE seen
           open == IF focused.sidebar[1] = "cluster" THEN focused.rows \cup rows ELSE focused.rows
<1>0. seen = [pin |-> ThisNode(n), scc |-> chosen.scc, rows |-> chosen.rows, sidebar |-> ThisNode(n)]
  BY Updates DEF ViewInv, ChoiceInv, IsOfOneCluster
<1>1. ChoiceInv(seen) /\ seen.sidebar[1] # "cluster"
  BY <1>0, PlacesDiffer
  DEF ViewInv, ChoiceInv, IsOfOneCluster, IsChoice, PinIsOfCluster, RowsAreOfCluster, SidebarIsOfCluster
<1>2. ChoiceInv(focused) /\ (focused.sidebar[1] = "cluster" => focused = chosen)
  BY <1>1 DEF ViewInv
<1>3. FocusNode(chosen, n, rows) = [focused EXCEPT !.rows = open]
  BY DEF FocusNode
<1> HIDE DEF seen, focused
<1>4. RowsInSight \subseteq RowsOfCluster(chosen.scc)
  BY DEF ViewInv, ChoiceInv, SidebarIsOfCluster, RowsInSight
<1>5. open \subseteq RowsOfCluster(focused.scc)
  BY <1>2, <1>4 DEF ChoiceInv, IsOfOneCluster, RowsAreOfCluster
<1> HIDE DEF open
<1> QED
  BY <1>2, <1>3, <1>5, NewRows

-----------------------------------------------------------------------------
(***************************************************************************)
(* Every step, and a page's start with the pin of the one before it.        *)
(***************************************************************************)
LEMMA PinIsRestored ==
  ASSUME page \in Pages, NEW s, NEW v PROVE ChoiceInv(RestorePin(s, v))
<1>1. IsOfOneCluster(NothingChosen)
  BY NothingIsChosen DEF ChoiceInv
<1>2. \A n : ChoiceInv(ClickNode(NothingChosen, n))
  BY <1>1, NodeIsClicked
<1>3. \A a : ThisArc(a)[1] # "cluster"
  BY PlacesDiffer
<1>4. \A a : ChoiceInv(HandleEdge(NothingChosen, ClusterMode(v), a, ThisArc(a)))
  BY <1>1, <1>3, EdgeIsHandled
<1> DEFINE pinned == [k \in DOMAIN s.pin |-> WithKey(s.pin[k])]
           missing == {} \in Range(pinned) \/ s.pin = <<>>
           ofNode == {} \notin Range(pinned) /\ Len(s.pin) = 1
           arc == <<Max(pinned[1]), Max(pinned[2])>>
<1>5. RestorePin(s, v) = CASE missing -> NothingChosen
                           [] ofNode -> ClickNode(NothingChosen, Max(pinned[1]))
                           [] OTHER -> HandleEdge(NothingChosen, ClusterMode(v), arc, ThisArc(arc))
  BY DEF RestorePin
<1> HIDE DEF pinned, missing, ofNode, arc
<1> QED
  BY <1>2, <1>4, <1>5, NothingIsChosen

\* Another page has other clusters; nothing is chosen on it yet.
LEMMA ChoiceOnAnyPage == ASSUME chosen' = NothingChosen PROVE ChoiceInv(chosen)'
<1>1. ChoiceInv(NothingChosen)'
  BY PlacesDiffer
  DEF ChoiceInv, IsOfOneCluster, IsChoice, PinIsOfCluster, RowsAreOfCluster, SidebarIsOfCluster,
      NothingChosen
<1> QED
  BY <1>1 DEF ChoiceInv, IsOfOneCluster, IsChoice, PinIsOfCluster, RowsAreOfCluster, SidebarIsOfCluster

LEMMA ChoiceOnThisPage ==
  ASSUME page' = page, ChoiceInv(chosen') PROVE ChoiceInv(chosen)'
BY DEF ChoiceInv, IsOfOneCluster, IsChoice, PinIsOfCluster, RowsAreOfCluster, SidebarIsOfCluster,
       RowsOfCluster, SccOf, Arcs

LEMMA ClickKeeps ==
  ASSUME ViewInv, Click PROVE page' = page /\ ChoiceInv(chosen')
<1> USE DEF Stays
<1>1. IsOfOneCluster(chosen) /\ page \in Pages /\ ChoiceInv(chosen)
  BY DEF ViewInv, ChoiceInv
<1>2. ASSUME NEW n, ClickCollapse(n) PROVE page' = page /\ ChoiceInv(chosen')
  BY <1>1, <1>2, SidebarIsRefreshed DEF ClickCollapse
<1>3. CASE ClickCollapseAll
  BY <1>1, <1>3, SidebarIsRefreshed DEF ClickCollapseAll
<1>4. ASSUME NEW b, ClickBox(b) PROVE page' = page /\ ChoiceInv(chosen')
  BY <1>1, <1>4 DEF ClickBox
<1>5. ASSUME NEW n, ClickOnNode(n) PROVE page' = page /\ ChoiceInv(chosen')
  BY <1>1, <1>5, NodeIsClicked DEF ClickOnNode
<1>6. ASSUME NEW a, ClickOnArc(a) PROVE page' = page /\ ChoiceInv(chosen')
  <2>1. ThisArc(a)[1] # "cluster"
    BY PlacesDiffer
  <2> QED
    BY <1>1, <1>6, <2>1, EdgeIsHandled DEF ClickOnArc
<1>7. ASSUME NEW e, ClickOnSummary(e) PROVE page' = page /\ ChoiceInv(chosen')
  <2>1. Summary(e)[1] # "cluster"
    BY PlacesDiffer
  <2> QED
    BY <1>1, <1>7, <2>1, EdgeIsHandled DEF ClickOnSummary
<1>8. CASE ClickBackground
  BY <1>1, <1>8, BackgroundIsClicked DEF ClickBackground
<1>9. CASE ClickRow
  BY <1>9, RowIsClicked DEF ClickRow
<1> QED
  BY <1>2, <1>3, <1>4, <1>5, <1>6, <1>7, <1>8, <1>9 DEF Click

LEMMA ViewInvStep == ViewInv /\ [Next]_vars => ViewInv'
<1> SUFFICES ASSUME ViewInv, [Next]_vars PROVE ViewInv'
  OBVIOUS
<1>1. page \in Pages /\ ChoiceInv(chosen)
  BY DEF ViewInv
<1>2. CASE Start
  <2>1. page' = page
    BY <1>2 DEF Start
  <2>2. CASE chosen' = NothingChosen
    BY <1>1, <2>1, <2>2, ChoiceOnAnyPage DEF ViewInv
  <2>3. ASSUME NEW s, chosen' = RestorePin(s, view') PROVE ViewInv'
    BY <1>1, <2>1, <2>3, PinIsRestored, ChoiceOnThisPage DEF ViewInv
  <2> QED
    BY <1>2, <2>2, <2>3 DEF Start
<1>3. CASE Click
  BY <1>1, <1>3, ClickKeeps, ChoiceOnThisPage DEF ViewInv
<1>4. ASSUME NEW n, Focus(n) PROVE ViewInv'
  <2>1. PICK rows \in SUBSET RowsInSight : chosen' = FocusNode(chosen, n, rows)
    BY <1>4 DEF Focus
  <2>2. page' = page
    BY <1>4 DEF Focus, Stays
  <2> QED
    BY <1>1, <2>1, <2>2, NodeIsFocused, ChoiceOnThisPage DEF ViewInv
<1>5. ASSUME NEW q \in Pages, Reload(q) PROVE ViewInv'
  BY <1>5, ChoiceOnAnyPage DEF ViewInv, Reload
<1>6. CASE UNCHANGED vars
  BY <1>1, <1>6, ChoiceOnThisPage DEF ViewInv, vars
<1> QED
  BY <1>2, <1>3, <1>4, <1>5, <1>6 DEF Next

LEMMA ViewInvHolds == Spec => []ViewInv
<1>1. Init => ViewInv
  BY NothingIsChosen DEF Init, ViewInv
<1> QED
  BY <1>1, ViewInvStep, PTL DEF Spec

(***************************************************************************)
(* Whatever the reader clicks, the editor focuses and a reload brings back, *)
(* the pinned arc, the open rows and the sidebar's table are of the one     *)
(* cluster that is selected, on any pages.                                  *)
(***************************************************************************)
THEOREM OneClusterAtATimeHolds == Spec => []OneClusterAtATime
<1>1. ViewInv => OneClusterAtATime
  BY DEF ViewInv, ChoiceInv, IsOfOneCluster, PinIsOfCluster, RowsAreOfCluster, SidebarIsOfCluster,
         OneClusterAtATime
<1> QED
  BY <1>1, ViewInvHolds, PTL

=============================================================================
