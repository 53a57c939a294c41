------------------------------ MODULE MCArcView ------------------------------
(***************************************************************************)
(* Small diagrams of one workspace, before and after a save: a module with  *)
(* a child on a cycle, closed to its crates and not, and one with packages. *)
(***************************************************************************)
EXTENDS ArcView

Item(kind, parent, nesting, scc) ==
  [kind |-> kind, parent |-> parent, nesting |-> nesting, scc |-> scc, targets |-> <<>>]
Arc(from, to) ==
  [from |-> from, to |-> to, kind |-> "production", reexport |-> FALSE, cycle |-> "None",
   ids |-> {}, scc |-> 0, sources |-> <<>>]
OnCycleOf(arc) == [arc EXCEPT !.cycle = "Direct", !.ids = {1}, !.scc = 1]
Layout(items, arcs) ==
  [items |-> items, arcs |-> arcs, clusters |-> {}, localities |-> {}, definitions |-> [x \in {} |-> 0]]

Named(names, d, level) == RenderPage(d, [ServedWith({}) EXCEPT !.level = level]) @@ [names |-> names]

\* A module that passes names of its child on, and a sibling that the child
\* and it depend on and that depends on the child.
Before ==
  Named(<<"crate", "a", "x", "b">>,
        Layout(<<Item("Crate", 0, 0, 0), Item("Module", 1, 1, 0), Item("Module", 2, 2, 1), Item("Module", 1, 1, 1)>>,
               <<[Arc(2, 3) EXCEPT !.reexport = TRUE], Arc(2, 4), OnCycleOf(Arc(3, 4)), OnCycleOf(Arc(4, 3))>>),
        Unlimited)

\* The same modules in another order, without the cycle, closed at first.
Reordered ==
  Named(<<"crate", "b", "a", "x">>,
        Layout(<<Item("Crate", 0, 0, 0), Item("Module", 1, 1, 0), Item("Module", 1, 1, 0), Item("Module", 3, 2, 0)>>,
               <<Arc(3, 2), Arc(4, 2)>>), 1)

WithPackages ==
  Named(<<"crate", "a", "x", "external", "direct", "transitive">>,
        Layout(<<Item("Crate", 0, 0, 0), Item("Module", 1, 1, 0), Item("Module", 2, 2, 0),
                 Item("ExternalSection", 0, 0, 0), Item("ExternalCrate", 4, 0, 0), Item("ExternalTransitive", 4, 0, 0)>>,
               <<Arc(3, 5), Arc(5, 6)>>), Unlimited)

TwoTangles ==
  Named(<<"crate", "a", "b", "x", "y">>,
        Layout(<<Item("Crate", 0, 0, 0), Item("Module", 1, 1, 1), Item("Module", 1, 1, 1), Item("Module", 1, 1, 2),
                 Item("Module", 1, 1, 2)>>,
               <<OnCycleOf(Arc(2, 3)), OnCycleOf(Arc(3, 2)),
                 [OnCycleOf(Arc(4, 5)) EXCEPT !.scc = 2, !.ids = {2}], [OnCycleOf(Arc(5, 4)) EXCEPT !.scc = 2, !.ids = {2}]>>),
        Unlimited)

SamplePages == {Before, Reordered, WithPackages, TwoTangles}

=============================================================================
