------------------------------ MODULE Reexports ------------------------------
(***************************************************************************)
(* Where a name was defined that a module republishes or lends its          *)
(* descendants (src/src/analyze/reexports.rs, resolve_reexport in           *)
(* use_parser/mod.rs).                                                      *)
(***************************************************************************)
EXTENDS PathResolution

VARIABLE reexports   \* of each module, its crate's name first: what it exports

\* associated: the items that each type or trait carries; explicit and private:
\* the target that each name stands for; globs and privateGlobs: paths of
\* modules, whose crate is not kept; elsewhere: names from outside of the
\* workspace.
ExportInfo ==
  {"definitions", "associated", "explicit", "private", "globs", "privateGlobs", "elsewhere"}

Republishes(vis) == vis \in {"pub", "crate", "super"}

-----------------------------------------------------------------------------
\* Of several places of a name the last one counts.
LastPlaces(names) == [n \in Range(names) |-> Max({i \in DOMAIN names : names[i] = n})]

\* What the leaves at `places` stand for, by the names that they bind.
NamedTargets(f, places, found) ==
  LET named == {i \in places : \E t \in found[i] : t.item \notin {"*", NoItem}}
      last == LastPlaces([i \in named |-> f.uses[i].as])
  IN  [n \in DOMAIN last |-> CHOOSE t \in found[last[n]] : TRUE]

\* The modules that the globs at `places` take names from, in order.
GlobSources(places, found) ==
  LET globs == SetToSortSeq({i \in places : \E t \in found[i] : t.item = "*"}, <)
  IN  [k \in DOMAIN globs |-> Tail((CHOOSE t \in found[globs[k]] : TRUE).to)]

\* What the items of a file export; those of its inline modules do not.
ModuleExportInfo(f, found) ==
  LET shown == {i \in DOMAIN found : Republishes(f.uses[i].vis)}
      hidden == {i \in DOMAIN found : f.uses[i].vis = "private"}
      defined == {i \in DOMAIN f.defs : Republishes(f.defs[i].vis)}
      last == LastPlaces([i \in defined |-> f.defs[i].name])
  IN  [definitions |-> [n \in DOMAIN last |-> f.defs[last[n]]], associated |-> [n \in {} |-> 0],
       explicit |-> NamedTargets(f, shown, found), private |-> NamedTargets(f, hidden, found),
       globs |-> GlobSources(shown, found), privateGlobs |-> GlobSources(hidden, found),
       elsewhere |-> {f.uses[i].as : i \in {j \in hidden : found[j] = {}}} \ {"*"}]

NothingTold == ModuleExportInfo([uses |-> <<>>, defs |-> <<>>], <<>>)

-----------------------------------------------------------------------------
\* A block of items, and the module and name of their type.
BlockFor(module, name, b) ==
  [module |-> module, name |-> name, variants |-> b.variants, fns |-> b.fns, consts |-> b.consts]
AddUp(blocks) ==
  [variants |-> UNION {b.variants : b \in blocks}, fns |-> UNION {b.fns : b \in blocks},
   consts |-> UNION {b.consts : b \in blocks}]

\* Mutant: the last block of a type counts alone.
WithBlocksOfLast(info, blocks) ==
  [info EXCEPT !.associated =
     [n \in {b.name : b \in blocks} |-> AddUp({CHOOSE b \in blocks : b.name = n})] @@ @]

\* The blocks of one type add up.
WithBlocks(info, blocks) ==
  LET known == info.associated
      names == DOMAIN known \cup {b.name : b \in blocks}
  IN  [info EXCEPT !.associated =
         [n \in names |-> AddUp({known[m] : m \in {n} \cap DOMAIN known}
                                 \cup {b \in blocks : b.name = n})]]

\* Where the type of an impl block is defined: here, at what a `use` binds the
\* bare name to, or where the path leads to in this crate.
ImplOwner(ctx, info, path) ==
  LET here == <<ctx.crate>> \o ctx.module
      bound(names) == {names[n] : n \in {path[1]} \cap DOMAIN names}
  IN  IF Len(path) > 1
      THEN {t \in ResolvePath(ctx, path, 0) : t.to[1] = ctx.crate /\ t.item # NoItem}
      ELSE FirstOf(<<{Target(here, n) : n \in {path[1]} \cap DOMAIN info.definitions},
                     bound(info.private), bound(info.explicit)>>)

\* The blocks of a file, by the module of their type, whose crate is not kept.
BlocksOf(ctx, f, info) ==
  UNION {{BlockFor(Tail(t.to), t.item, b) :
            t \in IF b.is = "impl" THEN ImplOwner(ctx, info, b.path)
                  ELSE {Target(<<ctx.crate>> \o ctx.module, b.path[1])}} : b \in Range(f.blocks)}

\* What an entry's file tells of its module, and the blocks for other modules.
\* No crate from outside of the workspace is known yet.
EntryTells(c, e) ==
  UNION {LET ctx == Context(c.name, e.path, {})
             leaves == {i \in DOMAIN f.uses : f.uses[i].region = 1}
             info == ModuleExportInfo(f, [i \in leaves |-> ResolvePath(ctx, f.uses[i].path, 0)])
             blocks == BlocksOf(ctx, f, info)
             own == {b \in blocks : b.module = e.path}
         IN  {[entry |-> e, info |-> WithBlocks(info, own), others |-> blocks \ own]} :
         f \in Parsed(e.file)}

\* Of several files of a module the last one counts.
LastTold(c, told) ==
  [to \in {<<c.name>> \o x.entry.path : x \in told} |->
     (CHOOSE x \in told :
        /\ x.entry.path = Tail(to)
        /\ ~\E y \in told : y.entry.path = Tail(to) /\ Precedes(x.entry.rank, y.entry.rank)).info]

\* Blocks for other modules come last; their modules need not tell anything.
CrateReexports(c) ==
  LET told == UNION {EntryTells(c, e) : e \in Walk(RootEntries(c), FALSE)}
      own == LastTold(c, {x \in told : x.info # NothingTold})
      others == UNION {x.others : x \in told}
      info(to) == IF to \in DOMAIN own THEN own[to] ELSE NothingTold
  IN  [to \in DOMAIN own \cup {<<c.name>> \o b.module : b \in others} |->
         WithBlocks(info(to), {b \in others : b.module = Tail(to)})]

CollectReexports ==
  /\ pc = "reexports"
  /\ pc' = "packages"
  /\ reexports' = FoldSet(LAMBDA c, all : CrateReexports(c) @@ all, [to \in {} |-> {}], Range(crates))
  /\ UNCHANGED <<project, crates, externals, modulePaths, crateExports>>

-----------------------------------------------------------------------------
IsDescendant(module, ancestor) == IsPrefix(ancestor, module)

Infos(crate) == {to \in DOMAIN reexports : to[1] = crate}
GlobHops(crate) == UNION {{Tail(to)} \X Range(reexports[to].globs) : to \in Infos(crate)}

\* The module has the name itself, or by way of globs it republishes.
ModuleExports(crate, module, name) ==
  \E m \in ReachedFrom({module}, GlobHops(crate)) :
    /\ <<crate>> \o m \in DOMAIN reexports
    /\ LET info == reexports[<<crate>> \o m]
       IN  name \in DOMAIN info.definitions \cup DOMAIN info.explicit

\* What a descendant can name through it: private globs of its ancestors too.
ScopeHolds(crate, module, name, importer) ==
  LET open == {to \in Infos(crate) : IsDescendant(importer, Tail(to))}
      hops == UNION {{Tail(to)} \X Range(reexports[to].privateGlobs) : to \in open}
  IN  \E m \in ReachedFrom({module}, hops) : ModuleExports(crate, m, name)

Lost == Target(<<>>, NoItem)

\* Mutant: what a module imports for itself is seen by all.
NextHopThroughPrivate(t, importer) ==
  IF t.to \notin DOMAIN reexports \/ t.item = NoItem THEN t
  ELSE LET info == reexports[t.to] IN
       IF t.item \in DOMAIN info.definitions THEN t
       ELSE IF t.item \in DOMAIN info.explicit THEN info.explicit[t.item]
       ELSE IF t.item \in DOMAIN info.private THEN info.private[t.item]
       ELSE t

\* One step towards the definition; what stays where it is has arrived.
NextHop(t, importer) ==
  IF t.to \notin DOMAIN reexports \/ t.item = NoItem THEN t
  ELSE LET info == reexports[t.to]
           below == IsDescendant(importer, Tail(t.to))
           through(globs) == Target(<<t.to[1]>> \o globs[1], t.item)
           exporting == SelectSeq(info.globs, LAMBDA g : ModuleExports(t.to[1], g, t.item))
           holding == SelectSeq(info.privateGlobs,
                                LAMBDA g : ScopeHolds(t.to[1], g, t.item, importer))
       IN  IF t.item \in DOMAIN info.definitions THEN t
           ELSE IF t.item \in DOMAIN info.explicit THEN info.explicit[t.item]
           ELSE IF below /\ t.item \in DOMAIN info.private THEN info.private[t.item]
           ELSE IF below /\ t.item \in info.elsewhere THEN Lost
           ELSE IF exporting # <<>> THEN through(exporting)
           ELSE IF below /\ holding # <<>> THEN through(holding)
           ELSE t

\* The module at which the hops end; none is entered twice. The item keeps
\* the name that was written.
ResolveReexport(t, importer) ==
  LET way[k \in Nat] ==
        IF k = 0 THEN <<t>>
        ELSE LET gone == way[k - 1]
                 here == Last(gone)
                 next == NextHop(here, importer)
             IN  IF next = here \/ \E i \in 1 .. (Len(gone) - 1) : gone[i].to = here.to
                 THEN gone ELSE Append(gone, next)
      end == Last(way[Cardinality(DOMAIN reexports) + 1])
  IN  IF end = Lost THEN {} ELSE {[t EXCEPT !.to = end.to]}

=============================================================================
