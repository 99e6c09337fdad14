-------------------------------- MODULE Resolver --------------------------------
(***************************************************************************)
(* pkg/resolver: the module graph, by `go mod graph` or by what go.mod and *)
(* go.sum say, and which modules the main module's build and tests use, by *)
(* one `go list` for every target, cgo setting and with or without tests.  *)
(*                                                                         *)
(* project is what is on the disk: imports between packages, each under a  *)
(* condition ("any", "test", "cgo", "tag" for a custom build tag, a GOOS   *)
(* or a GOARCH), the lines of `go mod graph`, and go.mod.  The go command  *)
(* is not modelled: a run of it sees what the imports say, unless a        *)
(* package's module cannot be found, the command fails, or its output ends *)
(* early.  Per-package errors of a known module are left out.              *)
(***************************************************************************)
EXTENDS Integers, FiniteSets, FiniteSetsExt, Sequences

CONSTANTS Root,             \* the main module, and its one package
          Modules,          \* the paths of all other modules
          Packages,         \* their packages
          ModuleOf,         \* [Packages -> Modules]
          ListGOOS, ListGOARCH,   \* sequences, as in the code
          MaxParallelLists,
          Projects,         \* the projects that may be resolved
          MaxFaults         \* the runs that may fail while the context lives

ASSUME ModuleOfAssumption == ModuleOf \in [Packages -> Modules]
ASSUME MaxParallelAssumption == MaxParallelLists \in Nat \ {0}
ASSUME ListsAssumption == ListGOOS \in Seq(STRING) /\ ListGOARCH \in Seq(STRING)
ASSUME NamesAssumption == /\ IsFiniteSet(Modules) /\ IsFiniteSet(Packages)
                          /\ Root \notin Modules \union Packages

VARIABLES project,
          pc,               \* "start", "list", "done"
          graph,            \* Dependencies, Source and whether Resolve warned
          begun,            \* how many runs listPlatforms has started
          running,
          results,          \* listResult of the runs that ended
          cancelled,        \* the context has ended
          faults
resolverVars == <<project, pc, graph, begun, running, results, cancelled, faults>>

-----------------------------------------------------------------------------
(* What the go command would say.                                          *)

\* What is reached from some nodes along edges in at most k steps, for k from 0 to n.
Stages(edges, from, n) ==
  LET Within[k \in 0..n] ==
        IF k = 0 THEN from
        ELSE LET near == Within[k - 1]
             IN  near \union {e[2] : e \in {e \in edges : e[1] \in near}}
  IN  Within
ReachFrom(nodes, edges, from) == Stages(edges, from, Cardinality(nodes))[Cardinality(nodes)]

\* A project that go mod tidy is run on, and its dependencies': the main module requires what it
\* imports, under any tag, and a module what its packages import, of those the main module
\* reaches.  From go 1.17 on go.mod lists the modules of all of them (graph.go 483-491).
Tidy(p) ==
  LET pairs == {<<i[1], i[2]>> : i \in p.imports}
      reached == ReachFrom(Packages, pairs, {Root})
      module(k) == IF k = Root THEN Root ELSE ModuleOf[k]
      required(m, n) == m = n \/ [from |-> m, to |-> n] \in p.lines
  IN  /\ p.imports \subseteq (Packages \union {Root}) \X Packages \X STRING
      /\ p.direct \union p.listed \union p.gosum \subseteq Modules
      /\ \A e \in pairs : e[1] \in reached => required(module(e[1]), ModuleOf[e[2]])
      /\ \A e \in pairs : e[1] = Root => ModuleOf[e[2]] \in p.direct
      /\ p.pruned => \A k \in reached \ {Root} : ModuleOf[k] \in p.listed
ASSUME ProjectsAssumption == \A p \in Projects : Tidy(p)

Holds(cond, r) ==
  \/ cond \in {"any", r.goos, r.goarch}
  \/ cond = "test" /\ r.test
  \/ cond = "cgo" /\ r.cgo

\* The packages a run lists when the module of the packages in missing cannot be found.
Listed(p, r, missing) ==
  ReachFrom(Packages, {<<i[1], i[2]>> : i \in {i \in p.imports : /\ Holds(i[3], r)
                                                                 /\ i[1] \notin missing}},
            IF p.empty THEN {} ELSE {Root})
ModulesOf(pkgs) == {IF k = Root THEN Root ELSE ModuleOf[k] : k \in pkgs}

-----------------------------------------------------------------------------
(* The module graph.                                                       *)

\* A line of `go mod graph`; the go and toolchain lines are no modules.
Edges(p) == {l \in p.lines : /\ l.from \in Modules \union {Root}
                             /\ l.to \in Modules \union {Root}}

\* Distance from the main module, less one; a module that is not reached gets 1.
Depth(p, m) ==
  LET near == Stages({<<l.from, l.to>> : l \in Edges(p)}, {Root}, Cardinality(Modules) + 1)
      at == {n \in 0..Cardinality(Modules) + 1 : m \in near[n]}
  IN  IF at = {} THEN 1 ELSE Min(at) - 1

Dependency(direct, depth, usedBy) ==
  [direct |-> direct, depth |-> depth, usedBy |-> usedBy,
   testOnly |-> "unknown", inBuild |-> "unknown", platforms |-> {}]

FromGoModGraph(p) ==
  [m \in {l.to : l \in Edges(p)} \ {Root} |->
     Dependency(m \in p.direct, Depth(p, m),
                {l.from : l \in {l \in Edges(p) : l.to = m}})]

\* go.mod's requirements, used by the main module.
FromGoMod(p, ms) ==
  [m \in ms |-> Dependency(m \in p.direct, IF m \in p.direct THEN 0 ELSE 1, {Root})]

\* The modules that only go.sum knows have a placeholder for a requirer.
FromGoSumPlaceholder == "(from go.sum)"
AddFromGoSum(p, deps) ==
  [m \in DOMAIN deps \union p.gosum |->
     IF m \in DOMAIN deps THEN deps[m] ELSE Dependency(FALSE, 1, {FromGoSumPlaceholder})]

-----------------------------------------------------------------------------
(* The runs, in the order in which they are started, and their outcomes.   *)

Runs ==
  [i \in 1..4 * Len(ListGOOS) * Len(ListGOARCH) |->
     LET target == (i - 1) \div 4
     IN  [goos |-> ListGOOS[(target \div Len(ListGOARCH)) + 1],
          goarch |-> ListGOARCH[(target % Len(ListGOARCH)) + 1],
          cgo |-> (i - 1) % 4 >= 2, test |-> (i - 1) % 2 = 1]]
Targets == {<<Runs[i].goos, Runs[i].goarch>> : i \in DOMAIN Runs}
AllGOOS == {ListGOOS[i] : i \in DOMAIN ListGOOS}
Result(mods, unresolved, err) == [mods |-> mods, unresolved |-> unresolved, err |-> err]

\* How a run can end that nothing kept from listing every package.
Complete(p, r) == Result(ModulesOf(Listed(p, r, {})), {}, FALSE)
\* Packages whose module is not found are listed without one, their imports are not listed.
Unresolved(p, r) ==
  {Result(ModulesOf(Listed(p, r, {k}) \ {k}), {k}, FALSE) : k \in Listed(p, r, {}) \ {Root}}
\* The command failed, or its output could not be read to its end.
Failed == Result({}, {}, TRUE)
CutOff(p, r) ==
  LET all == ModulesOf(Listed(p, r, {})) IN {Result(all \ {m}, {}, TRUE) : m \in all}

-----------------------------------------------------------------------------
(* classifyTestOnlyDeps: the verdicts, from the results of all runs.       *)

Clean(target) ==
  \A i \in DOMAIN Runs : <<Runs[i].goos, Runs[i].goarch>> = target =>
                           ~results[i].err /\ results[i].unresolved = {}
Partial == \E t \in Targets : ~Clean(t)
Unavailable == (\A t \in Targets : ~Clean(t)) \/ (\A i \in DOMAIN Runs : results[i].mods = {})

\* The systems on which m is in a production list, and whether it is in a test list.
ProdOn(m) == {Runs[i].goos : i \in {i \in DOMAIN Runs : ~Runs[i].test /\ m \in results[i].mods}}
InTest(m) == \E i \in DOMAIN Runs : Runs[i].test /\ m \in results[i].mods
Found(m) == ProdOn(m) # {} \/ InTest(m)

\* The modules below a direct requirement that no list found: a tag may hide it and them.
\* The main module is never entered; a go.mod from 1.17 on lists whatever tagged code needs.
BelowUnknown(deps) ==
  LET seeds == {m \in DOMAIN deps : deps[m].direct /\ ~Found(m)}
      uses == {e \in (DOMAIN deps) \X (DOMAIN deps) : e[1] \in deps[e[2]].usedBy}
      below == ReachFrom(DOMAIN deps, uses, seeds)
  IN  IF Partial THEN {}
      ELSE IF project.pruned THEN below \intersect project.listed ELSE below

\* Mutant: the verdict is test-only although a target could not be listed.
VerdictRash(deps, m) ==
  IF ProdOn(m) = {} /\ InTest(m)
  THEN [deps[m] EXCEPT !.testOnly = "yes", !.inBuild = "yes"]
  ELSE [deps[m] EXCEPT !.testOnly = IF ProdOn(m) # {} THEN "no" ELSE @]
Verdict(deps, m) ==
  LET d == deps[m]
      prodOn == ProdOn(m)
  IN  CASE prodOn # {} ->
             [d EXCEPT !.testOnly = "no", !.inBuild = "yes",
                       !.platforms = IF ~Partial /\ prodOn # AllGOOS THEN prodOn ELSE {}]
        [] prodOn = {} /\ InTest(m) ->
             [d EXCEPT !.testOnly = IF Partial THEN @ ELSE "yes", !.inBuild = "yes"]
        [] OTHER ->
             IF Partial \/ d.direct \/ m \in BelowUnknown(deps)
             THEN d ELSE [d EXCEPT !.inBuild = "no"]

-----------------------------------------------------------------------------
NoGraph == [deps |-> [m \in {} |-> {}], source |-> "", warned |-> {}]

ResolverInit ==
  /\ project \in Projects
  /\ pc = "start"
  /\ graph = NoGraph
  /\ begun = 0
  /\ running = {}
  /\ results = <<>>
  /\ cancelled = FALSE
  /\ faults = 0

\* --direct-only: the direct requirements, and no classification.
ResolveDirectOnly ==
  /\ pc = "start"
  /\ graph' = [graph EXCEPT !.deps = FromGoMod(project, project.direct),
                            !.source = "direct_only"]
  /\ pc' = "done"
  /\ UNCHANGED <<project, begun, running, results, cancelled, faults>>

ResolveWithGoModGraph ==
  /\ pc = "start"
  /\ ~cancelled
  /\ graph' = [graph EXCEPT !.deps = FromGoModGraph(project), !.source = "go_mod_graph"]
  /\ pc' = "list"
  /\ UNCHANGED <<project, begun, running, results, cancelled, faults>>

\* `go mod graph` did not run: go.mod, and go.sum if it can be read.
FallBack ==
  /\ pc = "start"
  /\ \E sum \in BOOLEAN :
       LET deps == FromGoMod(project, project.listed)
       IN  graph' = [deps |-> IF sum THEN AddFromGoSum(project, deps) ELSE deps,
                     source |-> "go_mod_requires",
                     warned |-> {"no go mod graph"} \union (IF sum THEN {} ELSE {"no go.sum"})]
  /\ pc' = "list"
  /\ UNCHANGED <<project, begun, running, results, cancelled, faults>>

\* The loop of listPlatforms starts the next run when it has a slot.
StartRun ==
  /\ pc = "list"
  /\ begun < Len(Runs)
  /\ Cardinality(running) < MaxParallelLists
  /\ begun' = begun + 1
  /\ running' = running \union {begun + 1}
  /\ UNCHANGED <<project, pc, graph, results, cancelled, faults>>

Ended(i, res) ==
  [j \in DOMAIN results \union {i} |-> IF j = i THEN res ELSE results[j]]

\* A run ends: whole, or (a bounded number of times) not, or killed with its context.
FinishRun(i) ==
  /\ i \in running
  /\ \/ /\ ~cancelled
        /\ results' = Ended(i, Complete(project, Runs[i]))
        /\ UNCHANGED faults
     \/ /\ cancelled
        /\ results' = Ended(i, Failed)
        /\ UNCHANGED faults
     \/ /\ faults < MaxFaults
        /\ \E res \in Unresolved(project, Runs[i]) \union CutOff(project, Runs[i]) :
             results' = Ended(i, res)
        /\ faults' = faults + 1
  /\ running' = running \ {i}
  /\ UNCHANGED <<project, pc, graph, begun, cancelled>>

\* wg.Wait returned: the verdicts, or none when nothing clean or nothing at all was listed.
Classify ==
  /\ pc = "list"
  /\ begun = Len(Runs)
  /\ running = {}
  /\ graph' =
       IF Unavailable
       THEN [graph EXCEPT !.warned = @ \union {"unavailable"}]
       ELSE [graph EXCEPT !.deps = [m \in DOMAIN @ |-> Verdict(@, m)],
                          !.warned = IF Partial THEN @ \union {"partial"} ELSE @]
  /\ results' = <<>>
  /\ pc' = "done"
  /\ UNCHANGED <<project, begun, running, cancelled, faults>>

ContextEnds ==
  /\ pc \in {"start", "list"}
  /\ ~cancelled
  /\ cancelled' = TRUE
  /\ UNCHANGED <<project, pc, graph, begun, running, results, faults>>

ResolverNext ==
  \/ ResolveDirectOnly
  \/ ResolveWithGoModGraph
  \/ FallBack
  \/ StartRun
  \/ \E i \in DOMAIN Runs : FinishRun(i)
  \/ Classify
  \/ ContextEnds

-----------------------------------------------------------------------------
(* What the verdicts mean, in the project itself.                          *)

AllRuns == {Runs[i] : i \in DOMAIN Runs}
Compiled(p, test) == UNION {ModulesOf(Listed(p, r, {})) : r \in {r \in AllRuns : r.test = test}}
TrulyOn(p, m) ==
  {r.goos : r \in {r \in AllRuns : ~r.test /\ m \in ModulesOf(Listed(p, r, {}))}}

\* The modules that some set of tags compiles, through a direct requirement no run lists.
TaggedThroughUnlisted(p) ==
  LET all == Compiled(p, TRUE) \union Compiled(p, FALSE)
      first == {i[2] : i \in {i \in p.imports : i[1] = Root /\ ModuleOf[i[2]] \notin all}}
  IN  ModulesOf(ReachFrom(Packages, {<<i[1], i[2]>> : i \in p.imports}, first))

\* A module is called test-only, outside the build, or built on some systems only, when that is
\* so, also with code behind a tag whose direct requirement no list finds (graph.go 476-493),
\* whatever failed.  Except: a graph made from go.mod alone does not know what is below such a
\* requirement.
ClassificationIsSound ==
  pc = "done" =>
    LET prod == Compiled(project, FALSE)
        built == prod \union Compiled(project, TRUE)
        tagged == TaggedThroughUnlisted(project)
    IN  \A m \in DOMAIN graph.deps :
          LET d == graph.deps[m]
          IN  /\ d.testOnly = "yes" => m \in built \ prod
              /\ d.testOnly = "no" => m \in prod
              /\ d.inBuild = "yes" => m \in built
              /\ d.inBuild = "no" => m \notin built
              /\ (d.inBuild = "no" /\ graph.source = "go_mod_graph") => m \notin tagged
              /\ d.platforms # {} => d.platforms = TrulyOn(project, m)
=============================================================================
