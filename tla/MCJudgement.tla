------------------------------ MODULE MCJudgement ------------------------------
(***************************************************************************)
(* A behaviour is one of a graph and what is found out about it, or one of *)
(* the parser of a govulncheck stream; they have no state in common.       *)
(*                                                                         *)
(* Six modules: a is imported by the main module; t by its tests; w by a   *)
(* on windows; x under a custom build tag; y by x, and maybe by a with     *)
(* cgo; g is required by a and not imported.  The projects are the main    *)
(* module with some of those imports, before and after go 1.17.            *)
(***************************************************************************)
EXTENDS Judgement, GovulncheckStream

CONSTANT Parts

VARIABLE part

MCModules == {"a", "t", "w", "x", "y", "g"}
MCPackages == MCModules
MCModuleOf == [k \in MCPackages |-> k]
MCListGOOS == <<"linux", "windows">>
MCListGOARCH == <<"amd64">>

Always == {<<"main", "a", "any">>, <<"x", "y", "any">>}
Sometimes == {<<"main", "t", "test">>, <<"a", "w", "windows">>, <<"main", "x", "tag">>,
              <<"a", "y", "cgo">>}
Line(x, y) == [from |-> x, to |-> y]
Requires == {Line("a", "w"), Line("a", "y"), Line("a", "g"), Line("t", "w"), Line("x", "y"),
             Line("g", "main"), Line("a", "go")}

\* A tidy go.mod: the direct imports, and from go 1.17 on all that any tag compiles.
MCProject(imports, pruned) ==
  LET pairs == {<<i[1], i[2]>> : i \in imports}
      direct == {e[2] : e \in {e \in pairs : e[1] = "main"}}
      listed == IF pruned THEN ReachFrom(MCPackages, pairs, {"main"}) \ {"main"} ELSE direct
      reached == ReachFrom(MCModules, {<<l.from, l.to>> : l \in Requires}, direct \union {"main"})
      lines == {Line("main", m) : m \in listed} \union {l \in Requires : l.from \in reached}
  IN  [imports |-> imports, empty |-> FALSE, pruned |-> pruned, direct |-> direct,
       listed |-> listed, lines |-> lines, gosum |-> reached \ {"main", "go"}]
NoPackages == [MCProject({}, TRUE) EXCEPT !.empty = TRUE, !.direct = {"a"}, !.listed = {"a"},
                                          !.lines = {Line("main", "a")}, !.gosum = {"a"}]
\* Up to two of the conditions, or all; before go 1.17 only a tag makes a difference.
SomeImports == {is \in SUBSET Sometimes : Cardinality(is) <= 2} \union {Sometimes}
MCProjects ==
  {NoPackages} \union
  {MCProject(Always \union is, TRUE) : is \in SomeImports} \union
  {MCProject(Always \union is, FALSE) : is \in {s \in SomeImports : <<"main", "x", "tag">> \in s}}
\* The project with all of them.
MCFollowed == {MCProject(Always \union Sometimes, TRUE)}

MCFinding(sev, reach, cve) ==
  [sev |-> sev, reach |-> reach, kev |-> FALSE, epss |-> 0, noSev |-> sev = "UNKNOWN",
   fixAge |-> IF sev = "HIGH" THEN 400 ELSE P!None, age |-> 400, cve |-> cve]
MCFindings ==
  {MCFinding("CRITICAL", "required", "CVE-1"), MCFinding("HIGH", "imported", "CVE-2"),
   MCFinding("MEDIUM", "called", "CVE-3"), MCFinding("UNKNOWN", "called", "CVE-4"),
   MCFinding("LOW", "imported", "CVE-5")}

-----------------------------------------------------------------------------
(* Two advisories, one of which affects the standard library and a module, *)
(* and one finding of an advisory that the stream does not hold.           *)
Fr(module, package, function, line) ==
  [module |-> module, package |-> package, function |-> function, line |-> line]
InStream(osv, fixed, trace) == [osv |-> osv, fixed |-> fixed, trace |-> trace]

(* Packages: 1 the project, 2 and 3 the dependency's, 4 net/http, 5 fmt.    *)
Main(line) == Fr("app", 1, 1, line)
Serve == Fr("stdlib", 4, 1, 40)
Printf == Fr("stdlib", 5, 1, 50)
A(line) == Fr("dep", 2, 1, line)
B(line) == Fr("dep", 2, 2, line)
Sink(function) == Fr("dep", 3, function, 9)

MCRoots == {1}
MCFormatters == {<<5, 1>>}
MCAdvisories ==
  [one |-> <<[module |-> "stdlib", fixed |-> 7], [module |-> "dep", fixed |-> 5]>>,
   two |-> <<[module |-> "dep", fixed |-> 6]>>]
MCStreamFindings ==
  { InStream("one", 5, <<Fr("dep", 0, 0, 0)>>),
    InStream("one", 5, <<Fr("dep", 3, 0, 0)>>),
    InStream("one", 5, <<Sink(1), A(3), Main(1)>>),
    InStream("one", 5, <<Sink(1), B(4), Main(1)>>),
    InStream("one", 5, <<Sink(1), B(3), Main(1)>>),
    InStream("one", 5, <<Sink(2), A(2), B(8), Main(2), Serve, Main(4)>>),
    InStream("one", 5, <<Sink(3), Printf, Main(1)>>),
    InStream("one", 0, <<Fr("stdlib", 0, 0, 0)>>),
    InStream("one", 0, <<Fr("stdlib", 4, 0, 0)>>),
    InStream("two", 0, <<Sink(2), Printf, A(1), Main(3)>>),
    InStream("none", 5, <<Sink(1), Main(1)>>) }

\* The instance is one of those that OrderIsForgotten is proved of.
ASSUME DeterminedAssumption == Determined

-----------------------------------------------------------------------------
JudgementInit ==
  /\ part \in Parts
  /\ Init /\ StreamInit
  /\ IF part = "graph" THEN stream = {} ELSE project = NoPackages

JudgementNext ==
  /\ UNCHANGED part
  /\ \/ part = "graph" /\ Next /\ UNCHANGED streamVars
     \/ part = "stream" /\ StreamNext /\ UNCHANGED vars

JudgementSpec == JudgementInit /\ [][JudgementNext]_<<vars, streamVars, part>>
=============================================================================
