---------------------------- MODULE JudgementProofs ----------------------------
(***************************************************************************)
(* Theorems about the verdicts of pkg/resolver and what is made of them,   *)
(* for any project with a tidy go.mod, any targets, any listings that fail *)
(* and any findings: the verdicts are true, no finding is suppressed       *)
(* without a reason, no missing verdict makes a module look better, and    *)
(* what is found out later never makes it look better either.              *)
(*                                                                         *)
(* What is reached in a graph is computed by a recursive function, so the  *)
(* first part reasons by induction: a set of naturals that holds 0 and,    *)
(* with a number, the next one, holds all of them.  The second part        *)
(* follows the discounts that a verdict gives from a finding's tier to the *)
(* scores, the time bombs and the policies; the third does the same with   *)
(* news.  The mean of the graph is a quotient of two sums, so it starts    *)
(* with how sums and quotients compare.                                    *)
(***************************************************************************)
EXTENDS Judgement, FiniteSetTheorems, WellFoundedInduction, TLAPS

-----------------------------------------------------------------------------
(* Induction, and what is reached in a graph.                              *)

Lower == {pair \in Nat \X Nat : pair[1] < pair[2]}

LEMMA LowerIsWellFounded == IsWellFoundedOn(Lower, Nat)
BY NatLessThanWellFounded DEF OpToRel, Lower

LEMMA Least ==
  ASSUME NEW T \in SUBSET Nat, T # {}
  PROVE  \E x \in T : \A y \in T : x <= y
<1>1. PICK x \in T : \A y \in T : <<y, x>> \notin Lower
  BY LowerIsWellFounded, WFMin
<1>2. \A y \in T : y \in Nat /\ x \in Nat
  OBVIOUS
<1>3. \A y \in T : ~(y < x)
  BY <1>1, <1>2 DEF Lower
<1> QED
  BY <1>2, <1>3

LEMMA Induction ==
  ASSUME NEW T \in SUBSET Nat, 0 \in T, \A n \in T : n + 1 \in T
  PROVE  T = Nat
<1> SUFFICES ASSUME T # Nat PROVE FALSE
  OBVIOUS
<1>1. PICK n \in Nat \ T : \A y \in Nat \ T : n <= y
  BY Least
<1>2. n # 0 /\ n - 1 \in Nat
  BY <1>1
<1>3. n - 1 \in T
  BY <1>1, <1>2
<1>4. n - 1 + 1 = n
  BY <1>1
<1> QED
  BY <1>1, <1>3, <1>4

(* What is reached from a set in one step.                                 *)
Onward(edges, near) == near \union {e[2] : e \in {e \in edges : e[1] \in near}}

IsChain(f, n, edges, from) ==
  f = [k \in 0..n |-> IF k = 0 THEN from ELSE Onward(edges, f[k - 1])]

LEMMA ChainsExist ==
  ASSUME NEW edges, NEW from
  PROVE  \A n \in Nat : \E f : IsChain(f, n, edges, from)
<1> DEFINE T == {n \in Nat : \E f : IsChain(f, n, edges, from)}
<1>1. 0 \in T
  <2> DEFINE f == [k \in 0..0 |-> from]
  <2>1. IsChain(f, 0, edges, from)
    BY DEF IsChain
  <2> QED
    BY <2>1
<1>2. ASSUME NEW n \in T PROVE n + 1 \in T
  <2>1. PICK f : IsChain(f, n, edges, from)
    OBVIOUS
  <2> DEFINE g == [k \in 0..(n + 1) |-> IF k = n + 1 THEN Onward(edges, f[n]) ELSE f[k]]
  <2>2. \A k \in 0..(n + 1) : g[k] = IF k = 0 THEN from ELSE Onward(edges, g[k - 1])
    <3> SUFFICES ASSUME NEW k \in 0..(n + 1)
                 PROVE  g[k] = IF k = 0 THEN from ELSE Onward(edges, g[k - 1])
      OBVIOUS
    <3>0. n \in Nat
      OBVIOUS
    <3>1. CASE k = n + 1
      <4>1. g[k] = Onward(edges, f[n]) /\ k # 0 /\ k - 1 = n /\ n \in 0..(n + 1) /\ n # n + 1
        BY <3>0, <3>1
      <4>2. g[n] = f[n]
        BY <4>1
      <4> QED
        BY <4>1, <4>2
    <3>2. CASE k # n + 1 /\ k # 0
      <4>1. k \in 0..n /\ k - 1 \in 0..n /\ k - 1 \in 0..(n + 1) /\ k - 1 # n + 1
        BY <3>0, <3>2
      <4>2. g[k] = f[k] /\ g[k - 1] = f[k - 1]
        BY <3>2, <4>1
      <4>3. f[k] = Onward(edges, f[k - 1])
        BY <2>1, <3>2, <4>1 DEF IsChain
      <4> QED
        BY <3>2, <4>2, <4>3
    <3>3. CASE k = 0
      <4>1. f[0] = from /\ k # n + 1
        BY <2>1, <3>0, <3>3 DEF IsChain
      <4> QED
        BY <3>3, <4>1
    <3> QED
      BY <3>1, <3>2, <3>3
  <2>3. g = [k \in 0..(n + 1) |-> g[k]]
    OBVIOUS
  <2> HIDE DEF g
  <2>4. IsChain(g, n + 1, edges, from)
    BY <2>2, <2>3 DEF IsChain
  <2> QED
    BY <2>4
<1>3. T = Nat
  <2> HIDE DEF T
  <2>1. T \in SUBSET Nat
    BY DEF T
  <2> QED
    BY <1>1, <1>2, <2>1, Induction
<1> QED
  BY <1>3

LEMMA StagesAreAChain ==
  ASSUME NEW n \in Nat, NEW edges, NEW from
  PROVE  IsChain(Stages(edges, from, n), n, edges, from)
<1> DEFINE Within == CHOOSE Within :
             Within = [k \in 0..n |-> IF k = 0 THEN from
                        ELSE Within[k - 1] \union {e[2] : e \in {e \in edges : e[1] \in Within[k - 1]}}]
<1>1. Stages(edges, from, n) = Within
  BY DEF Stages
<1>2. PICK f : IsChain(f, n, edges, from)
  BY ChainsExist
<1>3. f = [k \in 0..n |-> IF k = 0 THEN from
             ELSE f[k - 1] \union {e[2] : e \in {e \in edges : e[1] \in f[k - 1]}}]
  BY <1>2 DEF IsChain, Onward
<1>4. Within = [k \in 0..n |-> IF k = 0 THEN from
                  ELSE Within[k - 1] \union {e[2] : e \in {e \in edges : e[1] \in Within[k - 1]}}]
  BY <1>3
<1>5. IsChain(Within, n, edges, from)
  BY <1>4 DEF IsChain, Onward
<1> HIDE DEF Within
<1> QED
  BY <1>1, <1>5

LEMMA ReachIsAChain ==
  ASSUME NEW nodes, NEW edges, NEW from, Cardinality(nodes) \in Nat
  PROVE  \E f : /\ IsChain(f, Cardinality(nodes), edges, from)
                /\ ReachFrom(nodes, edges, from) = f[Cardinality(nodes)]
<1> DEFINE n == Cardinality(nodes)
<1>1. ReachFrom(nodes, edges, from) = Stages(edges, from, n)[n]
  BY DEF ReachFrom
<1>2. IsChain(Stages(edges, from, n), n, edges, from)
  BY StagesAreAChain
<1> QED
  BY <1>1, <1>2

(* Whatever holds the start and is closed under the edges holds all that   *)
(* is reached.                                                             *)
LEMMA ReachWithin ==
  ASSUME NEW nodes, NEW edges, NEW from, Cardinality(nodes) \in Nat,
         NEW T, from \subseteq T, \A e \in edges : e[1] \in T => e[2] \in T
  PROVE  ReachFrom(nodes, edges, from) \subseteq T
<1>1. PICK f : /\ IsChain(f, Cardinality(nodes), edges, from)
               /\ ReachFrom(nodes, edges, from) = f[Cardinality(nodes)]
  BY ReachIsAChain
<1>2. PICK n \in Nat : n = Cardinality(nodes)
  OBVIOUS
<1> DEFINE I == {k \in Nat : k <= n => f[k] \subseteq T}
<1>3. 0 \in I
  BY <1>1, <1>2 DEF IsChain
<1>4. ASSUME NEW k \in I PROVE k + 1 \in I
  <2> SUFFICES ASSUME k + 1 <= n PROVE f[k + 1] \subseteq T
    OBVIOUS
  <2>1. k \in Nat /\ f[k] \subseteq T
    OBVIOUS
  <2>2. k + 1 \in 0..n /\ k + 1 # 0 /\ k + 1 - 1 = k
    BY <1>2, <2>1
  <2>3. f[k + 1] = Onward(edges, f[k])
    BY <1>1, <1>2, <2>2 DEF IsChain
  <2> QED
    BY <2>1, <2>3 DEF Onward
<1>5. I = Nat
  <2> HIDE DEF I
  <2>1. I \in SUBSET Nat
    BY DEF I
  <2> QED
    BY <1>3, <1>4, <2>1, Induction
<1> QED
  BY <1>1, <1>2, <1>5

(* What is reached holds the start, and is closed under the edges when all *)
(* it may hold is no more than one more than the nodes.                    *)
LEMMA ReachIsClosed ==
  ASSUME NEW nodes, NEW edges, NEW from, Cardinality(nodes) \in Nat,
         NEW U, IsFiniteSet(U), Cardinality(U) <= Cardinality(nodes) + 1,
         from \subseteq U, \A e \in edges : e[1] \in U => e[2] \in U
  PROVE  /\ from \subseteq ReachFrom(nodes, edges, from)
         /\ ReachFrom(nodes, edges, from) \subseteq U
         /\ \A e \in edges : e[1] \in ReachFrom(nodes, edges, from)
                               => e[2] \in ReachFrom(nodes, edges, from)
<1>1. PICK f : /\ IsChain(f, Cardinality(nodes), edges, from)
               /\ ReachFrom(nodes, edges, from) = f[Cardinality(nodes)]
  BY ReachIsAChain
<1>2. PICK n \in Nat : n = Cardinality(nodes)
  OBVIOUS
<1> DEFINE Closed(S) == \A e \in edges : e[1] \in S => e[2] \in S
           Good(k) == /\ from \subseteq f[k] /\ f[k] \subseteq U
                      /\ Closed(f[k]) \/ Cardinality(f[k]) >= k + 1
           I == {k \in Nat : k <= n => Good(k)}
<1>3. 0 \in I
  <2>1. f[0] = from
    BY <1>1, <1>2 DEF IsChain
  <2>2. CASE from = {}
    <3>1. Closed(f[0])
      BY <2>1, <2>2
    <3> HIDE DEF Closed
    <3> QED
      BY <2>1, <3>1
  <2>3. CASE from # {}
    <3>1. IsFiniteSet(from) /\ Cardinality(from) \in Nat
      BY FS_Subset, FS_CardinalityType
    <3>2. Cardinality(from) # 0
      BY <2>3, <3>1, FS_EmptySet
    <3>3. Cardinality(from) >= 0 + 1
      BY <3>1, <3>2
    <3> HIDE DEF Closed
    <3> QED
      BY <2>1, <3>3
  <2> QED
    BY <2>2, <2>3
<1>4. ASSUME NEW k \in I PROVE k + 1 \in I
  <2> SUFFICES ASSUME k + 1 <= n PROVE Good(k + 1)
    OBVIOUS
  <2>1. k \in Nat /\ Good(k)
    BY <1>2
  <2>2. k + 1 \in 0..n /\ k + 1 # 0 /\ k + 1 - 1 = k
    BY <1>2, <2>1
  <2>3. f[k + 1] = Onward(edges, f[k])
    BY <1>1, <1>2, <2>2 DEF IsChain
  <2>4. from \subseteq f[k + 1] /\ f[k + 1] \subseteq U
    BY <2>1, <2>3 DEF Onward
  <2>5. CASE Closed(f[k])
    <3>1. f[k + 1] = f[k]
      BY <2>3, <2>5 DEF Onward
    <3>2. Closed(f[k + 1])
      BY <2>5, <3>1
    <3> HIDE DEF Closed
    <3> QED
      BY <2>4, <3>2
  <2>6. CASE ~Closed(f[k])
    <3>1. PICK e \in edges : e[1] \in f[k] /\ e[2] \notin f[k]
      BY <2>6
    <3>2. f[k] \union {e[2]} \subseteq f[k + 1]
      BY <2>3, <3>1 DEF Onward
    <3>3. IsFiniteSet(f[k]) /\ IsFiniteSet(f[k + 1])
      BY <2>1, <2>4, FS_Subset
    <3>4. Cardinality(f[k]) \in Nat /\ Cardinality(f[k + 1]) \in Nat
      BY <3>3, FS_CardinalityType
    <3>5. Cardinality(f[k] \union {e[2]}) = Cardinality(f[k]) + 1
      BY <3>1, <3>3, FS_AddElement
    <3>6. Cardinality(f[k] \union {e[2]}) <= Cardinality(f[k + 1])
      BY <3>2, <3>3, FS_Subset
    <3>7. Cardinality(f[k]) >= k + 1
      BY <2>1, <2>6
    <3>8. Cardinality(f[k + 1]) >= (k + 1) + 1
      BY <2>1, <3>4, <3>5, <3>6, <3>7
    <3> HIDE DEF Closed
    <3> QED
      BY <2>4, <3>8
  <2> QED
    BY <2>5, <2>6
<1>5. I = Nat
  <2> HIDE DEF I
  <2>1. I \in SUBSET Nat
    BY DEF I
  <2> QED
    BY <1>3, <1>4, <2>1, Induction
<1>6. Good(n)
  BY <1>5
<1>7. Closed(f[n])
  <2> SUFFICES ASSUME ~Closed(f[n]) PROVE Closed(f[n])
    OBVIOUS
  <2>1. Cardinality(f[n]) >= n + 1 /\ f[n] \subseteq U
    BY <1>6
  <2>2. IsFiniteSet(f[n]) /\ Cardinality(f[n]) \in Nat /\ Cardinality(U) \in Nat
        /\ Cardinality(f[n]) <= Cardinality(U)
    BY <2>1, FS_Subset, FS_CardinalityType
  <2>3. Cardinality(f[n]) = Cardinality(U)
    BY <1>2, <2>1, <2>2
  <2>4. f[n] = U
    BY <2>1, <2>3, FS_Subset
  <2> QED
    BY <2>4
<1> QED
  BY <1>1, <1>2, <1>6, <1>7

-----------------------------------------------------------------------------
(* What the runs of go list say.                                           *)

(* The edges of a project's imports, and where they lead.                  *)
Pairs(p) == {<<i[1], i[2]>> : i \in p.imports}
ImportsOf(p, r, missing) ==
  {<<i[1], i[2]>> : i \in {i \in p.imports : Holds(i[3], r) /\ i[1] \notin missing}}
Start(p) == IF p.empty THEN {} ELSE {Root}
Everything == Packages \union {Root}

(* The packages and the main module's are one more than the packages.      *)
LEMMA EverythingIsFinite ==
  /\ IsFiniteSet(Everything) /\ Cardinality(Packages) \in Nat
  /\ Cardinality(Everything) <= Cardinality(Packages) + 1
<1>1. IsFiniteSet(Packages) /\ Root \notin Packages
  BY NamesAssumption
<1>2. Cardinality(Everything) = Cardinality(Packages) + 1 /\ IsFiniteSet(Everything)
  BY <1>1, FS_AddElement DEF Everything
<1> QED
  BY <1>1, <1>2, FS_CardinalityType

(* An import leads to a package.                                           *)
LEMMA ImportsLeadToPackages ==
  ASSUME NEW p \in Projects
  PROVE  \A e \in Pairs(p) : e[1] \in Everything /\ e[2] \in Packages
<1>1. p.imports \subseteq (Packages \union {Root}) \X Packages \X STRING
  BY ProjectsAssumption DEF Tidy
<1> QED
  BY <1>1 DEF Pairs, Everything

(* What a complete run lists is closed under the imports it sees.          *)
LEMMA ListedIsClosed ==
  ASSUME NEW p \in Projects, NEW r, NEW missing
  PROVE  /\ Start(p) \subseteq Listed(p, r, missing)
         /\ Listed(p, r, missing) \subseteq Everything
         /\ \A e \in ImportsOf(p, r, missing) :
              e[1] \in Listed(p, r, missing) => e[2] \in Listed(p, r, missing)
<1> DEFINE edges == ImportsOf(p, r, missing)
<1>1. \A e \in edges : e[2] \in Everything
  <2>1. edges \subseteq Pairs(p)
    BY DEF ImportsOf, Pairs
  <2> QED
    BY <2>1, ImportsLeadToPackages DEF Everything
<1>2. Start(p) \subseteq Everything
  BY DEF Start, Everything
<1>3. Listed(p, r, missing) = ReachFrom(Packages, edges, Start(p))
  BY DEF Listed, ImportsOf, Start
<1> HIDE DEF edges
<1>4. /\ Start(p) \subseteq ReachFrom(Packages, edges, Start(p))
      /\ ReachFrom(Packages, edges, Start(p)) \subseteq Everything
      /\ \A e \in edges : e[1] \in ReachFrom(Packages, edges, Start(p))
                           => e[2] \in ReachFrom(Packages, edges, Start(p))
  BY <1>1, <1>2, EverythingIsFinite, ReachIsClosed
<1> QED
  BY <1>3, <1>4 DEF edges

(* A run that misses packages lists no more than a complete one.           *)
LEMMA MissingListsLess ==
  ASSUME NEW p \in Projects, NEW r, NEW missing
  PROVE  Listed(p, r, missing) \subseteq Listed(p, r, {})
<1> DEFINE edges == ImportsOf(p, r, missing)
<1>1. edges \subseteq ImportsOf(p, r, {})
  BY DEF ImportsOf
<1>2. Listed(p, r, missing) = ReachFrom(Packages, edges, Start(p))
  BY DEF Listed, ImportsOf, Start
<1>3. /\ Start(p) \subseteq Listed(p, r, {})
      /\ \A e \in edges : e[1] \in Listed(p, r, {}) => e[2] \in Listed(p, r, {})
  BY <1>1, ListedIsClosed
<1> HIDE DEF edges
<1>4. ReachFrom(Packages, edges, Start(p)) \subseteq Listed(p, r, {})
  BY <1>3, EverythingIsFinite, ReachWithin
<1> QED
  BY <1>2, <1>4

(* How a run may have ended: with no more than there is, and with all of   *)
(* it when nothing was reported.                                           *)
Whole(p, r) == ModulesOf(Listed(p, r, {}))
Reported(res) == res.err \/ res.unresolved # {}
Truthful(p, r, res) ==
  res.mods \subseteq Whole(p, r) /\ (~Reported(res) => res.mods = Whole(p, r))

LEMMA EveryEndIsTruthful ==
  ASSUME NEW p \in Projects, NEW r,
         NEW res \in {Complete(p, r), Failed} \union Unresolved(p, r) \union CutOff(p, r)
  PROVE  Truthful(p, r, res)
<1>1. CASE res = Complete(p, r) \/ res = Failed \/ res \in CutOff(p, r)
  BY <1>1 DEF Truthful, Reported, Complete, Failed, CutOff, Result, Whole
<1>2. CASE res \in Unresolved(p, r)
  <2>1. PICK k : res = Result(ModulesOf(Listed(p, r, {k}) \ {k}), {k}, FALSE)
    BY <1>2 DEF Unresolved
  <2>2. ModulesOf(Listed(p, r, {k}) \ {k}) \subseteq Whole(p, r)
    BY MissingListsLess DEF ModulesOf, Whole
  <2> QED
    BY <2>1, <2>2 DEF Truthful, Reported, Result
<1> QED
  BY <1>1, <1>2

-----------------------------------------------------------------------------
(* The modules that only some tag compiles.                                *)

Reached(p) == ReachFrom(Packages, Pairs(p), {Root})

(* What the main module reaches, under any tag.                            *)
LEMMA ReachedIsClosed ==
  ASSUME NEW p \in Projects
  PROVE  /\ Root \in Reached(p) /\ Reached(p) \subseteq Everything
         /\ \A e \in Pairs(p) : e[1] \in Reached(p) => e[2] \in Reached(p)
<1>1. /\ {Root} \subseteq Everything
      /\ \A e \in Pairs(p) : e[1] \in Everything => e[2] \in Everything
  BY ImportsLeadToPackages DEF Everything
<1>2. /\ {Root} \subseteq ReachFrom(Packages, Pairs(p), {Root})
      /\ ReachFrom(Packages, Pairs(p), {Root}) \subseteq Everything
      /\ \A e \in Pairs(p) : e[1] \in ReachFrom(Packages, Pairs(p), {Root})
                             => e[2] \in ReachFrom(Packages, Pairs(p), {Root})
  BY <1>1, EverythingIsFinite, ReachIsClosed
<1> QED
  BY <1>2 DEF Reached

Required(p, m, n) == m = n \/ [from |-> m, to |-> n] \in p.lines

(* A tidy go.mod, in the names of this module.                             *)
LEMMA TidyProject ==
  ASSUME NEW p \in Projects
  PROVE  /\ \A e \in Pairs(p) : e[1] = Root =>
              Required(p, Root, ModuleOf[e[2]]) /\ ModuleOf[e[2]] \in p.direct
         /\ \A e \in Pairs(p) : e[1] \in Reached(p) \ {Root} =>
              Required(p, ModuleOf[e[1]], ModuleOf[e[2]])
         /\ p.pruned => \A k \in Reached(p) \ {Root} : ModuleOf[k] \in p.listed
<1>1. Tidy(p)
  BY ProjectsAssumption
<1>2. Root \in Reached(p)
  BY ReachedIsClosed
<1> QED
  BY <1>1, <1>2 DEF Tidy, Pairs, Reached, Required

(* The graph has an edge for every requirement of a module.                *)
Uses(deps) == {e \in (DOMAIN deps) \X (DOMAIN deps) : e[1] \in deps[e[2]].usedBy}
LEMMA GraphHasTheEdges ==
  ASSUME NEW p \in Projects
  PROVE  LET deps == FromGoModGraph(p)
         IN  /\ DOMAIN deps \subseteq Modules
             /\ \A m \in DOMAIN deps : deps[m].direct = (m \in p.direct)
             /\ \A m \in Modules \union {Root}, n \in Modules :
                  [from |-> m, to |-> n] \in p.lines =>
                    /\ n \in DOMAIN deps
                    /\ m \in deps[n].usedBy
<1> DEFINE deps == FromGoModGraph(p)
           to == {l.to : l \in Edges(p)} \ {Root}
<1>1. DOMAIN deps = to /\ \A m \in to :
        /\ deps[m].direct = (m \in p.direct)
        /\ deps[m].usedBy = {l.from : l \in {l \in Edges(p) : l.to = m}}
  BY DEF FromGoModGraph, Dependency
<1>2. to \subseteq Modules
  BY DEF Edges
<1>3. ASSUME NEW m \in Modules \union {Root}, NEW n \in Modules,
             [from |-> m, to |-> n] \in p.lines
      PROVE  n \in to /\ m \in deps[n].usedBy
  <2>1. [from |-> m, to |-> n] \in Edges(p)
    BY <1>3 DEF Edges
  <2>2. n # Root
    BY NamesAssumption
  <2>3. n \in to
    BY <2>1, <2>2
  <2>4. m \in {l.from : l \in {l \in Edges(p) : l.to = n}}
    BY <2>1
  <2> HIDE DEF to, deps
  <2> QED
    BY <1>1, <2>3, <2>4
<1> HIDE DEF to, deps
<1>4. /\ DOMAIN deps \subseteq Modules
      /\ \A m \in DOMAIN deps : deps[m].direct = (m \in p.direct)
      /\ \A m \in Modules \union {Root}, n \in Modules :
           [from |-> m, to |-> n] \in p.lines => n \in DOMAIN deps /\ m \in deps[n].usedBy
  BY <1>1, <1>2, <1>3
<1> QED
  BY <1>4 DEF deps

(* A module that a tag compiles through a direct requirement that is in no *)
(* list is at or below such a requirement in the graph, and go.mod lists it *)
(* from go 1.17 on.                                                        *)
LEMMA TaggedIsBelow ==
  ASSUME NEW p \in Projects, NEW all, NEW first, NEW seeds,
         first = {i[2] : i \in {i \in p.imports : i[1] = Root /\ ModuleOf[i[2]] \notin all}},
         seeds = {m \in DOMAIN FromGoModGraph(p) :
                    FromGoModGraph(p)[m].direct /\ m \notin all}
  PROVE  \A m \in ModulesOf(ReachFrom(Packages, Pairs(p), first)) :
           /\ m \in ReachFrom(DOMAIN FromGoModGraph(p), Uses(FromGoModGraph(p)), seeds)
           /\ p.pruned => m \in p.listed
<1> DEFINE deps == FromGoModGraph(p)
           below == ReachFrom(DOMAIN deps, Uses(deps), seeds)
           T == {k \in Packages : k \in Reached(p) /\ ModuleOf[k] \in below}
<1>1. /\ DOMAIN deps \subseteq Modules
      /\ \A m \in DOMAIN deps : deps[m].direct = (m \in p.direct)
      /\ \A m \in Modules \union {Root}, n \in Modules :
           [from |-> m, to |-> n] \in p.lines => n \in DOMAIN deps /\ m \in deps[n].usedBy
  BY GraphHasTheEdges
<1> HIDE DEF deps
<1>2. /\ seeds \subseteq below /\ below \subseteq DOMAIN deps
      /\ \A e \in Uses(deps) : e[1] \in below => e[2] \in below
  <2>1. IsFiniteSet(DOMAIN deps)
    BY <1>1, NamesAssumption, FS_Subset
  <2>2. Cardinality(DOMAIN deps) \in Nat
    BY <2>1, FS_CardinalityType
  <2>3. Cardinality(DOMAIN deps) <= Cardinality(DOMAIN deps) + 1
    BY <2>2
  <2>4. seeds \subseteq DOMAIN deps /\ \A e \in Uses(deps) : e[2] \in DOMAIN deps
    BY DEF Uses, deps
  <2> HIDE DEF below
  <2>5. /\ seeds \subseteq ReachFrom(DOMAIN deps, Uses(deps), seeds)
        /\ ReachFrom(DOMAIN deps, Uses(deps), seeds) \subseteq DOMAIN deps
        /\ \A e \in Uses(deps) : e[1] \in ReachFrom(DOMAIN deps, Uses(deps), seeds)
                                => e[2] \in ReachFrom(DOMAIN deps, Uses(deps), seeds)
    BY <2>1, <2>2, <2>3, <2>4, ReachIsClosed
  <2> QED
    BY <2>5 DEF below
<1> HIDE DEF below
<1>3. \A k \in Packages : ModuleOf[k] \in Modules /\ k # Root
  BY ModuleOfAssumption, NamesAssumption
<1>4. first \subseteq T
  <2> SUFFICES ASSUME NEW i \in p.imports, i[1] = Root, ModuleOf[i[2]] \notin all
               PROVE  i[2] \in T
    BY DEF T
  <2> DEFINE e == <<i[1], i[2]>>
  <2>1. e \in Pairs(p) /\ e[1] = Root /\ e[2] = i[2]
    BY DEF Pairs
  <2> HIDE DEF e
  <2>2. e[2] \in Packages /\ e[2] \in Reached(p)
    BY <2>1, ImportsLeadToPackages, ReachedIsClosed
  <2> DEFINE n == ModuleOf[e[2]]
  <2>3. n \in Modules /\ n # Root
    BY <1>3, <2>2, NamesAssumption
  <2>4. Required(p, Root, n) /\ n \in p.direct
    BY <2>1, TidyProject
  <2>5. [from |-> Root, to |-> n] \in p.lines
    BY <2>3, <2>4 DEF Required
  <2>6. n \in DOMAIN deps /\ deps[n].direct
    BY <1>1, <2>3, <2>4, <2>5
  <2>7. n \in seeds
    BY <2>1, <2>6 DEF deps
  <2> QED
    BY <1>2, <2>1, <2>2, <2>7
<1>5. \A e \in Pairs(p) : e[1] \in T => e[2] \in T
  <2> SUFFICES ASSUME NEW e \in Pairs(p), e[1] \in T PROVE e[2] \in T
    OBVIOUS
  <2>1. e[2] \in Packages /\ e[2] \in Reached(p)
    BY ImportsLeadToPackages, ReachedIsClosed
  <2> DEFINE m == ModuleOf[e[1]]
             n == ModuleOf[e[2]]
  <2>2. m \in Modules /\ n \in Modules /\ e[1] # Root /\ m \in below
    BY <1>3, <2>1
  <2>3. Required(p, m, n)
    BY <2>2, TidyProject
  <2>4. CASE [from |-> m, to |-> n] \in p.lines
    <3>1. n \in DOMAIN deps /\ m \in deps[n].usedBy
      BY <1>1, <2>2, <2>4
    <3>2. <<m, n>> \in Uses(deps)
      BY <1>2, <2>2, <3>1 DEF Uses
    <3>3. n \in below
      BY <1>2, <2>2, <3>2
    <3> QED
      BY <2>1, <3>3
  <2>5. CASE m = n
    BY <2>1, <2>2, <2>5
  <2> QED
    BY <2>3, <2>4, <2>5 DEF Required
<1> HIDE DEF T
<1>6. ReachFrom(Packages, Pairs(p), first) \subseteq T
  BY <1>4, <1>5, EverythingIsFinite, ReachWithin
<1>7. \A k \in T : /\ k # Root /\ ModuleOf[k] \in below
                   /\ p.pruned => ModuleOf[k] \in p.listed
  BY <1>3, TidyProject DEF T
<1>8. ASSUME NEW m \in ModulesOf(ReachFrom(Packages, Pairs(p), first))
      PROVE  m \in below /\ (p.pruned => m \in p.listed)
  <2> DEFINE R == ReachFrom(Packages, Pairs(p), first)
  <2>1. R \subseteq T /\ m \in ModulesOf(R)
    BY <1>6, <1>8
  <2> HIDE DEF R
  <2>2. PICK k \in R : m = IF k = Root THEN Root ELSE ModuleOf[k]
    BY <2>1 DEF ModulesOf
  <2>3. k \in T
    BY <2>1, <2>2
  <2> QED
    BY <1>7, <2>2, <2>3
<1> QED
  BY <1>8 DEF below, deps

-----------------------------------------------------------------------------
(* The verdicts.                                                           *)

(* All runs have ended, with results that are true of the project.         *)
AllTruthful == \A i \in DOMAIN Runs : Truthful(project, Runs[i], results[i])

LEMMA RunsAreTests == \A i \in DOMAIN Runs : Runs[i].test \in BOOLEAN
BY DEF Runs

(* What the lists hold is compiled, and all that is when nothing failed.   *)
LEMMA ListsTell ==
  ASSUME AllTruthful, NEW m
  PROVE  /\ ProdOn(m) \subseteq TrulyOn(project, m)
         /\ ProdOn(m) # {} => m \in Compiled(project, FALSE)
         /\ InTest(m) => m \in Compiled(project, TRUE)
         /\ ~Partial => /\ ProdOn(m) = TrulyOn(project, m)
                        /\ ProdOn(m) # {} <=> m \in Compiled(project, FALSE)
                        /\ InTest(m) <=> m \in Compiled(project, TRUE)
<1> DEFINE has(i) == m \in Whole(project, Runs[i])
           listed(i) == m \in results[i].mods
<1>1. TrulyOn(project, m) = {Runs[i].goos : i \in {i \in DOMAIN Runs : ~Runs[i].test /\ has(i)}}
  BY DEF TrulyOn, AllRuns, Whole
<1>2. \A t \in BOOLEAN :
        m \in Compiled(project, t) <=> \E i \in DOMAIN Runs : Runs[i].test = t /\ has(i)
  BY DEF Compiled, AllRuns, Whole
<1>3. \A i \in DOMAIN Runs : listed(i) => has(i)
  BY DEF AllTruthful, Truthful
<1>4. ~Partial => \A i \in DOMAIN Runs : listed(i) <=> has(i)
  <2> SUFFICES ASSUME ~Partial, NEW i \in DOMAIN Runs PROVE listed(i) <=> has(i)
    OBVIOUS
  <2>1. <<Runs[i].goos, Runs[i].goarch>> \in Targets
    BY DEF Targets
  <2>2. Clean(<<Runs[i].goos, Runs[i].goarch>>)
    BY <2>1 DEF Partial
  <2>3. ~Reported(results[i])
    BY <2>2 DEF Clean, Reported
  <2> QED
    BY <2>3 DEF AllTruthful, Truthful
<1>5. /\ ProdOn(m) = {Runs[i].goos : i \in {i \in DOMAIN Runs : ~Runs[i].test /\ listed(i)}}
      /\ InTest(m) <=> \E i \in DOMAIN Runs : Runs[i].test /\ listed(i)
  BY DEF ProdOn, InTest
<1> HIDE DEF has, listed
<1>6. ProdOn(m) \subseteq TrulyOn(project, m)
  BY <1>1, <1>3, <1>5
<1>7. ProdOn(m) # {} => m \in Compiled(project, FALSE)
  BY <1>2, <1>3, <1>5, RunsAreTests
<1>8. InTest(m) => m \in Compiled(project, TRUE)
  BY <1>2, <1>3, <1>5, RunsAreTests
<1>9. ASSUME ~Partial
      PROVE  /\ ProdOn(m) = TrulyOn(project, m)
             /\ ProdOn(m) # {} <=> m \in Compiled(project, FALSE)
             /\ InTest(m) <=> m \in Compiled(project, TRUE)
  <2>1. ProdOn(m) = TrulyOn(project, m)
    BY <1>1, <1>4, <1>5, <1>9
  <2>2. ASSUME m \in Compiled(project, FALSE) PROVE ProdOn(m) # {}
    <3>1. PICK i \in DOMAIN Runs : Runs[i].test = FALSE /\ has(i)
      BY <1>2, <2>2
    <3>2. ~Runs[i].test /\ listed(i)
      BY <1>4, <1>9, <3>1
    <3>3. Runs[i].goos \in ProdOn(m)
      BY <1>5, <3>2
    <3> QED
      BY <3>3
  <2>3. m \in Compiled(project, TRUE) => InTest(m)
    BY <1>2, <1>4, <1>5, <1>9, RunsAreTests
  <2> QED
    BY <1>7, <1>8, <2>1, <2>2, <2>3
<1> QED
  BY <1>6, <1>7, <1>8, <1>9

IsDependency(d) ==
  \E direct, usedBy, testOnly, inBuild, platforms : \E depth \in Int :
    d = [direct |-> direct, depth |-> depth, usedBy |-> usedBy,
         testOnly |-> testOnly, inBuild |-> inBuild, platforms |-> platforms]

(* Nothing is said of a module before the lists are read.                  *)
Unclassified(d) ==
  IsDependency(d) /\ d.testOnly = "unknown" /\ d.inBuild = "unknown" /\ d.platforms = {}

(* What a verdict says is so.                                              *)
Sound(p, source, d, m) ==
  LET prod == Compiled(p, FALSE)
      built == prod \union Compiled(p, TRUE)
  IN  /\ d.testOnly = "yes" => m \in built \ prod
      /\ d.testOnly = "no" => m \in prod
      /\ d.inBuild = "yes" => m \in built
      /\ d.inBuild = "no" => m \notin built
      /\ (d.inBuild = "no" /\ source = "go_mod_graph") => m \notin TaggedThroughUnlisted(p)
      /\ d.platforms # {} => d.platforms = TrulyOn(p, m)

LEMMA SoundMeansSound ==
  ClassificationIsSound' <=>
    (pc' = "done" =>
       \A m \in DOMAIN graph'.deps : Sound(project', graph'.source, graph'.deps[m], m))
BY DEF ClassificationIsSound, Sound

(* A module that is not classified is not mistaken.                        *)
LEMMA UnclassifiedIsSound ==
  ASSUME NEW p, NEW source, NEW d, NEW m, Unclassified(d)
  PROVE  Sound(p, source, d, m)
BY DEF Unclassified, Sound

(* What a tag may compile is not called outside the build.                 *)
LEMMA TaggedIsLeftOpen ==
  ASSUME project \in Projects, AllTruthful, ~Partial,
         NEW m, m \in TaggedThroughUnlisted(project)
  PROVE  LET deps == FromGoModGraph(project)
         IN  m \in BelowUnknown(deps)
<1> DEFINE deps == FromGoModGraph(project)
           all == Compiled(project, TRUE) \union Compiled(project, FALSE)
           first == {i[2] : i \in {i \in project.imports :
                                     i[1] = Root /\ ModuleOf[i[2]] \notin all}}
           seeds == {n \in DOMAIN deps : deps[n].direct /\ n \notin all}
           below == ReachFrom(DOMAIN deps, Uses(deps), seeds)
<1>1. m \in ModulesOf(ReachFrom(Packages, Pairs(project), first))
  BY DEF TaggedThroughUnlisted, Pairs
<1>2. m \in below /\ (project.pruned => m \in project.listed)
  <2> HIDE DEF all
  <2> HIDE DEF first, seeds
  <2>1. first = {i[2] : i \in {i \in project.imports :
                                 i[1] = Root /\ ModuleOf[i[2]] \notin all}}
    BY DEF first
  <2>2. seeds = {n \in DOMAIN FromGoModGraph(project) :
                   FromGoModGraph(project)[n].direct /\ n \notin all}
    BY DEF seeds
  <2> QED
    BY <1>1, <2>1, <2>2, TaggedIsBelow
<1>3. seeds = {n \in DOMAIN deps : deps[n].direct /\ ~Found(n)}
  <2>1. \A n : n \in all <=> Found(n)
    BY ListsTell DEF Found
  <2> HIDE DEF all, deps
  <2> QED
    BY <2>1
<1>4. BelowUnknown(deps) = IF project.pruned THEN below \intersect project.listed ELSE below
  <2> HIDE DEF deps
  <2>1. BelowUnknown(deps) =
          LET reach == ReachFrom(DOMAIN deps, Uses(deps),
                                 {n \in DOMAIN deps : deps[n].direct /\ ~Found(n)})
          IN  IF project.pruned THEN reach \intersect project.listed ELSE reach
    BY DEF BelowUnknown, Uses
  <2> HIDE DEF seeds
  <2> QED
    BY <1>3, <2>1
<1> HIDE DEF below, deps
<1>5. m \in BelowUnknown(deps)
  BY <1>2, <1>4
<1> QED
  BY <1>5 DEF deps

(* A verdict is sound.                                                     *)
LEMMA VerdictIsSound ==
  ASSUME project \in Projects, AllTruthful, NEW deps, NEW m \in DOMAIN deps, NEW source,
         Unclassified(deps[m]), source = "go_mod_graph" => deps = FromGoModGraph(project)
  PROVE  Sound(project, source, Verdict(deps, m), m)
<1> SUFFICES ASSUME NEW d, d = deps[m], NEW v, v = Verdict(deps, m)
             PROVE  Sound(project, source, v, m)
  OBVIOUS
<1>5. Unclassified(d)
  OBVIOUS
<1>1. CASE ProdOn(m) # {}
  <2>1. /\ v.testOnly = "no" /\ v.inBuild = "yes"
        /\ v.platforms # {} => ~Partial /\ v.platforms = ProdOn(m)
    <3> DEFINE on == IF ~Partial /\ ProdOn(m) # AllGOOS THEN ProdOn(m) ELSE {}
    <3>1. v = [d EXCEPT !.testOnly = "no", !.inBuild = "yes", !.platforms = on]
      BY <1>1 DEF Verdict
    <3> HIDE DEF on
    <3>2. v.testOnly = "no" /\ v.inBuild = "yes" /\ v.platforms = on
      BY <1>5, <3>1 DEF Unclassified, IsDependency
    <3> QED
      BY <3>2 DEF on
  <2> QED
    BY <1>1, <2>1, ListsTell DEF Sound
<1>2. CASE ProdOn(m) = {} /\ InTest(m)
  <2>1. /\ v.testOnly = IF Partial THEN "unknown" ELSE "yes"
        /\ v.inBuild = "yes" /\ v.platforms = {}
    <3>1. v = [d EXCEPT !.testOnly = IF Partial THEN @ ELSE "yes", !.inBuild = "yes"]
      BY <1>2 DEF Verdict
    <3> QED
      BY <1>5, <3>1 DEF Unclassified, IsDependency
  <2> QED
    BY <1>2, <2>1, ListsTell DEF Sound
<1>3. CASE ProdOn(m) = {} /\ ~InTest(m) /\ (Partial \/ d.direct \/ m \in BelowUnknown(deps))
  <2>1. v = d
    BY <1>3 DEF Verdict
  <2> QED
    BY <1>5, <2>1, UnclassifiedIsSound
<1>4. CASE /\ ProdOn(m) = {} /\ ~InTest(m)
           /\ ~Partial /\ ~d.direct /\ m \notin BelowUnknown(deps)
  <2>1. v.testOnly = "unknown" /\ v.inBuild = "no" /\ v.platforms = {}
    <3>1. v = [d EXCEPT !.inBuild = "no"]
      BY <1>4 DEF Verdict
    <3> QED
      BY <1>5, <3>1 DEF Unclassified, IsDependency
  <2>2. m \notin Compiled(project, FALSE) \union Compiled(project, TRUE)
    BY <1>4, ListsTell
  <2>3. source = "go_mod_graph" => m \notin TaggedThroughUnlisted(project)
    BY <1>4, TaggedIsLeftOpen
  <2> QED
    BY <2>1, <2>2, <2>3 DEF Sound
<1> QED
  BY <1>1, <1>2, <1>3, <1>4

-----------------------------------------------------------------------------
(* The invariant: until the verdicts are given nothing is said of any      *)
(* module, and what the runs that ended said is true of the project.       *)

(* A graph that no verdict was given on.                                   *)
Unjudged ==
  /\ graph = [deps |-> graph.deps, source |-> graph.source, warned |-> graph.warned]
  /\ \A m \in DOMAIN graph.deps : Unclassified(graph.deps[m])
  /\ graph.source = "go_mod_graph" => graph.deps = FromGoModGraph(project)

(* The runs begun in order; all but the running ones have a result.        *)
Listing ==
  /\ begun \in Nat /\ begun <= Len(Runs)
  /\ running \subseteq 1..begun
  /\ DOMAIN results = (1..begun) \ running
  /\ \A i \in DOMAIN results : Truthful(project, Runs[i], results[i])

ResolverInv ==
  /\ project \in Projects
  /\ pc \in {"start", "list", "done"}
  /\ pc # "done" => Unjudged /\ Listing
  /\ ClassificationIsSound

(* The runs are a sequence.                                                *)
LEMMA RunsAreASequence == Len(Runs) \in Nat /\ DOMAIN Runs = 1..Len(Runs)
<1> DEFINE n == 4 * Len(ListGOOS) * Len(ListGOARCH)
<1>1. n \in Nat
  BY ListsAssumption
<1>2. DOMAIN Runs = 1..n /\ Runs = [i \in 1..n |-> Runs[i]]
  BY DEF Runs
<1> HIDE DEF n
<1>3. Runs \in Seq({Runs[i] : i \in 1..n})
  BY <1>1, <1>2
<1> QED
  BY <1>3

(* Before the verdicts there is nothing to be mistaken about.              *)
LEMMA NotDoneIsSound == pc # "done" => ClassificationIsSound
BY DEF ClassificationIsSound

LEMMA InitResolver == ResolverInit => ResolverInv
<1> SUFFICES ASSUME ResolverInit PROVE ResolverInv
  OBVIOUS
<1>1. pc = "start" /\ project \in Projects
  BY DEF ResolverInit
<1>2. Unjudged
  BY DEF ResolverInit, NoGraph, Unjudged
<1>3. Listing
  BY RunsAreASequence DEF ResolverInit, Listing
<1> QED
  BY <1>1, <1>2, <1>3, NotDoneIsSound DEF ResolverInv

(* A distance is a number.                                                 *)
LEMMA DepthIsANumber ==
  ASSUME NEW p, NEW m PROVE Depth(p, m) \in Int
<1> DEFINE n == Cardinality(Modules) + 1
           near == Stages({<<l.from, l.to>> : l \in Edges(p)}, {Root}, n)
           at == {k \in 0..n : m \in near[k]}
<1>1. n \in Nat
  BY NamesAssumption, FS_CardinalityType
<1>2. Depth(p, m) = IF at = {} THEN 1 ELSE Min(at) - 1
  BY DEF Depth
<1>3. at \in SUBSET Nat
  BY <1>1
<1> HIDE DEF at
<1>4. at # {} => Min(at) \in Nat
  <2> SUFFICES ASSUME at # {} PROVE Min(at) \in Nat
    OBVIOUS
  <2>1. \E x \in at : \A y \in at : x <= y
    BY <1>3, Least
  <2> QED
    BY <1>3, <2>1 DEF Min
<1> QED
  BY <1>2, <1>4

(* The lists of requirements say nothing of any module.                    *)
LEMMA NewGraphsAreUnclassified ==
  ASSUME NEW p, NEW ms
  PROVE  /\ \A m \in DOMAIN FromGoModGraph(p) : Unclassified(FromGoModGraph(p)[m])
         /\ \A m \in DOMAIN FromGoMod(p, ms) : Unclassified(FromGoMod(p, ms)[m])
         /\ \A m \in DOMAIN AddFromGoSum(p, FromGoMod(p, ms)) :
              Unclassified(AddFromGoSum(p, FromGoMod(p, ms))[m])
<1>1. \A d, u : \A n \in Int : Unclassified(Dependency(d, n, u))
  BY DEF Unclassified, IsDependency, Dependency
<1>2. \A m \in DOMAIN FromGoModGraph(p) : Unclassified(FromGoModGraph(p)[m])
  BY <1>1, DepthIsANumber DEF FromGoModGraph
<1>3. \A m \in DOMAIN FromGoMod(p, ms) : Unclassified(FromGoMod(p, ms)[m])
  BY <1>1 DEF FromGoMod
<1>4. \A m \in DOMAIN AddFromGoSum(p, FromGoMod(p, ms)) :
        Unclassified(AddFromGoSum(p, FromGoMod(p, ms))[m])
  <2> DEFINE deps == FromGoMod(p, ms)
  <2>1. \A m \in DOMAIN deps : Unclassified(deps[m])
    BY <1>3
  <2> HIDE DEF deps
  <2>2. Unclassified(Dependency(FALSE, 1, {FromGoSumPlaceholder}))
    <3>1. 1 \in Int
      OBVIOUS
    <3> QED
      BY <1>1, <3>1, Zenon
  <2>3. \A m \in DOMAIN AddFromGoSum(p, deps) : Unclassified(AddFromGoSum(p, deps)[m])
    BY <2>1, <2>2 DEF AddFromGoSum
  <2> QED
    BY <2>3 DEF deps
<1> QED
  BY <1>2, <1>3, <1>4

(* Truth about the project is not a matter of the state.                   *)
LEMMA ListingStays ==
  ASSUME Listing, UNCHANGED <<project, begun, running, results>>
  PROVE  Listing'
BY DEF Listing, Truthful, Whole, Reported

(* One operation, or none.                                                 *)
LEMMA ResolverStep ==
  ASSUME ResolverInv, [ResolverNext]_resolverVars
  PROVE  ResolverInv'
<1> USE DEF ResolverInv
<1>1. CASE ResolveDirectOnly
  <2>0. pc' = "done" /\ project' = project
        /\ graph'.deps = FromGoMod(project, project.direct)
    BY <1>1 DEF ResolveDirectOnly, Unjudged
  <2>1. pc' = "done" /\ project' = project
        /\ \A m \in DOMAIN graph'.deps : Unclassified(graph'.deps[m])
    BY <2>0, NewGraphsAreUnclassified
  <2>2. ClassificationIsSound'
    BY <2>1, UnclassifiedIsSound, SoundMeansSound
  <2> QED
    BY <2>1, <2>2
<1>2. CASE ResolveWithGoModGraph
  <2>1. pc' = "list" /\ project' = project /\ UNCHANGED <<begun, running, results>>
    BY <1>2 DEF ResolveWithGoModGraph
  <2>2. Unjudged'
    <3>2. graph' = [deps |-> FromGoModGraph(project), source |-> "go_mod_graph",
                    warned |-> graph.warned]
      BY <1>2 DEF ResolveWithGoModGraph, Unjudged
    <3>3. \A m \in DOMAIN graph'.deps : Unclassified(graph'.deps[m])
      BY <3>2, NewGraphsAreUnclassified
    <3> QED
      BY <2>1, <3>2, <3>3 DEF Unjudged
  <2> QED
    BY <1>2, <2>1, <2>2, ListingStays DEF ResolveWithGoModGraph, ClassificationIsSound
<1>3. CASE FallBack
  <2>1. pc' = "list" /\ project' = project /\ UNCHANGED <<begun, running, results>>
    BY <1>3 DEF FallBack
  <2>2. Unjudged'
    <3> DEFINE deps == FromGoMod(project, project.listed)
    <3>1. PICK sum \in BOOLEAN :
            graph' = [deps |-> IF sum THEN AddFromGoSum(project, deps) ELSE deps,
                      source |-> "go_mod_requires",
                      warned |-> {"no go mod graph"} \union (IF sum THEN {} ELSE {"no go.sum"})]
      BY <1>3 DEF FallBack
    <3>2. \A m \in DOMAIN graph'.deps : Unclassified(graph'.deps[m])
      BY <3>1, NewGraphsAreUnclassified
    <3> QED
      BY <3>1, <3>2 DEF Unjudged
  <2> QED
    BY <1>3, <2>1, <2>2, ListingStays DEF FallBack, ClassificationIsSound
<1>4. CASE StartRun
  <2>1. pc = "list" /\ pc' = "list" /\ UNCHANGED <<project, graph, results>>
        /\ begun' = begun + 1 /\ begun < Len(Runs) /\ running' = running \union {begun + 1}
    BY <1>4 DEF StartRun
  <2>2. Listing'
    BY <2>1, RunsAreASequence DEF Listing, Truthful, Whole, Reported
  <2>3. Unjudged'
    BY <2>1 DEF Unjudged
  <2> QED
    BY <2>1, <2>2, <2>3 DEF ClassificationIsSound
<1>5. ASSUME NEW i \in DOMAIN Runs, FinishRun(i) PROVE ResolverInv'
  <2>1. i \in running /\ running' = running \ {i} /\ UNCHANGED <<project, pc, graph, begun>>
    BY <1>5 DEF FinishRun
  <2>2. PICK res \in {Complete(project, Runs[i]), Failed}
                    \union Unresolved(project, Runs[i]) \union CutOff(project, Runs[i]) :
          results' = Ended(i, res)
    BY <1>5 DEF FinishRun
  <2>3. Truthful(project, Runs[i], res)
    BY EveryEndIsTruthful
  <2>4. CASE pc # "done"
    <3>1. Listing
      BY <2>4
    <3>2. /\ DOMAIN results' = DOMAIN results \union {i} /\ results'[i] = res
          /\ \A j \in DOMAIN results : j # i => results'[j] = results[j]
      BY <2>2 DEF Ended
    <3>3. \A j \in DOMAIN results' : Truthful(project, Runs[j], results'[j])
      BY <2>3, <3>1, <3>2 DEF Listing
    <3>4. DOMAIN results' = (1..begun') \ running' /\ running' \subseteq 1..begun'
      BY <2>1, <3>1, <3>2 DEF Listing
    <3>5. Listing'
      BY <2>1, <3>1, <3>3, <3>4 DEF Listing, Truthful, Whole, Reported
    <3>6. Unjudged'
      BY <2>1, <2>4 DEF Unjudged
    <3> QED
      BY <2>1, <2>4, <3>5, <3>6 DEF ClassificationIsSound
  <2>5. CASE pc = "done"
    BY <2>1, <2>5 DEF ClassificationIsSound
  <2> QED
    BY <2>4, <2>5
<1>6. CASE Classify
  <2>1. pc = "list" /\ pc' = "done" /\ project' = project /\ Unjudged /\ Listing
    BY <1>6 DEF Classify
  <2>2. AllTruthful
    BY <1>6, <2>1, RunsAreASequence DEF Classify, Listing, AllTruthful
  <2>3. CASE Unavailable
    <3>1. graph'.deps = graph.deps
      BY <1>6, <2>1, <2>3 DEF Classify, Unjudged
    <3>2. \A m \in DOMAIN graph'.deps : Sound(project', graph'.source, graph'.deps[m], m)
      BY <2>1, <3>1, UnclassifiedIsSound DEF Unjudged
    <3>3. ClassificationIsSound'
      BY <3>2, SoundMeansSound
    <3> QED
      BY <2>1, <3>3
  <2>4. CASE ~Unavailable
    <3>1. /\ graph'.deps = [m \in DOMAIN graph.deps |-> Verdict(graph.deps, m)]
          /\ graph'.source = graph.source
      BY <1>6, <2>1, <2>4 DEF Classify, Unjudged
    <3>2. \A m \in DOMAIN graph.deps :
            Sound(project, graph.source, Verdict(graph.deps, m), m)
      BY <2>1, <2>2, VerdictIsSound DEF Unjudged
    <3>3. \A m \in DOMAIN graph'.deps : Sound(project', graph'.source, graph'.deps[m], m)
      BY <2>1, <3>1, <3>2
    <3>4. ClassificationIsSound'
      BY <3>3, SoundMeansSound
    <3> QED
      BY <2>1, <3>4
  <2> QED
    BY <2>3, <2>4
<1>7. CASE ContextEnds \/ UNCHANGED resolverVars
  <2>1. UNCHANGED <<project, pc, graph, begun, running, results>>
    BY <1>7 DEF ContextEnds, resolverVars
  <2> QED
    BY <2>1, ListingStays DEF Unjudged, ClassificationIsSound
<1> QED
  BY <1>1, <1>2, <1>3, <1>4, <1>5, <1>6, <1>7 DEF ResolverNext

-----------------------------------------------------------------------------
(* What is found out about the modules of the graph.                       *)

(* Every module of the graph has findings, and they are of their type.     *)
FindingsInv ==
  /\ vulns \in [Modules -> SUBSET Findable]
  /\ project \in Projects
  /\ DOMAIN graph.deps \subseteq Modules
  /\ \A m \in DOMAIN graph.deps : IsDependency(graph.deps[m])
  /\ \A m \in Modules : IsFiniteSet(vulns[m])

(* A dependency with another verdict is one.                               *)
LEMMA VerdictsAreFields ==
  \A d : IsDependency(d) =>
    \A x : /\ IsDependency([d EXCEPT !.testOnly = x])
           /\ IsDependency([d EXCEPT !.inBuild = x])
           /\ IsDependency([d EXCEPT !.platforms = x])
<1> SUFFICES ASSUME NEW d, IsDependency(d), NEW x
             PROVE  /\ IsDependency([d EXCEPT !.testOnly = x])
                    /\ IsDependency([d EXCEPT !.inBuild = x])
                    /\ IsDependency([d EXCEPT !.platforms = x])
  OBVIOUS
<1> DEFINE Fields(a, n, u, t, b, ps) == [direct |-> a, depth |-> n, usedBy |-> u,
                                         testOnly |-> t, inBuild |-> b, platforms |-> ps]
<1>1. PICK a, u, t0, b0, p0 : \E n \in Int : d = Fields(a, n, u, t0, b0, p0)
  BY DEF IsDependency
<1>2. PICK n \in Int : d = Fields(a, n, u, t0, b0, p0)
  BY <1>1
<1>3. [d EXCEPT !.testOnly = x] = Fields(a, n, u, x, b0, p0)
  BY <1>2
<1>4. [d EXCEPT !.inBuild = x] = Fields(a, n, u, t0, x, p0)
  BY <1>2
<1>5. [d EXCEPT !.platforms = x] = Fields(a, n, u, t0, b0, x)
  BY <1>2
<1>6. \A t, b, ps : IsDependency(Fields(a, n, u, t, b, ps))
  BY DEF IsDependency
<1> HIDE DEF Fields
<1>7. /\ IsDependency(Fields(a, n, u, x, b0, p0)) /\ IsDependency(Fields(a, n, u, t0, x, p0))
      /\ IsDependency(Fields(a, n, u, t0, b0, x))
  BY <1>6, Zenon
<1> QED
  BY <1>3, <1>4, <1>5, <1>7, Zenon

(* A verdict changes nothing else of a dependency.                         *)
LEMMA VerdictsAreDependencies ==
  ASSUME NEW deps, NEW m \in DOMAIN deps, IsDependency(deps[m])
  PROVE  IsDependency(Verdict(deps, m))
<1> SUFFICES ASSUME NEW d, d = deps[m], IsDependency(d)
             PROVE  IsDependency(Verdict(deps, m))
  OBVIOUS
<1>1. ASSUME NEW t, NEW b
      PROVE  IsDependency([d EXCEPT !.testOnly = t, !.inBuild = b])
  <2>1. IsDependency([d EXCEPT !.testOnly = t])
    BY VerdictsAreFields, Zenon
  <2>2. IsDependency([[d EXCEPT !.testOnly = t] EXCEPT !.inBuild = b])
    BY <2>1, VerdictsAreFields, Zenon
  <2> QED
    BY <2>2, Zenon
<1>2. ASSUME NEW t, NEW b, NEW ps
      PROVE  IsDependency([d EXCEPT !.testOnly = t, !.inBuild = b, !.platforms = ps])
  <2>1. IsDependency([[d EXCEPT !.testOnly = t, !.inBuild = b] EXCEPT !.platforms = ps])
    BY <1>1, VerdictsAreFields, Zenon
  <2> QED
    BY <2>1, Zenon
<1>3. ASSUME NEW b PROVE IsDependency([d EXCEPT !.inBuild = b])
  BY VerdictsAreFields, Zenon
<1> QED
  BY <1>1, <1>2, <1>3 DEF Verdict

(* Whichever way the graph is made, its modules are known ones.            *)
LEMMA ResolvingKeepsModules ==
  ASSUME ResolverInv, FindingsInv, [ResolverNext]_resolverVars
  PROVE  /\ DOMAIN graph'.deps \subseteq Modules /\ project' \in Projects
         /\ \A m \in DOMAIN graph'.deps : IsDependency(graph'.deps[m])
<1> USE DEF FindingsInv
<1>1. project.direct \union project.listed \union project.gosum \subseteq Modules
  BY ProjectsAssumption DEF Tidy
<1>2. DOMAIN FromGoModGraph(project) \subseteq Modules
  BY GraphHasTheEdges
<1>3. \A ms \in SUBSET Modules :
        /\ DOMAIN FromGoMod(project, ms) \subseteq Modules
        /\ DOMAIN AddFromGoSum(project, FromGoMod(project, ms)) \subseteq Modules
  BY <1>1 DEF FromGoMod, AddFromGoSum
<1>4. UNCHANGED project
  BY DEF ResolverNext, ResolveDirectOnly, ResolveWithGoModGraph, FallBack, StartRun, FinishRun,
         Classify, ContextEnds, resolverVars
<1>5. CASE ResolveDirectOnly
  <2>1. graph'.deps = FromGoMod(project, project.direct)
    BY <1>5 DEF ResolveDirectOnly, ResolverInv, Unjudged
  <2> QED
    BY <1>1, <1>3, <1>4, <2>1, NewGraphsAreUnclassified DEF Unclassified
<1>6. CASE ResolveWithGoModGraph
  <2>1. graph'.deps = FromGoModGraph(project)
    BY <1>6 DEF ResolveWithGoModGraph, ResolverInv, Unjudged
  <2> QED
    BY <1>2, <1>4, <2>1, NewGraphsAreUnclassified DEF Unclassified
<1>7. CASE FallBack
  <2> DEFINE deps == FromGoMod(project, project.listed)
  <2>1. DOMAIN deps \subseteq Modules /\ DOMAIN AddFromGoSum(project, deps) \subseteq Modules
    BY <1>1, <1>3
  <2>2. /\ \A m \in DOMAIN deps : IsDependency(deps[m])
        /\ \A m \in DOMAIN AddFromGoSum(project, deps) :
             IsDependency(AddFromGoSum(project, deps)[m])
    BY NewGraphsAreUnclassified DEF Unclassified
  <2>3. graph'.deps = deps \/ graph'.deps = AddFromGoSum(project, deps)
    <3>1. PICK sum \in BOOLEAN :
            graph' = [deps |-> IF sum THEN AddFromGoSum(project, deps) ELSE deps,
                      source |-> "go_mod_requires",
                      warned |-> {"no go mod graph"} \union (IF sum THEN {} ELSE {"no go.sum"})]
      BY <1>7 DEF FallBack
    <3> HIDE DEF deps
    <3> QED
      BY <3>1
  <2> HIDE DEF deps
  <2> QED
    BY <1>4, <2>1, <2>2, <2>3
<1>8. CASE Classify
  <2>1. \/ graph'.deps = graph.deps
        \/ graph'.deps = [m \in DOMAIN graph.deps |-> Verdict(graph.deps, m)]
    BY <1>8 DEF Classify, ResolverInv, Unjudged
  <2> QED
    BY <1>4, <2>1, VerdictsAreDependencies
<1>9. CASE UNCHANGED graph
  BY <1>4, <1>9
<1> QED
  BY <1>5, <1>6, <1>7, <1>8, <1>9
  DEF ResolverNext, StartRun, FinishRun, ContextEnds, resolverVars

(* A finding that is exploited is still a finding.                         *)
LEMMA StillFindable ==
  ASSUME NEW v \in Findable
  PROVE  [v EXCEPT !.kev = TRUE] \in Findable /\ [v EXCEPT !.epss = P!Larger(@, 9)] \in Findable
<1> DEFINE S == {"LOW", "MEDIUM", "HIGH", "CRITICAL", "UNKNOWN"}
           T == {P!Empty, "called", "imported", "required"}
           F == [sev : S, reach : T, kev : BOOLEAN, epss : 0..10, noSev : BOOLEAN,
                 fixAge : Int, age : Int, cve : STRING]
<1>1. v \in F
  BY DEF Findable
<1> HIDE DEF S, T
<1>2. [v EXCEPT !.kev = TRUE] \in F
  BY <1>1
<1>3. [v EXCEPT !.epss = P!Larger(@, 9)] \in F
  <2>1. v.epss \in 0..10
    BY <1>1
  <2>2. P!Larger(v.epss, 9) \in 0..10
    BY <2>1 DEF P!Larger
  <2> QED
    BY <1>1, <2>2
<1> QED
  BY <1>2, <1>3 DEF S, T, Findable

(* News keeps the types.                                                   *)
LEMMA NewsIsFindable ==
  ASSUME FindingsInv, News
  PROVE  FindingsInv'
<1>1. graph' = graph /\ project' = project
  BY DEF News, resolverVars
<1>2. PICK m \in DOMAIN graph.deps : \/ \E v \in Findings : Publish(m, v)
                                     \/ \E v \in vulns[m] : Exploited(m, v)
                                     \/ Archive(m)
  BY DEF News
<1>3. m \in Modules /\ vulns[m] \subseteq Findable /\ IsFiniteSet(vulns[m])
  BY DEF FindingsInv
<1>4. ASSUME NEW ws \in SUBSET Findable, IsFiniteSet(ws), vulns' = [vulns EXCEPT ![m] = ws]
      PROVE  FindingsInv'
  BY <1>1, <1>3, <1>4 DEF FindingsInv
<1>5. ASSUME NEW v \in Findings, Publish(m, v) PROVE FindingsInv'
  <2>1. IsFiniteSet(vulns[m] \union {v})
    BY <1>3, FS_AddElement
  <2>2. vulns' = [vulns EXCEPT ![m] = vulns[m] \union {v}]
    BY <1>5 DEF Publish
  <2> QED
    BY <1>3, <1>4, <2>1, <2>2, FindingsAssumption
<1>6. ASSUME NEW v \in vulns[m], Exploited(m, v) PROVE FindingsInv'
  <2>1. v \in Findable
    BY <1>3
  <2>2. PICK w \in Findable : vulns' = [vulns EXCEPT ![m] = (vulns[m] \ {v}) \union {w}]
    BY <1>6, <2>1, StillFindable DEF Exploited
  <2>3. IsFiniteSet((vulns[m] \ {v}) \union {w})
    BY <1>3, FS_AddElement, FS_RemoveElement
  <2> QED
    BY <1>3, <1>4, <2>2, <2>3
<1>7. CASE Archive(m)
  BY <1>1, <1>7 DEF Archive, FindingsInv
<1> QED
  BY <1>2, <1>5, <1>6, <1>7

(* Every step keeps both invariants.                                       *)
LEMMA JudgementStep ==
  ASSUME ResolverInv, FindingsInv, [Next]_vars
  PROVE  ResolverInv' /\ FindingsInv'
<1>1. [ResolverNext]_resolverVars
  BY DEF Next, Resolving, News, vars
<1>2. ResolverInv'
  BY <1>1, ResolverStep
<1>3. CASE News
  BY <1>2, <1>3, NewsIsFindable
<1>4. CASE Resolving \/ UNCHANGED vars
  <2>1. vulns' = vulns
    BY <1>4 DEF Resolving, vars
  <2>2. /\ DOMAIN graph'.deps \subseteq Modules /\ project' \in Projects
        /\ \A m \in DOMAIN graph'.deps : IsDependency(graph'.deps[m])
    BY <1>1, ResolvingKeepsModules
  <2> QED
    BY <1>2, <2>1, <2>2 DEF FindingsInv
<1> QED
  BY <1>3, <1>4 DEF Next

(* Both invariants, of every behaviour.                                    *)
LEMMA JudgementInvariant == Spec => [](ResolverInv /\ FindingsInv)
<1>1. Init => ResolverInv /\ FindingsInv
  <2> SUFFICES ASSUME Init PROVE ResolverInv /\ FindingsInv
    OBVIOUS
  <2>1. vulns = [m \in Modules |-> {}] /\ project \in Projects /\ graph = NoGraph
    BY DEF Init, ResolverInit
  <2>2. DOMAIN graph.deps = {}
    BY <2>1 DEF NoGraph
  <2> QED
    BY <2>1, <2>2, InitResolver, FS_EmptySet DEF FindingsInv, Init
<1>2. ResolverInv /\ FindingsInv /\ [Next]_vars => (ResolverInv /\ FindingsInv)'
  BY JudgementStep
<1> QED
  BY <1>1, <1>2, PTL DEF Spec

(* A verdict that a module is only tested with, not built, or built for    *)
(* some systems only is true of the project, whichever lists failed or     *)
(* were cut off, and code behind a build tag is not called outside the     *)
(* build (classifyTestOnlyDeps, graph.go).                                 *)
THEOREM VerdictsAreSound == Spec => []ClassificationIsSound
<1>1. ResolverInv => ClassificationIsSound
  BY DEF ResolverInv
<1> QED
  BY <1>1, JudgementInvariant, PTL

-----------------------------------------------------------------------------
(* The tiers of findings.                                                  *)

(* No severity is the empty string.                                        *)
Severities == {"LOW", "MEDIUM", "HIGH", "CRITICAL"}
LEMMA SeveritiesAreSaid ==
  /\ "LOW" # P!Empty /\ "MEDIUM" # P!Empty /\ "HIGH" # P!Empty /\ "CRITICAL" # P!Empty
  /\ P!Empty \notin Severities
BY Zenon DEF P!Empty, Severities

(* The ranks of the tiers, and the tiers at the ranks.                     *)
LEMMA Ranks ==
  /\ P!TierRank(P!Empty) = 0 /\ P!TierRank("LOW") = 1 /\ P!TierRank("MEDIUM") = 2
  /\ P!TierRank("HIGH") = 3 /\ P!TierRank("CRITICAL") = 4
  /\ P!Tiers[1] = "LOW" /\ P!Tiers[2] = "MEDIUM" /\ P!Tiers[3] = "HIGH"
  /\ P!Tiers[4] = "CRITICAL"
<1>1. P!Tiers[1] = "LOW" /\ P!Tiers[2] = "MEDIUM" /\ P!Tiers[3] = "HIGH"
      /\ P!Tiers[4] = "CRITICAL"
  BY DEF P!Tiers
<1>2. P!TierRank(P!Empty) = 0
  BY DEF P!TierRank
<1>3. \A t \in Severities : \A i \in 1..4 :
        P!Tiers[i] = t => P!TierRank(t) = i
  BY <1>1, SeveritiesAreSaid DEF P!TierRank, Severities
<1> QED
  BY <1>1, <1>2, <1>3 DEF Severities

(* A tier that nothing, or a notch, is taken off of, and one that goes up. *)
LEMMA Notches ==
  /\ \A t \in Severities \union {P!Empty} : P!Downgrade(t, 0) = t
  /\ P!Downgrade(P!Empty, 1) = P!Empty /\ P!Downgrade("LOW", 1) = P!Empty
  /\ P!Downgrade("MEDIUM", 1) = "LOW" /\ P!Downgrade("HIGH", 1) = "MEDIUM"
  /\ P!Downgrade("CRITICAL", 1) = "HIGH"
  /\ P!Downgrade("LOW", 2) = P!Empty /\ P!Downgrade("MEDIUM", 2) = P!Empty
  /\ P!Downgrade("HIGH", 2) = "LOW" /\ P!Downgrade("CRITICAL", 2) = "MEDIUM"
  /\ P!Promote(P!Empty) = P!Empty /\ P!Promote("LOW") = "MEDIUM"
  /\ P!Promote("MEDIUM") = "HIGH" /\ P!Promote("HIGH") = "CRITICAL"
  /\ P!Promote("CRITICAL") = "CRITICAL"
<1>1. \A t \in Severities \union {P!Empty} : P!Downgrade(t, 0) = t
  BY Ranks DEF P!Downgrade, Severities
<1>2. /\ P!Downgrade(P!Empty, 1) = P!Empty /\ P!Downgrade("LOW", 1) = P!Empty
      /\ P!Downgrade("MEDIUM", 1) = "LOW" /\ P!Downgrade("HIGH", 1) = "MEDIUM"
      /\ P!Downgrade("CRITICAL", 1) = "HIGH"
  BY Ranks DEF P!Downgrade
<1>3. /\ P!Downgrade("LOW", 2) = P!Empty /\ P!Downgrade("MEDIUM", 2) = P!Empty
      /\ P!Downgrade("HIGH", 2) = "LOW" /\ P!Downgrade("CRITICAL", 2) = "MEDIUM"
  BY Ranks DEF P!Downgrade
<1>4. /\ P!Promote(P!Empty) = P!Empty /\ P!Promote("LOW") = "MEDIUM"
      /\ P!Promote("MEDIUM") = "HIGH" /\ P!Promote("HIGH") = "CRITICAL"
      /\ P!Promote("CRITICAL") = "CRITICAL"
  BY Ranks, SeveritiesAreSaid DEF P!Promote
<1> QED
  BY <1>1, <1>2, <1>3, <1>4

(* What is left of a finding's severity after the call graph's discount.   *)
LEMMA ReachedTier ==
  ASSUME NEW v \in Findable
  PROVE  P!Downgrade(P!ScoredSeverity(v), P!ReachNotches(v.reach)) \in Severities \union {P!Empty}
<1>1. P!ScoredSeverity(v) \in Severities
  BY DEF Findable, P!ScoredSeverity, P!EffectiveTier, Severities
<1>2. P!ReachNotches(v.reach) \in {0, 1, 2}
  BY DEF P!ReachNotches
<1> QED
  BY <1>1, <1>2, Notches DEF Severities

(* A finding has a tier, or has dropped out.                               *)
LEMMA FinalTierIsTier ==
  ASSUME NEW d, NEW v \in Findable
  PROVE  P!FinalTier(d, v) \in Severities \union {P!Empty}
<1> DEFINE t == P!Downgrade(P!ScoredSeverity(v), P!ReachNotches(v.reach))
<1>1. t \in Severities \union {P!Empty}
  BY ReachedTier
<1> HIDE DEF t
<1>2. P!FinalTier(d, v) =
        P!ThreatTier(IF P!TestOnlyConfirmed(d) THEN P!Downgrade(t, 1) ELSE t, v)
  BY DEF P!FinalTier, t
<1>3. \A u \in Severities \union {P!Empty} : P!ThreatTier(u, v) \in Severities \union {P!Empty}
  BY Notches DEF P!ThreatTier, Severities
<1>4. P!Downgrade(t, 1) \in Severities \union {P!Empty}
  BY <1>1, Notches DEF Severities
<1> QED
  BY <1>1, <1>2, <1>3, <1>4

(* A finding of a module that is not known to be test-only counts as much  *)
(* as in one that is.                                                      *)
LEMMA DiscountsLower ==
  ASSUME NEW d, NEW e, NEW v \in Findable, P!TestOnlyConfirmed(d) => P!TestOnlyConfirmed(e)
  PROVE  P!TierRank(P!FinalTier(d, v)) >= P!TierRank(P!FinalTier(e, v))
<1> DEFINE t == P!Downgrade(P!ScoredSeverity(v), P!ReachNotches(v.reach))
           final(u) == P!TierRank(P!ThreatTier(u, v))
<1>1. t \in Severities \union {P!Empty}
  BY ReachedTier
<1> HIDE DEF t
<1>2. /\ P!TierRank(P!FinalTier(d, v)) =
           final(IF P!TestOnlyConfirmed(d) THEN P!Downgrade(t, 1) ELSE t)
      /\ P!TierRank(P!FinalTier(e, v)) =
           final(IF P!TestOnlyConfirmed(e) THEN P!Downgrade(t, 1) ELSE t)
  BY DEF P!FinalTier, t
<1>3. final(t) >= final(P!Downgrade(t, 1)) /\ final(t) \in Nat /\ final(P!Downgrade(t, 1)) \in Nat
  BY <1>1, Notches, Ranks, SeveritiesAreSaid DEF P!ThreatTier, Severities
<1> HIDE DEF final
<1> QED
  BY <1>2, <1>3

(* A finding that nothing takes off of, and that is exploited, is critical. *)
LEMMA ExploitedIsCritical ==
  ASSUME NEW d, NEW v \in Findable, v.kev,
         ~P!TestOnlyConfirmed(d), ~(P!ReachNotches(v.reach) > 0)
  PROVE  P!FinalTier(d, v) = "CRITICAL"
<1> DEFINE t == P!ScoredSeverity(v)
<1>1. t \in Severities
  BY DEF Findable, P!ScoredSeverity, P!EffectiveTier, Severities
<1>2. P!ReachNotches(v.reach) = 0
  BY DEF P!ReachNotches
<1> HIDE DEF t
<1>3. P!Downgrade(t, 0) # P!Empty
  BY <1>1, Notches, SeveritiesAreSaid
<1>4. P!FinalTier(d, v) = P!ThreatTier(P!Downgrade(t, 0), v)
  BY <1>2 DEF P!FinalTier, t
<1> QED
  BY <1>3, <1>4 DEF P!ThreatTier

(* A finding that is listed as exploited counts as critical, or the report *)
(* asks for a review of it: whatever the graph and whatever is found out   *)
(* about it, no discount for test-only code or for unreached code hides it *)
(* (ScoreProject's warnings, risk.go).                                     *)
THEOREM NothingIsSuppressed == Spec => []NothingSuppressedSilently
<1>1. FindingsInv => NothingSuppressedSilently
  <2> SUFFICES ASSUME FindingsInv, NEW m \in DOMAIN graph.deps,
                      NEW v \in vulns[m], v.kev
               PROVE  LET deps == Deps(vulns, archived)
                      IN  \/ P!FinalTier(deps[m], v) = "CRITICAL"
                          \/ <<m, v>> \in P!ReviewWarnings(deps)
    BY DEF NothingSuppressedSilently, Deps, Scored
  <2> DEFINE deps == Deps(vulns, archived)
  <2>1. /\ DOMAIN deps = DOMAIN graph.deps
        /\ deps[m].vulns = vulns[m]
    BY DEF Deps, Scored
  <2>2. v \in Findable
    BY DEF FindingsInv
  <2> HIDE DEF deps
  <2>3. CASE P!TestOnlyConfirmed(deps[m]) \/ P!ReachNotches(v.reach) > 0
    <3>1. <<m, v>> \in UNION {{<<n, w>> : w \in deps[n].vulns} : n \in DOMAIN deps}
      BY <2>1
    <3>2. <<m, v>> \in P!ReviewWarnings(deps)
      BY <2>3, <3>1 DEF P!ReviewWarnings
    <3> QED
      BY <3>2 DEF deps
  <2>4. CASE ~(P!TestOnlyConfirmed(deps[m]) \/ P!ReachNotches(v.reach) > 0)
    <3>1. P!FinalTier(deps[m], v) = "CRITICAL"
      BY <2>2, <2>4, ExploitedIsCritical
    <3> QED
      BY <3>1 DEF deps
  <2> QED
    BY <2>3, <2>4
<1> QED
  BY <1>1, JudgementInvariant, PTL

-----------------------------------------------------------------------------
(* What less discounting does to the numbers.                              *)

(* A bounded set of numbers has a greatest one, and a set of numbers a     *)
(* least one.                                                              *)
LEMMA Greatest ==
  ASSUME NEW n \in Nat, NEW S, S # {}, \A x \in S : x \in Nat /\ x <= n
  PROVE  P!Max(S) \in S /\ P!Max(S) \in Nat /\ P!Max(S) <= n /\ \A x \in S : x <= P!Max(S)
<1> DEFINE U == {k \in Nat : \A x \in S : x <= k}
<1>1. n \in U
  OBVIOUS
<1>2. PICK k \in U : \A l \in U : k <= l
  BY <1>1, Least
<1>3. k \in S
  <2> SUFFICES ASSUME k \notin S PROVE FALSE
    OBVIOUS
  <2>1. \A x \in S : x \in Nat /\ x <= k - 1
    OBVIOUS
  <2>2. PICK x \in S : TRUE
    OBVIOUS
  <2>3. k - 1 \in Nat
    BY <2>1, <2>2
  <2>4. k - 1 \in U
    BY <2>1, <2>3
  <2> QED
    BY <1>2, <2>4
<1>4. k \in S /\ \A x \in S : k >= x
  BY <1>3
<1>5. P!Max(S) \in S /\ \A x \in S : P!Max(S) >= x
  BY <1>4, Zenon DEF P!Max
<1> QED
  BY <1>5

LEMMA LeastIsMin ==
  ASSUME NEW S, S # {}, \A x \in S : x \in Nat
  PROVE  P!Min(S) \in S /\ P!Min(S) \in Nat /\ \A x \in S : P!Min(S) <= x
<1>1. S \in SUBSET Nat
  BY Zenon
<1>2. \E k \in S : \A x \in S : k <= x
  BY <1>1, Least, Zenon
<1>3. P!Min(S) \in S /\ \A x \in S : P!Min(S) <= x
  BY <1>2, Zenon DEF P!Min
<1> QED
  BY <1>3

LEMMA MinOfTwo ==
  ASSUME NEW a \in Int, NEW b \in Int
  PROVE  P!Min({a, b}) = IF a <= b THEN a ELSE b
BY DEF P!Min

(* A larger set of numbers has no smaller a greatest one.                  *)
LEMMA GreaterWithMore ==
  ASSUME NEW n \in Nat, NEW T, NEW S, S \subseteq T, S # {}, \A x \in T : x \in Nat /\ x <= n
  PROVE  P!Max(S) <= P!Max(T) /\ P!Max(S) \in Nat /\ P!Max(T) \in Nat
<1>1. P!Max(S) \in S /\ P!Max(S) \in Nat
  <2>1. \A x \in S : x \in Nat /\ x <= n
    OBVIOUS
  <2> QED
    BY <2>1, Greatest
<1>2. P!Max(T) \in Nat /\ \A x \in T : x <= P!Max(T)
  <2>1. T # {}
    OBVIOUS
  <2> QED
    BY <2>1, Greatest
<1> QED
  BY <1>1, <1>2

-----------------------------------------------------------------------------
(* The dependencies as they are scored, and as a complete listing would    *)
(* have them scored.                                                       *)

(* What the scores of two dependencies rest on, beside the verdicts.       *)
Alike(d, e) ==
  /\ d.direct = e.direct /\ d.depth = e.depth /\ d.vulns = e.vulns /\ d.maint = e.maint
  /\ d.maintainer = e.maintainer /\ d.resilience = e.resilience /\ d.typo = e.typo
  /\ d.aigen = e.aigen /\ d.replace = e.replace /\ d.pseudo = e.pseudo
  /\ d.version = e.version /\ d.trusted = e.trusted

(* What is discounted of d is discounted of e.                             *)
Milder(d, e) ==
  /\ Alike(d, e)
  /\ P!TestOnlyConfirmed(d) => P!TestOnlyConfirmed(e)
  /\ P!OutsideBuildConfirmed(d) => P!OutsideBuildConfirmed(e)

(* What is known of every dependency that is scored.                       *)
IsScored(d) ==
  /\ d.vulns \subseteq Findable /\ IsFiniteSet(d.vulns)
  /\ \E x, arch : \E depth \in Int : x.depth = depth /\ d = Scored(x, d.vulns, arch)

(* The deps of a report, and those of the truth.                           *)
Mildly(deps, truth) ==
  /\ DOMAIN deps = DOMAIN truth /\ DOMAIN deps \subseteq Modules
  /\ \A m \in DOMAIN deps : Milder(deps[m], truth[m]) /\ IsScored(deps[m])

(* Another verdict, and nothing else.                                      *)
LEMMA JudgedFields ==
  ASSUME NEW d, IsDependency(d), NEW x, NEW y
  PROVE  LET e == [d EXCEPT !.testOnly = x, !.inBuild = y]
         IN  /\ e.direct = d.direct /\ e.depth = d.depth
             /\ e.testOnly = x /\ e.inBuild = y
<1>1. IsDependency([d EXCEPT !.testOnly = x])
  BY VerdictsAreFields, Zenon
<1>2. PICK f : f = [d EXCEPT !.testOnly = x]
  OBVIOUS
<1>3. f.direct = d.direct /\ f.depth = d.depth /\ f.testOnly = x
  BY <1>2 DEF IsDependency
<1>4. IsDependency(f)
  BY <1>1, <1>2, Zenon
<1>5. PICK e : e = [f EXCEPT !.inBuild = y]
  OBVIOUS
<1>6. e.direct = f.direct /\ e.depth = f.depth /\ e.testOnly = f.testOnly /\ e.inBuild = y
  BY <1>4, <1>5 DEF IsDependency
<1>7. e = [d EXCEPT !.testOnly = x, !.inBuild = y]
  BY <1>2, <1>5, Zenon
<1>8. e.direct = d.direct /\ e.depth = d.depth /\ e.testOnly = x /\ e.inBuild = y
  BY <1>3, <1>6
<1> QED
  BY <1>7, <1>8, Zenon

(* The true verdicts discount whatever the given ones do.                  *)
LEMMA TruthDiscountsMore ==
  ASSUME ResolverInv, FindingsInv, pc = "done"
  PROVE  Mildly(Deps(vulns, archived), TrueDeps(vulns, archived))
<1> DEFINE prod == Compiled(project, FALSE)
           built == prod \union Compiled(project, TRUE)
           testOnly(m) == CASE m \in prod -> "no" [] m \in built \ prod -> "yes"
                            [] OTHER -> "unknown"
           inBuild(m) == IF m \in built THEN "yes" ELSE "no"
           deps == Deps(vulns, archived)
           truth == TrueDeps(vulns, archived)
<1>1. /\ DOMAIN deps = DOMAIN graph.deps /\ DOMAIN truth = DOMAIN graph.deps
      /\ \A m \in DOMAIN graph.deps : deps[m] = Scored(graph.deps[m], vulns[m], m \in archived)
  BY DEF Deps, TrueDeps
<1>2. \A m \in DOMAIN graph.deps :
        truth[m] = Scored([graph.deps[m] EXCEPT !.testOnly = testOnly(m), !.inBuild = inBuild(m)],
                          vulns[m], m \in archived)
  BY Zenon DEF TrueDeps
<1>3. \A m \in DOMAIN graph.deps :
        /\ graph.deps[m].testOnly = "yes" => testOnly(m) = "yes"
        /\ graph.deps[m].inBuild = "no" => inBuild(m) = "no"
  BY DEF ResolverInv, ClassificationIsSound
<1>4. ASSUME NEW m \in DOMAIN graph.deps
      PROVE  Milder(deps[m], truth[m]) /\ IsScored(deps[m])
  <2>1. IsDependency(graph.deps[m]) /\ vulns[m] \subseteq Findable /\ IsFiniteSet(vulns[m])
    BY DEF FindingsInv
  <2>2. PICK t, b : t = testOnly(m) /\ b = inBuild(m)
    OBVIOUS
  <2>3. /\ graph.deps[m].testOnly = "yes" => t = "yes"
        /\ graph.deps[m].inBuild = "no" => b = "no"
    BY <1>3, <2>2
  <2>4. PICK d : d = graph.deps[m]
    OBVIOUS
  <2>5. PICK e : e = [d EXCEPT !.testOnly = t, !.inBuild = b]
    OBVIOUS
  <2>6. /\ e.direct = d.direct /\ e.depth = d.depth
        /\ e.testOnly = t /\ e.inBuild = b
    BY <2>1, <2>4, <2>5, JudgedFields
  <2>7. /\ deps[m] = Scored(d, vulns[m], m \in archived)
        /\ truth[m] = Scored(e, vulns[m], m \in archived)
    BY <1>1, <1>2, <2>2, <2>4, <2>5
  <2>8. Alike(deps[m], truth[m])
    BY <2>6, <2>7 DEF Alike, Scored
  <2>9. /\ deps[m].testOnly = "yes" => truth[m].testOnly = "yes"
        /\ deps[m].inBuild = "no" => truth[m].inBuild = "no"
    BY <2>3, <2>4, <2>6, <2>7 DEF Scored
  <2>10. /\ P!TestOnlyConfirmed(deps[m]) => P!TestOnlyConfirmed(truth[m])
         /\ P!OutsideBuildConfirmed(deps[m]) => P!OutsideBuildConfirmed(truth[m])
    BY <2>9 DEF P!TestOnlyConfirmed, P!OutsideBuildConfirmed, P!Yes, P!No
  <2>11. PICK depth \in Int : d.depth = depth
    BY <2>1, <2>4 DEF IsDependency
  <2>12. deps[m].vulns = vulns[m]
    BY <2>7 DEF Scored
  <2>13. IsScored(deps[m])
    BY <2>1, <2>7, <2>11, <2>12, Zenon DEF IsScored
  <2> QED
    BY <2>8, <2>10, <2>13 DEF Milder
<1> HIDE DEF deps, truth
<1>5. DOMAIN graph.deps \subseteq Modules
  BY DEF FindingsInv
<1>6. Mildly(deps, truth)
  BY <1>1, <1>4, <1>5 DEF Mildly
<1> QED
  BY <1>6 DEF deps, truth

-----------------------------------------------------------------------------
(* The risk score of a dependency.                                         *)

(* Verdicts do not enter it.                                               *)
LEMMA RiskIsAlike ==
  ASSUME NEW d, NEW e, Alike(d, e), NEW scanned
  PROVE  P!RiskScore(d, scanned) = P!RiskScore(e, scanned)
<1>1. d.vulns = e.vulns
  BY DEF Alike
<1>2. P!MaintKnown(d) = P!MaintKnown(e)
  BY DEF Alike, P!MaintKnown
<1>3. P!MaintainerExcluded(d) = P!MaintainerExcluded(e)
  BY DEF Alike, P!MaintainerExcluded
<1>4. P!MeasuredWeight(d, scanned) = P!MeasuredWeight(e, scanned)
  BY <1>2, <1>3 DEF P!MeasuredWeight
<1>5. P!DepthScore(d) = P!DepthScore(e) /\ P!MaturityScore(d) = P!MaturityScore(e)
  BY DEF Alike, P!DepthScore, P!MaturityScore
<1>6. P!MaintenanceScore(d) = P!MaintenanceScore(e)
  BY <1>2 DEF Alike, P!MaintenanceScore, P!Archived, P!MonthsInactive
<1>7. P!MaintainerRiskScore(d) = P!MaintainerRiskScore(e)
  BY DEF Alike, P!MaintainerRiskScore
<1>8. P!MeasuredScore(d, scanned) = P!MeasuredScore(e, scanned)
  BY <1>1, <1>2, <1>3, <1>5, <1>6, <1>7 DEF P!MeasuredScore
<1>9. /\ P!TyposquatBonus(d) = P!TyposquatBonus(e) /\ P!AIGenBonus(d) = P!AIGenBonus(e)
      /\ P!ResilienceBonus(d) = P!ResilienceBonus(e)
      /\ P!IntegrityBonus(d) = P!IntegrityBonus(e)
      /\ P!PseudoVersionBonus(d) = P!PseudoVersionBonus(e)
  BY DEF Alike, P!TyposquatBonus, P!AIGenBonus, P!ResilienceBonus, P!IntegrityBonus,
         P!PseudoVersionBonus
<1>10. P!WeightedScore(d, scanned) = P!WeightedScore(e, scanned)
  BY <1>4, <1>8, <1>9 DEF P!WeightedScore
<1> QED
  BY <1>1, <1>10 DEF P!RiskScore

(* The parts of a score are numbers.                                       *)
LEMMA VulnScoreIsANumber ==
  ASSUME NEW vs, vs \subseteq Findable, IsFiniteSet(vs)
  PROVE  P!VulnScore(vs) \in Int
<1>1. CASE vs = {}
  BY <1>1 DEF P!VulnScore
<1>2. CASE vs # {}
  <2> DEFINE high == {v \in vs : P!VulnWeight(v) >= P!HighOrAboveWeight}
             likely == {v.epss : v \in vs}
             weights == {P!VulnWeight(v) : v \in vs}
  <2>1. P!Cardinality(high) \in Nat
    <3>1. IsFiniteSet(high)
      BY FS_Subset
    <3> QED
      BY <3>1, FS_CardinalityType DEF P!Cardinality, Cardinality
  <2>2. P!Max(likely) \in Nat
    <3>1. PICK n \in Nat : n = 10
      OBVIOUS
    <3>2. \A x \in likely : x \in Nat /\ x <= n
      BY <3>1 DEF Findable
    <3>3. likely # {}
      BY <1>2
    <3> HIDE DEF likely
    <3> QED
      BY <3>2, <3>3, Greatest
  <2>3. P!Max(weights) \in Nat
    <3>1. PICK n \in Nat : n = 10000
      OBVIOUS
    <3>2. \A s : P!SeverityWeight(s) \in Nat /\ P!SeverityWeight(s) <= 100
      BY DEF P!SeverityWeight
    <3>3. \A r : P!ReachTenths(r) \in {3, 7, 10}
      BY DEF P!ReachTenths
    <3>4. \A x \in Nat : x <= 100 => \A y \in {3, 7, 10} : x * y * 10 \in Nat /\ x * y * 10 <= 10000
      OBVIOUS
    <3>5. \A v : P!VulnWeight(v) \in Nat /\ P!VulnWeight(v) <= 10000
      BY <3>2, <3>3, <3>4 DEF P!VulnWeight
    <3>6. \A x \in weights : x \in Nat /\ x <= n
      BY <3>1, <3>5
    <3>7. weights # {}
      BY <1>2
    <3> HIDE DEF weights
    <3> QED
      BY <3>6, <3>7, Greatest
  <2> HIDE DEF high, likely, weights
  <2>4. P!VulnScore(vs) =
          P!Min({10000, P!Max(weights) + 500 * P!Larger(P!Cardinality(high) - 1, 0)
                          + 150 * P!Max(likely)})
    BY <1>2 DEF P!VulnScore, high, likely, weights
  <2>5. P!Larger(P!Cardinality(high) - 1, 0) \in Int
    BY <2>1 DEF P!Larger
  <2> QED
    BY <2>2, <2>3, <2>4, <2>5, MinOfTwo
<1> QED
  BY <1>1, <1>2

LEMMA FloorIsANumber ==
  ASSUME NEW vs
  PROVE  P!SeverityFloor(vs).floor \in Nat
<1> DEFINE fixes == {0} \union {P!FixAgeFloor(v) : v \in vs}
<1>1. PICK n \in Nat : n = 26
  OBVIOUS
<1>2. \A v : P!FixAgeFloor(v) \in Nat /\ P!FixAgeFloor(v) <= n
  BY <1>1 DEF P!FixAgeFloor
<1>3. \A x \in fixes : x \in Nat /\ x <= n
  BY <1>2
<1>4. fixes # {}
  OBVIOUS
<1> HIDE DEF fixes
<1>5. P!Max(fixes) \in Nat
  BY <1>3, <1>4, Greatest
<1>6. P!LowFixAgeFloor(vs) \in Nat
  BY <1>5 DEF P!LowFixAgeFloor, fixes
<1> QED
  BY <1>6 DEF P!SeverityFloor

(* A score is between 0 and 100.                                           *)
LEMMA RiskIsBounded ==
  ASSUME NEW d, IsScored(d), NEW scanned
  PROVE  P!RiskScore(d, scanned) \in Nat /\ P!RiskScore(d, scanned) <= 100
<1>1. d.vulns \subseteq Findable /\ IsFiniteSet(d.vulns)
  BY DEF IsScored
<1>2. PICK x, arch : \E depth \in Int : x.depth = depth /\ d = Scored(x, d.vulns, arch)
  BY DEF IsScored
<1>3. /\ d.depth \in Int
      /\ d.maint.known = TRUE /\ d.maint.deprecated = FALSE
      /\ d.maint.release = 1 /\ d.maint.activity = P!None
      /\ d.maintainer.asked = FALSE /\ d.maintainer.archived = FALSE
      /\ d.resilience.asked = FALSE
      /\ d.typo = 0 /\ d.aigen = 0 /\ d.replace = P!Empty /\ d.pseudo = "none"
      /\ d.version = "v1" /\ d.trusted = FALSE
  BY <1>2 DEF Scored
<1>4. P!MaintKnown(d) /\ ~P!MaintainerExcluded(d)
  BY <1>3 DEF P!MaintKnown, P!MaintainerExcluded
<1>5. P!MeasuredWeight(d, scanned) \in {60, 100}
  BY <1>4 DEF P!MeasuredWeight
<1>6. P!DepthScore(d) \in Int
  BY <1>3, MinOfTwo DEF P!DepthScore
<1>7. P!MaturityScore(d) \in Int
  BY <1>3 DEF P!MaturityScore
<1>8. P!MaintenanceScore(d) \in Int
  BY DEF P!MaintenanceScore
<1>9. P!MaintainerRiskScore(d) \in Int
  BY <1>3 DEF P!MaintainerRiskScore
<1>10. P!VulnScore(d.vulns) \in Int
  BY <1>1, VulnScoreIsANumber
<1>11. P!MeasuredScore(d, scanned) \in Int
  BY <1>4, <1>6, <1>7, <1>8, <1>9, <1>10 DEF P!MeasuredScore
<1> DEFINE bonus == P!TyposquatBonus(d) + P!AIGenBonus(d) + P!ResilienceBonus(d)
                      + P!IntegrityBonus(d) + P!PseudoVersionBonus(d)
           least == IF d.vulns = {} THEN 0 ELSE P!SeverityFloor(d.vulns).floor
<1>12. bonus \in Int
  BY <1>3 DEF P!TyposquatBonus, P!AIGenBonus, P!ResilienceBonus, P!IntegrityBonus,
              P!PseudoVersionBonus
<1>13. least \in Nat
  BY FloorIsANumber
<1> HIDE DEF bonus, least
<1>14. P!WeightedScore(d, scanned) \in Int
  <2>1. PICK w \in {60, 100} : w = P!MeasuredWeight(d, scanned)
    BY <1>5
  <2>2. P!WeightedScore(d, scanned) =
          (P!MeasuredScore(d, scanned) + bonus * w + 50 * w) \div (100 * w)
    BY <2>1 DEF P!WeightedScore, bonus
  <2>3. \A x1, y1 \in Int : /\ (x1 + y1 * 60 + 50 * 60) \div (100 * 60) \in Int
                            /\ (x1 + y1 * 100 + 50 * 100) \div (100 * 100) \in Int
    OBVIOUS
  <2> QED
    BY <1>11, <1>12, <2>2, <2>3
<1>15. P!Larger(least, P!WeightedScore(d, scanned)) \in Nat
  BY <1>13, <1>14 DEF P!Larger
<1>16. P!RiskScore(d, scanned) = P!Min({100, P!Larger(least, P!WeightedScore(d, scanned))})
  BY DEF P!RiskScore, least
<1> QED
  BY <1>15, <1>16, MinOfTwo

-----------------------------------------------------------------------------
(* The candidates for the headline.                                        *)

(* The findings of all modules are finite many.                            *)
PairsOf(deps) == UNION {{<<m, v>> : v \in deps[m].vulns} : m \in DOMAIN deps}

LEMMA PairsAreFinite ==
  ASSUME NEW deps, IsFiniteSet(DOMAIN deps), \A m \in DOMAIN deps : IsFiniteSet(deps[m].vulns)
  PROVE  IsFiniteSet(PairsOf(deps))
<1> DEFINE T == {{<<m, v>> : v \in deps[m].vulns} : m \in DOMAIN deps}
           of == [m \in DOMAIN deps |-> {<<m, v>> : v \in deps[m].vulns}]
<1>1. of \in Surjection(DOMAIN deps, T)
  BY DEF Surjection
<1>2. IsFiniteSet(T)
  BY <1>1, FS_Surjection
<1>3. ASSUME NEW m \in DOMAIN deps PROVE IsFiniteSet({<<m, v>> : v \in deps[m].vulns})
  <2> DEFINE U == {<<m, v>> : v \in deps[m].vulns}
             pair == [v \in deps[m].vulns |-> <<m, v>>]
  <2>1. pair \in Surjection(deps[m].vulns, U)
    BY DEF Surjection
  <2> QED
    BY <2>1, FS_Surjection
<1>4. \A U \in T : IsFiniteSet(U)
  BY <1>3
<1> HIDE DEF T
<1>5. IsFiniteSet(UNION T)
  BY <1>2, <1>4, FS_UNION
<1> QED
  BY <1>5 DEF PairsOf, T

(* How many findings have a tier is a number, and is 0 if none has it.     *)
LEMMA CountedIsANumber ==
  ASSUME NEW deps, IsFiniteSet(PairsOf(deps)), NEW t
  PROVE  /\ IsFiniteSet(P!Counted(deps, t))
         /\ P!Cardinality(P!Counted(deps, t)) \in Nat
         /\ P!Cardinality(P!Counted(deps, t)) > 0 <=> P!Counted(deps, t) # {}
<1>1. P!Counted(deps, t) \subseteq PairsOf(deps)
  BY DEF P!Counted, PairsOf
<1>2. IsFiniteSet(P!Counted(deps, t))
  BY <1>1, FS_Subset
<1>3. P!Cardinality(P!Counted(deps, t)) = Cardinality(P!Counted(deps, t))
  BY DEF P!Cardinality, Cardinality
<1> QED
  BY <1>2, <1>3, FS_CardinalityType, FS_EmptySet

(* The order of the tiers.                                                 *)
LEMMA HigherTiers ==
  ASSUME NEW t \in Severities \union {P!Empty}, NEW u \in Severities \union {P!Empty},
         P!TierRank(t) >= P!TierRank(u)
  PROVE  /\ u = "CRITICAL" => t = "CRITICAL"
         /\ u = "HIGH" => t \in {"HIGH", "CRITICAL"}
         /\ u = "MEDIUM" => t \in {"MEDIUM", "HIGH", "CRITICAL"}
         /\ u = "LOW" => t \in {"LOW", "MEDIUM", "HIGH", "CRITICAL"}
BY Ranks DEF Severities

(* What counts in truth counts, under its tier or a higher one.            *)
LEMMA CountedStays ==
  ASSUME NEW deps, NEW truth, Mildly(deps, truth),
         NEW p \in PairsOf(truth)
  PROVE  /\ p \in PairsOf(deps)
         /\ P!FinalTier(deps[p[1]], p[2]) \in Severities \union {P!Empty}
         /\ P!FinalTier(truth[p[1]], p[2]) \in Severities \union {P!Empty}
         /\ P!TierRank(P!FinalTier(deps[p[1]], p[2])) >= P!TierRank(P!FinalTier(truth[p[1]], p[2]))
<1>1. PICK m \in DOMAIN truth : \E v \in truth[m].vulns : p = <<m, v>>
  BY DEF PairsOf
<1>2. PICK v \in truth[m].vulns : p = <<m, v>>
  BY <1>1
<1>3. Milder(deps[m], truth[m]) /\ IsScored(deps[m]) /\ m \in DOMAIN deps
  BY DEF Mildly
<1>4. v \in deps[m].vulns /\ v \in Findable
  BY <1>3 DEF Milder, Alike, IsScored
<1>5. P!TestOnlyConfirmed(deps[m]) => P!TestOnlyConfirmed(truth[m])
  BY <1>3 DEF Milder
<1>6. p[1] = m /\ p[2] = v
  BY <1>2
<1>7. P!TierRank(P!FinalTier(deps[m], v)) >= P!TierRank(P!FinalTier(truth[m], v))
  BY <1>4, <1>5, DiscountsLower
<1>8. /\ P!FinalTier(deps[m], v) \in Severities \union {P!Empty}
      /\ P!FinalTier(truth[m], v) \in Severities \union {P!Empty}
  BY <1>4, FinalTierIsTier
<1>9. <<m, v>> \in PairsOf(deps)
  BY <1>3, <1>4 DEF PairsOf
<1> QED
  BY <1>2, <1>6, <1>7, <1>8, <1>9

LEMMA SeverityIsNotLower ==
  ASSUME NEW deps, NEW truth, Mildly(deps, truth),
         IsFiniteSet(PairsOf(deps)), IsFiniteSet(PairsOf(truth))
  PROVE  P!SeverityAdjusted(deps) >= P!SeverityAdjusted(truth)
<1> DEFINE D(t) == P!Counted(deps, t)
           T(t) == P!Counted(truth, t)
<1>1. \A t : \A p \in T(t) : p \in PairsOf(truth) /\ P!FinalTier(truth[p[1]], p[2]) = t
  BY DEF P!Counted, PairsOf
<1>2. \A p \in PairsOf(deps) : p \in D(P!FinalTier(deps[p[1]], p[2]))
  BY DEF P!Counted, PairsOf
<1> HIDE DEF D, T
<1>3. \A p \in T("CRITICAL") : p \in D("CRITICAL")
  BY <1>1, <1>2, CountedStays, HigherTiers
<1>4. \A p \in T("HIGH") : p \in D("HIGH") \/ p \in D("CRITICAL")
  BY <1>1, <1>2, CountedStays, HigherTiers
<1>5. \A p \in T("MEDIUM") : p \in D("MEDIUM") \/ p \in D("HIGH") \/ p \in D("CRITICAL")
  BY <1>1, <1>2, CountedStays, HigherTiers
<1>6. \A p \in T("LOW") :
        p \in D("LOW") \/ p \in D("MEDIUM") \/ p \in D("HIGH") \/ p \in D("CRITICAL")
  BY <1>1, <1>2, CountedStays, HigherTiers
<1>7. PICK dc, dh, dm, dl \in Nat :
        /\ dc = P!Cardinality(D("CRITICAL")) /\ dh = P!Cardinality(D("HIGH"))
        /\ dm = P!Cardinality(D("MEDIUM")) /\ dl = P!Cardinality(D("LOW"))
  BY CountedIsANumber DEF D
<1>8. PICK tc, th, tm, tl \in Nat :
        /\ tc = P!Cardinality(T("CRITICAL")) /\ th = P!Cardinality(T("HIGH"))
        /\ tm = P!Cardinality(T("MEDIUM")) /\ tl = P!Cardinality(T("LOW"))
  BY CountedIsANumber DEF T
<1>9. /\ dc > 0 <=> D("CRITICAL") # {}
      /\ dh > 0 <=> D("HIGH") # {}
      /\ dm > 0 <=> D("MEDIUM") # {}
      /\ dl > 0 <=> D("LOW") # {}
  BY <1>7, CountedIsANumber DEF D
<1>10. /\ tc > 0 <=> T("CRITICAL") # {}
       /\ th > 0 <=> T("HIGH") # {}
       /\ tm > 0 <=> T("MEDIUM") # {}
       /\ tl > 0 <=> T("LOW") # {}
  BY <1>8, CountedIsANumber DEF T
<1>11. dc = 0 => dh >= th
  <2> SUFFICES ASSUME dc = 0 PROVE dh >= th
    OBVIOUS
  <2>1. D("CRITICAL") = {}
    BY <1>9
  <2>2. T("HIGH") \subseteq D("HIGH")
    BY <1>4, <2>1
  <2>3. IsFiniteSet(D("HIGH"))
    BY CountedIsANumber DEF D
  <2>4. Cardinality(T("HIGH")) <= Cardinality(D("HIGH"))
    BY <2>2, <2>3, FS_Subset
  <2>5. /\ P!Cardinality(T("HIGH")) = Cardinality(T("HIGH"))
        /\ P!Cardinality(D("HIGH")) = Cardinality(D("HIGH"))
    BY DEF P!Cardinality, Cardinality
  <2> QED
    BY <1>7, <1>8, <2>4, <2>5
<1>12. /\ tc > 0 => dc > 0
       /\ th > 0 => dh > 0 \/ dc > 0
       /\ tm > 0 => dm > 0 \/ dh > 0 \/ dc > 0
       /\ tl > 0 => dl > 0 \/ dm > 0 \/ dh > 0 \/ dc > 0
  BY <1>3, <1>4, <1>5, <1>6, <1>9, <1>10
<1>13. P!SeverityAdjusted(deps) =
         IF dc > 0 THEN 95 ELSE IF dh >= 3 THEN 85 ELSE IF dh > 0 THEN 70
         ELSE IF dm > 0 THEN 40 ELSE IF dl > 0 THEN 10 ELSE 0
  BY <1>7 DEF P!SeverityAdjusted, D
<1>14. P!SeverityAdjusted(truth) =
         IF tc > 0 THEN 95 ELSE IF th >= 3 THEN 85 ELSE IF th > 0 THEN 70
         ELSE IF tm > 0 THEN 40 ELSE IF tl > 0 THEN 10 ELSE 0
  BY <1>8 DEF P!SeverityAdjusted, T
<1> QED
  BY <1>11, <1>12, <1>13, <1>14

(* What can affect the build.                                              *)
LEMMA BuiltStays ==
  ASSUME NEW deps, NEW truth, Mildly(deps, truth)
  PROVE  P!Built(truth) \subseteq P!Built(deps)
BY DEF Mildly, Milder, P!Built

LEMMA DirectFloorIsNotLower ==
  ASSUME NEW deps, NEW truth, NEW ms, NEW ns, ns \subseteq ms,
         \A m \in ns : deps[m].direct = truth[m].direct
  PROVE  P!DirectFloor(deps, ms) >= P!DirectFloor(truth, ns)
<1> DEFINE D == {0} \union {IF deps[m].direct THEN 60 ELSE 51 : m \in ms}
           T == {0} \union {IF truth[m].direct THEN 60 ELSE 51 : m \in ns}
<1>1. PICK n \in Nat : n = 60
  OBVIOUS
<1>2. T \subseteq D /\ T # {}
  OBVIOUS
<1>3. \A x \in D : x \in Nat /\ x <= n
  BY <1>1
<1> HIDE DEF D, T
<1>4. P!Max(T) <= P!Max(D) /\ P!Max(T) \in Nat /\ P!Max(D) \in Nat
  BY <1>2, <1>3, GreaterWithMore
<1>5. P!DirectFloor(deps, ms) = P!Max(D) /\ P!DirectFloor(truth, ns) = P!Max(T)
  BY DEF P!DirectFloor, D, T
<1> QED
  BY <1>4, <1>5

LEMMA ArchivedIsNotLower ==
  ASSUME NEW deps, NEW truth, Mildly(deps, truth)
  PROVE  P!ArchivedFloor(deps) >= P!ArchivedFloor(truth)
<1> DEFINE D == {m \in P!Built(deps) : P!Archived(deps[m])}
           T == {m \in P!Built(truth) : P!Archived(truth[m])}
<1>1. \A m \in T : Alike(deps[m], truth[m])
  BY DEF Mildly, Milder, P!Built
<1>2. T \subseteq D /\ \A m \in T : deps[m].direct = truth[m].direct
  BY <1>1, BuiltStays DEF Alike, P!Archived
<1> HIDE DEF D, T
<1>3. P!DirectFloor(deps, D) >= P!DirectFloor(truth, T)
  BY <1>2, DirectFloorIsNotLower
<1> QED
  BY <1>3 DEF P!ArchivedFloor, D, T

LEMMA IntegrityIsNotLower ==
  ASSUME NEW deps, NEW truth, Mildly(deps, truth), NEW mismatch
  PROVE  P!IntegrityFloor(deps, mismatch) >= P!IntegrityFloor(truth, mismatch)
<1> DEFINE D == {m \in DOMAIN deps : ~P!TestOnlyConfirmed(deps[m]) /\ deps[m].replace = "HIGH"}
           T == {m \in DOMAIN truth : ~P!TestOnlyConfirmed(truth[m]) /\ truth[m].replace = "HIGH"}
<1>1. T \subseteq D /\ \A m \in T : deps[m].direct = truth[m].direct
  BY DEF Mildly, Milder, Alike
<1> HIDE DEF D, T
<1>2. P!DirectFloor(deps, D) >= P!DirectFloor(truth, T)
  BY <1>1, DirectFloorIsNotLower
<1> QED
  BY <1>2 DEF P!IntegrityFloor, D, T

LEMMA CVEIsNotLower ==
  ASSUME NEW deps, NEW truth, Mildly(deps, truth)
  PROVE  P!CVEFloor(deps) >= P!CVEFloor(truth)
<1> DEFINE D == {0} \union UNION {{P!FloorOf(v) : v \in deps[m].vulns} :
                                  m \in {m \in DOMAIN deps : ~P!TestOnlyConfirmed(deps[m])}}
           T == {0} \union UNION {{P!FloorOf(v) : v \in truth[m].vulns} :
                                  m \in {m \in DOMAIN truth : ~P!TestOnlyConfirmed(truth[m])}}
<1>1. PICK n \in Nat : n = 60
  OBVIOUS
<1>2. \A m \in DOMAIN truth :
        /\ m \in DOMAIN deps /\ deps[m].vulns = truth[m].vulns
        /\ ~P!TestOnlyConfirmed(truth[m]) => ~P!TestOnlyConfirmed(deps[m])
  BY DEF Mildly, Milder, Alike
<1>3. T \subseteq D /\ T # {}
  BY <1>2
<1>4. \A v : P!FloorOf(v) \in Nat /\ P!FloorOf(v) <= n
  BY <1>1 DEF P!FloorOf
<1>5. \A x \in D : x \in Nat /\ x <= n
  BY <1>4
<1> HIDE DEF D, T
<1>6. P!Max(T) <= P!Max(D) /\ P!Max(T) \in Nat /\ P!Max(D) \in Nat
  BY <1>3, <1>5, GreaterWithMore
<1> QED
  BY <1>6 DEF P!CVEFloor, D, T

(* Of fewer than 20 scores the 95th percentile is the highest.             *)
LEMMA PercentileIsHighest ==
  ASSUME NEW deps, NEW scanned, IsFiniteSet(DOMAIN deps), Cardinality(DOMAIN deps) < 20,
         \A m \in DOMAIN deps : /\ P!RiskScore(deps[m], scanned) \in Nat
                                /\ P!RiskScore(deps[m], scanned) <= 100
  PROVE  /\ P!P95(deps, scanned) \in Nat
         /\ P!Built(deps) = {} => P!P95(deps, scanned) = 0
         /\ P!Built(deps) # {} =>
              \E m \in P!Built(deps) : P!P95(deps, scanned) = P!RiskScore(deps[m], scanned)
         /\ \A m \in P!Built(deps) : P!RiskScore(deps[m], scanned) <= P!P95(deps, scanned)
<1> DEFINE risk(m) == P!RiskScore(deps[m], scanned)
           scores == {<<m, risk(m)>> : m \in P!Built(deps)}
           upTo(x) == {q \in scores : q[2] <= x}
           n == P!Cardinality(scores)
           rank == (95 * n + 99) \div 100
           ranked == {p \in scores : P!Cardinality(upTo(p[2])) >= rank}
           values == {p[2] : p \in ranked}
<1>1. P!Built(deps) \subseteq DOMAIN deps
  BY DEF P!Built
<1>2. \A q \in scores : q[2] \in Nat /\ q[2] <= 100
  BY <1>1
<1>3. IsFiniteSet(scores) /\ n = Cardinality(scores) /\ n \in Nat /\ n < 20
  <2> DEFINE pair == [m \in P!Built(deps) |-> <<m, risk(m)>>]
  <2>1. pair \in Surjection(P!Built(deps), scores)
    BY DEF Surjection
  <2> HIDE DEF scores, pair, risk
  <2>2. IsFiniteSet(P!Built(deps)) /\ Cardinality(P!Built(deps)) <= Cardinality(DOMAIN deps)
    BY <1>1, FS_Subset
  <2>3. IsFiniteSet(scores) /\ Cardinality(scores) <= Cardinality(P!Built(deps))
    BY <2>1, <2>2, FS_Surjection
  <2>4. n = Cardinality(scores)
    BY DEF P!Cardinality, Cardinality
  <2>5. /\ Cardinality(scores) \in Nat /\ Cardinality(P!Built(deps)) \in Nat
        /\ Cardinality(DOMAIN deps) \in Nat
    BY <2>2, <2>3, FS_CardinalityType
  <2> HIDE DEF n
  <2> QED
    BY <2>2, <2>3, <2>4, <2>5
<1>4. P!P95(deps, scanned) = IF scores = {} THEN 0 ELSE P!Min(values)
  BY DEF P!P95
<1>5. scores = {} <=> P!Built(deps) = {}
  OBVIOUS
<1>6. \A x : upTo(x) \subseteq scores
  OBVIOUS
<1>7. \A x : P!Cardinality(upTo(x)) >= rank <=> upTo(x) = scores
  <2> SUFFICES ASSUME NEW x PROVE P!Cardinality(upTo(x)) >= rank <=> upTo(x) = scores
    OBVIOUS
  <2> HIDE DEF n
  <2>1. rank = n
    BY <1>3
  <2> HIDE DEF rank
  <2>2. PICK S : S = upTo(x)
    OBVIOUS
  <2>3. P!Cardinality(S) = Cardinality(S)
    BY DEF P!Cardinality, Cardinality
  <2>4. S \subseteq scores
    BY <2>2
  <2> HIDE DEF scores, upTo
  <2>5. /\ IsFiniteSet(S) /\ Cardinality(S) <= Cardinality(scores)
        /\ Cardinality(scores) = Cardinality(S) => scores = S
    BY <1>3, <2>4, FS_Subset
  <2>6. Cardinality(S) \in Nat
    BY <2>5, FS_CardinalityType
  <2>7. P!Cardinality(S) >= rank <=> S = scores
    BY <1>3, <2>1, <2>3, <2>5, <2>6
  <2> QED
    BY <2>2, <2>7
<1>8. ASSUME scores # {}
      PROVE  P!Min(values) \in values /\ P!Min(values) \in Nat
  <2> DEFINE all == {q[2] : q \in scores}
  <2>1. PICK h \in Nat : h = 100
    OBVIOUS
  <2>2. all # {} /\ \A x \in all : x \in Nat /\ x <= h
    BY <1>2, <1>8, <2>1
  <2> HIDE DEF all
  <2>3. P!Max(all) \in all /\ \A x \in all : x <= P!Max(all)
    BY <2>2, Greatest
  <2> USE DEF all
  <2>4. PICK q \in scores : q[2] = P!Max(all)
    BY <2>3
  <2>5. upTo(q[2]) = scores
    BY <2>3, <2>4
  <2>6. q \in ranked
    BY <1>7, <2>5
  <2>7. values # {}
    BY <2>6
  <2>8. \A x \in values : x \in Nat
    BY <1>2
  <2> HIDE DEF values
  <2> QED
    BY <2>7, <2>8, LeastIsMin
<1>9. ASSUME scores # {}
      PROVE  /\ \E m \in P!Built(deps) : P!Min(values) = risk(m)
             /\ \A m \in P!Built(deps) : risk(m) <= P!Min(values)
  <2>1. PICK p \in ranked : P!Min(values) = p[2]
    BY <1>8, <1>9
  <2>2. upTo(p[2]) = scores
    BY <1>7, <2>1
  <2>3. \A q \in scores : q[2] <= P!Min(values)
    BY <2>1, <2>2
  <2>4. p \in scores
    BY <2>1
  <2>5. PICK m \in P!Built(deps) : p = <<m, risk(m)>>
    BY <2>4
  <2> HIDE DEF values, ranked, rank
  <2>6. P!Min(values) = risk(m)
    BY <2>1, <2>5
  <2>7. ASSUME NEW k \in P!Built(deps) PROVE risk(k) <= P!Min(values)
    <3>1. <<k, risk(k)>> \in scores
      OBVIOUS
    <3> HIDE DEF scores, risk
    <3> QED
      BY <2>3, <3>1
  <2> QED
    BY <2>6, <2>7
<1> HIDE DEF values
<1> QED
  BY <1>4, <1>5, <1>8, <1>9

(* The candidates, with the verdicts that were given and with the true     *)
(* ones.                                                                   *)
LEMMA CandidatesAreNotLower ==
  ASSUME NEW deps, NEW truth, Mildly(deps, truth), NEW scanned, NEW mismatch
  PROVE  LET given == P!Candidates(deps, scanned, mismatch)
             real == P!Candidates(truth, scanned, mismatch)
         IN  \A i \in DOMAIN given :
               (given[i].name = "p95_dep_risk" => Cardinality(DOMAIN deps) < 20)
                 => given[i].score >= real[i].score
<1>1. /\ IsFiniteSet(DOMAIN deps) /\ DOMAIN truth = DOMAIN deps
      /\ \A m \in DOMAIN deps : /\ IsFiniteSet(deps[m].vulns)
                               /\ truth[m].vulns = deps[m].vulns
  BY NamesAssumption, FS_Subset DEF Mildly, Milder, Alike, IsScored
<1>2. P!SeverityAdjusted(deps) >= P!SeverityAdjusted(truth)
  <2>1. IsFiniteSet(PairsOf(deps)) /\ IsFiniteSet(PairsOf(truth))
    BY <1>1, PairsAreFinite
  <2> QED
    BY <2>1, SeverityIsNotLower
<1>3. /\ P!ArchivedFloor(deps) >= P!ArchivedFloor(truth)
      /\ P!CVEFloor(deps) >= P!CVEFloor(truth)
      /\ P!IntegrityFloor(deps, mismatch) >= P!IntegrityFloor(truth, mismatch)
  BY ArchivedIsNotLower, CVEIsNotLower, IntegrityIsNotLower
<1>4. ASSUME Cardinality(DOMAIN deps) < 20
      PROVE  P!P95(deps, scanned) >= P!P95(truth, scanned)
  <2>1. \A m \in DOMAIN deps :
          /\ P!RiskScore(truth[m], scanned) = P!RiskScore(deps[m], scanned)
          /\ P!RiskScore(deps[m], scanned) \in Nat /\ P!RiskScore(deps[m], scanned) <= 100
    BY RiskIsAlike, RiskIsBounded DEF Mildly, Milder
  <2>2. /\ P!P95(deps, scanned) \in Nat
        /\ \A m \in P!Built(deps) : P!RiskScore(deps[m], scanned) <= P!P95(deps, scanned)
    BY <1>1, <1>4, <2>1, PercentileIsHighest
  <2>3. /\ P!P95(truth, scanned) \in Nat
        /\ P!Built(truth) = {} => P!P95(truth, scanned) = 0
        /\ P!Built(truth) # {} =>
             \E m \in P!Built(truth) : P!P95(truth, scanned) = P!RiskScore(truth[m], scanned)
    BY <1>1, <1>4, <2>1, PercentileIsHighest
  <2>4. P!Built(truth) \subseteq P!Built(deps) /\ P!Built(deps) \subseteq DOMAIN deps
    BY BuiltStays DEF P!Built
  <2> QED
    BY <2>1, <2>2, <2>3, <2>4
<1> QED
  BY <1>2, <1>3, <1>4 DEF P!Candidates

(* Every time bomb of the truth is named.                                  *)
LEMMA BombsAreNamed ==
  ASSUME NEW deps, NEW truth, Mildly(deps, truth)
  PROVE  P!TimeBombs(truth) \subseteq P!TimeBombs(deps)
<1>1. \A m \in P!Built(truth) :
        /\ m \in P!Built(deps) /\ deps[m].vulns = truth[m].vulns
        /\ P!Archived(truth[m]) => P!Archived(deps[m])
  BY BuiltStays DEF Mildly, Milder, Alike, P!Built, P!Archived
<1> QED
  BY <1>1 DEF P!TimeBombs

(* A policy is as strict with deps of which no rule is broken less often.  *)
LEMMA BreaksDecide ==
  ASSUME NEW deps, NEW truth, DOMAIN truth = DOMAIN deps, NEW p,
         \A m \in DOMAIN truth :
           P!Breaks(p, Evaluated(truth), m) \subseteq P!Breaks(p, Evaluated(deps), m)
  PROVE  P!Evaluate(p, Evaluated(truth)) \subseteq P!Evaluate(p, Evaluated(deps))
<1> DEFINE given == Evaluated(deps)
           real == Evaluated(truth)
           broken(in, r) == {m \in DOMAIN in.deps : r \in P!Breaks(p, in, m)}
<1>1. /\ given.deps = deps /\ real.deps = truth /\ given.typosquats = real.typosquats
      /\ given.ci = real.ci /\ given.redirects = real.redirects /\ given.gosum = real.gosum
      /\ given.grade = real.grade /\ given.scored = real.scored
  BY DEF Evaluated
<1>2. \A m \in DOMAIN truth : P!Breaks(p, real, m) \subseteq P!Breaks(p, given, m)
  OBVIOUS
<1> HIDE DEF given, real
<1>3. \A r : broken(real, r) \subseteq broken(given, r)
  BY <1>1, <1>2
<1>4. UNION {P!Breaks(p, real, m) : m \in DOMAIN real.deps}
        \subseteq UNION {P!Breaks(p, given, m) : m \in DOMAIN given.deps}
  BY <1>1, <1>2
<1>5. \A r : P!Errors(r, broken(real, r)) \subseteq P!Errors(r, broken(given, r))
  BY <1>3 DEF P!Errors
<1>6. /\ P!CIViolations(p, real) = P!CIViolations(p, given)
      /\ P!IntegrityViolations(p, real) = P!IntegrityViolations(p, given)
  BY <1>1 DEF P!CIViolations, P!IntegrityViolations
<1> DEFINE found(in) == UNION {P!Errors(r, broken(in, r)) :
                                 r \in UNION {P!Breaks(p, in, m) : m \in DOMAIN in.deps}}
<1>7. found(real) \subseteq found(given)
  <2> SUFFICES ASSUME NEW v \in found(real) PROVE v \in found(given)
    OBVIOUS
  <2>1. PICK r \in UNION {P!Breaks(p, real, m) : m \in DOMAIN real.deps} :
          v \in P!Errors(r, broken(real, r))
    OBVIOUS
  <2>2. r \in UNION {P!Breaks(p, given, m) : m \in DOMAIN given.deps}
    BY <1>4, <2>1
  <2>3. v \in P!Errors(r, broken(given, r))
    BY <1>5, <2>1
  <2> QED
    BY <2>2, <2>3
<1>8. P!GradeViolations(p, real.grade) = P!GradeViolations(p, given.grade)
  BY <1>1
<1>9. \A in : P!Evaluate(p, in) =
         P!GradeViolations(p, in.grade)
           \union (IF in.scored
                   THEN found(in) \union P!CIViolations(p, in)
                          \union P!IntegrityViolations(p, in)
                   ELSE {})
  BY DEF P!Evaluate
<1> HIDE DEF found
<1>10. P!Evaluate(p, real) \subseteq P!Evaluate(p, given)
  BY <1>1, <1>6, <1>7, <1>8, <1>9
<1> QED
  BY <1>10 DEF given, real

(* A policy that the truth breaks is broken.                               *)
LEMMA PoliciesAreStrict ==
  ASSUME NEW deps, NEW truth, Mildly(deps, truth), NEW p
  PROVE  P!Evaluate(p, Evaluated(truth)) \subseteq P!Evaluate(p, Evaluated(deps))
<1> DEFINE given == Evaluated(deps)
           real == Evaluated(truth)
<1>1. /\ given.deps = deps /\ real.deps = truth /\ given.typosquats = real.typosquats
  BY DEF Evaluated
<1> HIDE DEF given, real
<1>2. DOMAIN truth = DOMAIN deps
  BY DEF Mildly
<1>3. \A m \in DOMAIN truth : P!Breaks(p, real, m) \subseteq P!Breaks(p, given, m)
  <2> SUFFICES ASSUME NEW m \in DOMAIN truth
               PROVE  P!Breaks(p, real, m) \subseteq P!Breaks(p, given, m)
    OBVIOUS
  <2> DEFINE d == deps[m]
             e == truth[m]
  <2>1. Milder(d, e)
    BY DEF Mildly
  <2>2. given.deps[m] = d /\ real.deps[m] = e
    BY <1>1
  <2> HIDE DEF d, e
  <2>3. /\ d.vulns = e.vulns /\ d.direct = e.direct /\ d.maintainer = e.maintainer
        /\ d.pseudo = e.pseudo /\ d.maint = e.maint
        /\ P!MaintKnown(d) = P!MaintKnown(e) /\ P!Archived(d) = P!Archived(e)
        /\ P!MonthsInactive(d) = P!MonthsInactive(e)
    BY <2>1 DEF Milder, Alike, P!MaintKnown, P!Archived, P!MonthsInactive
  <2>4. /\ ~P!TestOnlyConfirmed(e) => ~P!TestOnlyConfirmed(d)
        /\ ~P!OutsideBuildConfirmed(e) => ~P!OutsideBuildConfirmed(d)
    BY <2>1 DEF Milder
  <2> QED
    BY <1>1, <2>2, <2>3, <2>4 DEF P!Breaks
<1> QED
  BY <1>2, <1>3, BreaksDecide DEF given, real

(* No mistaken or missing verdict makes a module look better: every        *)
(* finding counts at least as much as with the verdicts of a complete      *)
(* listing, every candidate for the headline is at least as high, every    *)
(* time bomb is named and every policy is as strict (the discounts for     *)
(* test-only code and for code outside the build, risk.go, timebombs.go    *)
(* and evaluate.go).                                                       *)
THEOREM BlindVerdictsNeverAbsolve == Spec => []BlindNeverAbsolves
<1>1. ResolverInv /\ FindingsInv => BlindNeverAbsolves
  <2> SUFFICES ASSUME ResolverInv, FindingsInv, pc = "done" PROVE BlindNeverAbsolves
    BY DEF BlindNeverAbsolves
  <2> DEFINE deps == Deps(vulns, archived)
             truth == TrueDeps(vulns, archived)
             given == P!Candidates(deps, TRUE, FALSE)
             real == P!Candidates(truth, TRUE, FALSE)
  <2>1. Mildly(deps, truth)
    BY TruthDiscountsMore
  <2>2. DOMAIN deps = DOMAIN graph.deps /\ \A m \in DOMAIN deps : deps[m].vulns = vulns[m]
    BY DEF Deps, Scored
  <2> HIDE DEF deps, truth
  <2>3. \A m \in DOMAIN deps : \A v \in vulns[m] :
          P!TierRank(P!FinalTier(deps[m], v)) >= P!TierRank(P!FinalTier(truth[m], v))
    BY <2>1, <2>2, DiscountsLower DEF Mildly, Milder, IsScored
  <2>4. \A i \in DOMAIN given :
          (given[i].name = "p95_dep_risk" => Cardinality(DOMAIN deps) < 20)
            => given[i].score >= real[i].score
    BY <2>1, CandidatesAreNotLower, Zenon
  <2>5. P!TimeBombs(truth) \subseteq P!TimeBombs(deps)
    BY <2>1, BombsAreNamed
  <2>6. \A p \in Policies :
          P!Evaluate(p, Evaluated(truth)) \subseteq P!Evaluate(p, Evaluated(deps))
    BY <2>1, PoliciesAreStrict
  <2> QED
    BY <2>3, <2>4, <2>5, <2>6, Zenon DEF BlindNeverAbsolves, deps, truth
<1> QED
  BY <1>1, JudgementInvariant, PTL

-----------------------------------------------------------------------------
(* Sums, taken one element at a time in an order that a choice gives.      *)

(* A sum, as MapThenSumSet computes it.                                    *)
IsSum(g, S, f) ==
  g = [s \in SUBSET S |-> IF s = {} THEN 0
                          ELSE LET x == CHOOSE x \in s : TRUE IN f[x] + g[s \ {x}]]

(* One exists: of sets of one more element at a time.                      *)
LEMMA SumsExist ==
  ASSUME NEW S, IsFiniteSet(S), NEW f
  PROVE  \E g : IsSum(g, S, f)
<1> DEFINE Upto(n) == {s \in SUBSET S : Cardinality(s) <= n}
           Next1(g, s) == IF s = {} THEN 0
                          ELSE LET x == CHOOSE x \in s : TRUE IN f[x] + g[s \ {x}]
           Sum(g, n) == g = [s \in Upto(n) |-> Next1(g, s)]
           T == {n \in Nat : \E g : Sum(g, n)}
<1>1. \A s \in SUBSET S : /\ IsFiniteSet(s) /\ Cardinality(s) \in Nat
                          /\ \A x \in s : Cardinality(s \ {x}) = Cardinality(s) - 1
                          /\ Cardinality(s) = 0 => s = {}
                          /\ Cardinality(s) <= Cardinality(S)
  BY FS_Subset, FS_CardinalityType, FS_RemoveElement, FS_EmptySet
<1>2. 0 \in T
  <2> DEFINE g == [s \in Upto(0) |-> 0]
  <2>1. \A s \in Upto(0) : s = {}
    BY <1>1
  <2>2. g = [s \in Upto(0) |-> Next1(g, s)]
    BY <2>1
  <2> QED
    BY <2>2
<1>3. ASSUME NEW n \in T PROVE n + 1 \in T
  <2>1. PICK g : Sum(g, n)
    OBVIOUS
  <2>2. n \in Nat
    OBVIOUS
  <2> DEFINE h == [s \in Upto(n + 1) |-> Next1(g, s)]
  <2>3. \A s \in Upto(n) : s \in Upto(n + 1) /\ h[s] = g[s]
    <3> SUFFICES ASSUME NEW s \in Upto(n) PROVE s \in Upto(n + 1) /\ h[s] = g[s]
      OBVIOUS
    <3>1. s \in Upto(n + 1)
      BY <1>1, <2>2
    <3>2. h[s] = Next1(g, s)
      BY <3>1
    <3>3. g[s] = Next1(g, s)
      <4> HIDE DEF Next1, Upto
      <4> QED
        BY <2>1
    <3> QED
      BY <3>1, <3>2, <3>3
  <2>4. ASSUME NEW s \in Upto(n + 1) PROVE Next1(g, s) = Next1(h, s)
    <3>1. CASE s = {}
      BY <3>1
    <3>2. CASE s # {}
      <4>1. PICK x : x = CHOOSE y \in s : TRUE
        OBVIOUS
      <4>2. x \in s
        BY <3>2, <4>1
      <4>3. s \ {x} \in Upto(n)
        BY <1>1, <2>2, <4>2
      <4>4. g[s \ {x}] = h[s \ {x}]
        BY <2>3, <4>3
      <4> HIDE DEF h
      <4> QED
        BY <3>2, <4>1, <4>4
    <3> QED
      BY <3>1, <3>2
  <2>5. h = [s \in Upto(n + 1) |-> Next1(h, s)]
    <3>1. \A s \in Upto(n + 1) : h[s] = Next1(h, s)
      <4> HIDE DEF Next1, Upto
      <4> QED
        BY <2>4
    <3>2. h = [s \in Upto(n + 1) |-> h[s]]
      OBVIOUS
    <3> HIDE DEF h, Next1, Upto
    <3> QED
      BY <3>1, <3>2
  <2>6. n + 1 \in Nat
    BY <2>2
  <2>7. Sum(h, n + 1)
    BY <2>5
  <2> HIDE DEF h, Sum
  <2> QED
    BY <2>6, <2>7
<1>4. T = Nat
  <2> HIDE DEF T
  <2>1. T \in SUBSET Nat
    BY DEF T
  <2> QED
    BY <1>2, <1>3, <2>1, Induction
<1>5. Cardinality(S) \in Nat
  BY <1>1
<1>6. PICK g : Sum(g, Cardinality(S))
  BY <1>4, <1>5
<1>7. Upto(Cardinality(S)) = SUBSET S
  BY <1>1
<1> HIDE DEF Upto
<1> QED
  BY <1>6, <1>7 DEF IsSum

(* Whichever element is taken first.                                       *)
IsTotal(h, D, a) ==
  /\ h[{}] = 0
  /\ \A E \in SUBSET D : h[E] \in Nat /\ \A m \in E : h[E] = a[m] + h[E \ {m}]

(* A sum as it is computed is one.                                         *)
LEMMA SumsAreTotals ==
  ASSUME NEW S, IsFiniteSet(S), NEW f, \A x \in S : f[x] \in Nat, NEW g, IsSum(g, S, f)
  PROVE  IsTotal(g, S, f)
<1> DEFINE Fine(s) == g[s] \in Nat /\ \A y \in s : g[s] = f[y] + g[s \ {y}]
           T == {n \in Nat : \A s \in SUBSET S : Cardinality(s) <= n => Fine(s)}
<1>1. \A s \in SUBSET S : /\ IsFiniteSet(s) /\ Cardinality(s) \in Nat
                          /\ \A x \in s : Cardinality(s \ {x}) = Cardinality(s) - 1
                          /\ Cardinality(s) = 0 <=> s = {}
  BY FS_Subset, FS_CardinalityType, FS_RemoveElement, FS_EmptySet
<1>2. \A s \in SUBSET S :
        g[s] = IF s = {} THEN 0 ELSE LET x == CHOOSE x \in s : TRUE IN f[x] + g[s \ {x}]
  BY DEF IsSum
<1>3. g[{}] = 0
  BY <1>2
<1>4. 0 \in T
  BY <1>1, <1>3
<1>5. ASSUME NEW n \in T PROVE n + 1 \in T
  <2>1. n \in Nat /\ \A t \in SUBSET S : Cardinality(t) <= n => Fine(t)
    OBVIOUS
  <2> SUFFICES ASSUME NEW s \in SUBSET S, Cardinality(s) = n + 1 PROVE Fine(s)
    <3> HIDE DEF Fine
    <3> QED
      BY <1>1, <2>1
  <2>2. s # {}
    BY <1>1, <2>1
  <2>3. PICK x : x = CHOOSE y \in s : TRUE
    OBVIOUS
  <2>4. x \in s
    BY <2>2, <2>3
  <2>5. g[s] = f[x] + g[s \ {x}]
    BY <1>2, <2>2, <2>3
  <2>6. \A y \in s : Fine(s \ {y})
    <3> SUFFICES ASSUME NEW y \in s PROVE Fine(s \ {y})
      OBVIOUS
    <3>1. s \ {y} \in SUBSET S /\ Cardinality(s \ {y}) = n
      BY <1>1, <2>1
    <3> HIDE DEF Fine
    <3> QED
      BY <2>1, <3>1
  <2>7. g[s] \in Nat
    <3>1. g[s \ {x}] \in Nat
      BY <2>4, <2>6
    <3>2. f[x] \in Nat
      BY <2>4
    <3> QED
      BY <2>5, <3>1, <3>2
  <2>8. ASSUME NEW y \in s, y # x PROVE g[s] = f[y] + g[s \ {y}]
    <3>1. g[s \ {x}] = f[y] + g[(s \ {x}) \ {y}] /\ g[s \ {y}] = f[x] + g[(s \ {y}) \ {x}]
      BY <2>4, <2>6, <2>8
    <3>2. (s \ {x}) \ {y} = (s \ {y}) \ {x}
      OBVIOUS
    <3> DEFINE u == g[(s \ {x}) \ {y}]
    <3>3. u \in Nat
      <4>1. (s \ {x}) \ {y} \in SUBSET S /\ y \in s \ {x} /\ s \ {x} \in SUBSET S
        BY <2>8
      <4>2. Cardinality((s \ {x}) \ {y}) <= n
        <5>1. Cardinality(s \ {x}) = n
          BY <1>1, <2>1, <2>4
        <5>2. Cardinality((s \ {x}) \ {y}) = n - 1
          BY <1>1, <4>1, <5>1
        <5> QED
          BY <2>1, <5>2
      <4>3. Fine((s \ {x}) \ {y})
        <5> HIDE DEF Fine
        <5> QED
          BY <2>1, <4>1, <4>2
      <4> QED
        BY <4>3
    <3>4. f[x] \in Nat /\ f[y] \in Nat
      BY <2>4
    <3> HIDE DEF u
    <3>5. g[s] = f[x] + (f[y] + u) /\ g[s \ {y}] = f[x] + u
      BY <2>5, <3>1, <3>2 DEF u
    <3> QED
      BY <3>3, <3>4, <3>5
  <2> QED
    BY <2>5, <2>7, <2>8
<1>6. T = Nat
  <2> HIDE DEF T
  <2>1. T \in SUBSET Nat
    BY DEF T
  <2> QED
    BY <1>4, <1>5, <2>1, Induction
<1>7. \A s \in SUBSET S : Fine(s)
  <2> SUFFICES ASSUME NEW s \in SUBSET S PROVE Fine(s)
    OBVIOUS
  <2>1. Cardinality(s) \in T /\ Cardinality(s) <= Cardinality(s)
    BY <1>1, <1>6
  <2> HIDE DEF Fine
  <2> QED
    BY <2>1
<1> QED
  BY <1>3, <1>7 DEF IsTotal

(* The two sums of the mean, over the modules instead of over pairs.       *)
PairsWith(D, r) == {<<m, r[m]>> : m \in D}

(* A sum over the pairs is one over the modules.                           *)
LEMMA PairsAreTotals ==
  ASSUME NEW D, NEW r, NEW f, NEW g, IsTotal(g, PairsWith(D, r), f)
  PROVE  \E h : /\ IsTotal(h, D, [m \in D |-> f[<<m, r[m]>>]])
                /\ h[D] = g[PairsWith(D, r)]
<1> DEFINE h == [E \in SUBSET D |-> g[PairsWith(E, r)]]
           a == [m \in D |-> f[<<m, r[m]>>]]
<1>1. PairsWith({}, r) = {}
  BY DEF PairsWith
<1>2. h[{}] = 0
  BY <1>1 DEF IsTotal
<1>3. ASSUME NEW E \in SUBSET D
      PROVE  h[E] \in Nat /\ \A m \in E : h[E] = a[m] + h[E \ {m}]
  <2>1. PairsWith(E, r) \in SUBSET PairsWith(D, r)
    BY DEF PairsWith
  <2>2. h[E] = g[PairsWith(E, r)]
    OBVIOUS
  <2>3. g[PairsWith(E, r)] \in Nat
    BY <2>1 DEF IsTotal
  <2>4. ASSUME NEW m \in E PROVE h[E] = a[m] + h[E \ {m}]
    <3>1. <<m, r[m]>> \in PairsWith(E, r)
      BY DEF PairsWith
    <3>2. PairsWith(E \ {m}, r) = PairsWith(E, r) \ {<<m, r[m]>>}
      BY DEF PairsWith
    <3>3. g[PairsWith(E, r)] = f[<<m, r[m]>>] + g[PairsWith(E, r) \ {<<m, r[m]>>}]
      BY <2>1, <3>1 DEF IsTotal
    <3>4. a[m] = f[<<m, r[m]>>] /\ h[E \ {m}] = g[PairsWith(E \ {m}, r)]
      OBVIOUS
    <3> HIDE DEF h, a
    <3> QED
      BY <2>2, <3>2, <3>3, <3>4
  <2> HIDE DEF h, a
  <2> QED
    BY <2>2, <2>3, <2>4
<1>4. h[D] = g[PairsWith(D, r)]
  OBVIOUS
<1> HIDE DEF h
<1>5. IsTotal(h, D, a)
  BY <1>2, <1>3 DEF IsTotal
<1> QED
  BY <1>4, <1>5

(* The pairs of a finite graph are finite.                                 *)
LEMMA PairsWithAreFinite ==
  ASSUME NEW D, IsFiniteSet(D), NEW r
  PROVE  IsFiniteSet(PairsWith(D, r))
<1> DEFINE pair == [m \in D |-> <<m, r[m]>>]
<1>1. pair \in Surjection(D, PairsWith(D, r))
  BY DEF Surjection, PairsWith
<1> QED
  BY <1>1, FS_Surjection

(* The sum of the weights.                                                 *)
LEMMA WeightsAreTotals ==
  ASSUME NEW D, IsFiniteSet(D), NEW r \in [D -> Nat]
  PROVE  \E h : /\ IsTotal(h, D, [m \in D |-> 100 + r[m]])
                /\ P!MapThenSumSet(LAMBDA p : 100 + p[2], PairsWith(D, r)) = h[D]
<1> DEFINE S == PairsWith(D, r)
           f == [p \in S |-> 100 + p[2]]
           it == CHOOSE it : it =
                   [s \in SUBSET S |->
                      IF s = {} THEN 0
                      ELSE LET x == CHOOSE x \in s : TRUE IN (100 + x[2]) + it[s \ {x}]]
<1>1. P!MapThenSumSet(LAMBDA p : 100 + p[2], S) = it[S]
  BY DEF P!MapThenSumSet, P!MapThenFoldSet
<1>2. IsFiniteSet(S) /\ \A m \in D : <<m, r[m]>> \in S
  BY PairsWithAreFinite DEF PairsWith
<1>3. \A p \in S : f[p] \in Nat /\ f[p] = 100 + p[2]
  BY DEF PairsWith
<1>4. PICK g : IsSum(g, S, f)
  BY <1>2, SumsExist
<1> DEFINE Part(g1, s) ==
             IF s = {} THEN 0 ELSE LET x == CHOOSE x \in s : TRUE IN (100 + x[2]) + g1[s \ {x}]
           Known1(g1, s) ==
             IF s = {} THEN 0 ELSE LET x == CHOOSE x \in s : TRUE IN f[x] + g1[s \ {x}]
<1>5. \A g1 : IsSum(g1, S, f) <=> g1 = [s \in SUBSET S |-> Part(g1, s)]
  <2> SUFFICES ASSUME NEW g1 PROVE IsSum(g1, S, f) <=> g1 = [s \in SUBSET S |-> Part(g1, s)]
    OBVIOUS
  <2>1. ASSUME NEW s \in SUBSET S PROVE Known1(g1, s) = Part(g1, s)
    <3>1. PICK x : x = CHOOSE y \in s : TRUE
      OBVIOUS
    <3>2. s # {} => f[x] = 100 + x[2]
      BY <1>3, <3>1
    <3> HIDE DEF f
    <3> QED
      BY <3>1, <3>2
  <2>2. IsSum(g1, S, f) <=> g1 = [s \in SUBSET S |-> Known1(g1, s)]
    BY DEF IsSum
  <2> HIDE DEF Known1, Part
  <2>3. [s \in SUBSET S |-> Known1(g1, s)] = [s \in SUBSET S |-> Part(g1, s)]
    BY <2>1
  <2> QED
    BY <2>2, <2>3
<1> HIDE DEF f
<1>6. it = [s \in SUBSET S |-> Part(it, s)]
  <2>1. it = CHOOSE it1 : it1 = [s \in SUBSET S |-> Part(it1, s)]
    OBVIOUS
  <2> HIDE DEF it, Part
  <2>2. g = [s \in SUBSET S |-> Part(g, s)]
    BY <1>4, <1>5, Zenon
  <2> QED
    BY <2>1, <2>2, Zenon
<1>7. IsSum(it, S, f)
  BY <1>5, <1>6
<1> HIDE DEF it
<1>8. IsTotal(it, S, f)
  BY <1>2, <1>3, <1>7, SumsAreTotals
<1> HIDE DEF S
<1>9. PICK h : IsTotal(h, D, [m \in D |-> f[<<m, r[m]>>]]) /\ h[D] = it[S]
  BY <1>8, PairsAreTotals DEF S
<1>10. \A m \in D : f[<<m, r[m]>>] = 100 + r[m]
  BY <1>2, <1>3
<1>11. [m \in D |-> f[<<m, r[m]>>]] = [m \in D |-> 100 + r[m]]
  BY <1>10
<1>12. IsTotal(h, D, [m \in D |-> 100 + r[m]])
  BY <1>9, <1>11
<1> QED
  BY <1>1, <1>9, <1>12 DEF S
(* The sum of the weighted scores.                                         *)
LEMMA ScoresAreTotals ==
  ASSUME NEW D, IsFiniteSet(D), NEW r \in [D -> Nat]
  PROVE  \E h : /\ IsTotal(h, D, [m \in D |-> r[m] * (100 + r[m])])
                /\ P!MapThenSumSet(LAMBDA p : p[2] * (100 + p[2]), PairsWith(D, r)) = h[D]
<1> DEFINE S == PairsWith(D, r)
           f == [p \in S |-> p[2] * (100 + p[2])]
           it == CHOOSE it : it =
                   [s \in SUBSET S |->
                      IF s = {} THEN 0
                      ELSE LET x == CHOOSE x \in s : TRUE
                           IN  x[2] * (100 + x[2]) + it[s \ {x}]]
<1>1. P!MapThenSumSet(LAMBDA p : p[2] * (100 + p[2]), S) = it[S]
  BY DEF P!MapThenSumSet, P!MapThenFoldSet
<1>2. IsFiniteSet(S) /\ \A m \in D : <<m, r[m]>> \in S
  BY PairsWithAreFinite DEF PairsWith
<1>3. \A p \in S : f[p] \in Nat /\ f[p] = p[2] * (100 + p[2])
  BY DEF PairsWith
<1>4. PICK g : IsSum(g, S, f)
  BY <1>2, SumsExist
<1> DEFINE Part(g1, s) ==
             IF s = {} THEN 0
             ELSE LET x == CHOOSE x \in s : TRUE IN x[2] * (100 + x[2]) + g1[s \ {x}]
           Known1(g1, s) ==
             IF s = {} THEN 0 ELSE LET x == CHOOSE x \in s : TRUE IN f[x] + g1[s \ {x}]
<1>5. \A g1 : IsSum(g1, S, f) <=> g1 = [s \in SUBSET S |-> Part(g1, s)]
  <2> SUFFICES ASSUME NEW g1 PROVE IsSum(g1, S, f) <=> g1 = [s \in SUBSET S |-> Part(g1, s)]
    OBVIOUS
  <2>1. ASSUME NEW s \in SUBSET S PROVE Known1(g1, s) = Part(g1, s)
    <3>1. PICK x : x = CHOOSE y \in s : TRUE
      OBVIOUS
    <3>2. s # {} => f[x] = x[2] * (100 + x[2])
      BY <1>3, <3>1
    <3> HIDE DEF f
    <3> QED
      BY <3>1, <3>2
  <2>2. IsSum(g1, S, f) <=> g1 = [s \in SUBSET S |-> Known1(g1, s)]
    BY DEF IsSum
  <2> HIDE DEF Known1, Part
  <2>3. [s \in SUBSET S |-> Known1(g1, s)] = [s \in SUBSET S |-> Part(g1, s)]
    BY <2>1
  <2> QED
    BY <2>2, <2>3
<1> HIDE DEF f
<1>6. it = [s \in SUBSET S |-> Part(it, s)]
  <2>1. it = CHOOSE it1 : it1 = [s \in SUBSET S |-> Part(it1, s)]
    OBVIOUS
  <2> HIDE DEF it, Part
  <2>2. g = [s \in SUBSET S |-> Part(g, s)]
    BY <1>4, <1>5, Zenon
  <2> QED
    BY <2>1, <2>2, Zenon
<1>7. IsSum(it, S, f)
  BY <1>5, <1>6
<1> HIDE DEF it
<1>8. IsTotal(it, S, f)
  BY <1>2, <1>3, <1>7, SumsAreTotals
<1> HIDE DEF S
<1>9. PICK h : IsTotal(h, D, [m \in D |-> f[<<m, r[m]>>]]) /\ h[D] = it[S]
  BY <1>8, PairsAreTotals DEF S
<1>10. \A m \in D : f[<<m, r[m]>>] = r[m] * (100 + r[m])
  BY <1>2, <1>3
<1>11. [m \in D |-> f[<<m, r[m]>>]] = [m \in D |-> r[m] * (100 + r[m])]
  BY <1>10
<1>12. IsTotal(h, D, [m \in D |-> r[m] * (100 + r[m])])
  BY <1>9, <1>11
<1> QED
  BY <1>1, <1>9, <1>12 DEF S
(* A sum of greater numbers is no smaller.                                 *)
LEMMA GreaterSums ==
  ASSUME NEW D, IsFiniteSet(D), NEW x, NEW y, NEW X, NEW Y,
         X[{}] = 0, Y[{}] = 0,
         \A m \in D : x[m] \in Int /\ y[m] \in Int /\ x[m] <= y[m],
         \A E \in SUBSET D : /\ X[E] \in Int /\ Y[E] \in Int
                             /\ \A m \in E : /\ X[E] = x[m] + X[E \ {m}]
                                             /\ Y[E] = y[m] + Y[E \ {m}]
  PROVE  X[D] <= Y[D]
<1> DEFINE T == {n \in Nat : \A E \in SUBSET D : Cardinality(E) = n => X[E] <= Y[E]}
<1>1. \A E \in SUBSET D : /\ IsFiniteSet(E) /\ Cardinality(E) \in Nat
                          /\ \A m \in E : Cardinality(E \ {m}) = Cardinality(E) - 1
                          /\ Cardinality(E) = 0 <=> E = {}
  BY FS_Subset, FS_CardinalityType, FS_RemoveElement, FS_EmptySet
<1>2. 0 \in T
  <2>1. \A E \in SUBSET D : Cardinality(E) = 0 => X[E] = 0 /\ Y[E] = 0
    BY <1>1, Zenon
  <2> QED
    BY <2>1
<1>3. ASSUME NEW n \in T PROVE n + 1 \in T
  <2>1. n \in Nat /\ \A E \in SUBSET D : Cardinality(E) = n => X[E] <= Y[E]
    OBVIOUS
  <2> SUFFICES ASSUME NEW E \in SUBSET D, Cardinality(E) = n + 1 PROVE X[E] <= Y[E]
    BY <2>1
  <2>2. PICK m \in E : TRUE
    BY <1>1, <2>1
  <2>3. E \ {m} \in SUBSET D /\ Cardinality(E \ {m}) = n
    <3>1. E \ {m} \in SUBSET D
      OBVIOUS
    <3>2. Cardinality(E \ {m}) = Cardinality(E) - 1
      BY <1>1, <2>2, Zenon
    <3>3. \A j, k : j = n + 1 /\ k = j - 1 => k = n
      BY <2>1
    <3> QED
      BY <3>1, <3>2, <3>3, Zenon
  <2>4. X[E \ {m}] <= Y[E \ {m}]
    BY <2>1, <2>3
  <2>5. X[E \ {m}] \in Int /\ Y[E \ {m}] \in Int
    BY <2>3
  <2>6. X[E] = x[m] + X[E \ {m}] /\ Y[E] = y[m] + Y[E \ {m}]
    BY <2>2, Zenon
  <2>7. x[m] \in Int /\ y[m] \in Int /\ x[m] <= y[m]
    BY <2>2
  <2> QED
    BY <2>4, <2>5, <2>6, <2>7
<1>4. T = Nat
  <2> HIDE DEF T
  <2>1. T \in SUBSET Nat
    BY DEF T
  <2> QED
    BY <1>2, <1>3, <2>1, Induction
<1>5. Cardinality(D) \in T
  BY <1>1, <1>4
<1> QED
  BY <1>5

(* One number more, counted with 100 and itself, moves a weighted sum up.  *)
LEMMA WeightedGrows ==
  ASSUME NEW r \in 0..100, NEW q \in 0..100, r <= q, NEW c \in Int, c <= 199
  PROVE  2 * (r * (100 + r)) - c * (100 + r) <= 2 * (q * (100 + q)) - c * (100 + q)
<1>1. PICK d \in Nat : q = r + d
  <2>1. q - r \in Nat /\ q = r + (q - r)
    OBVIOUS
  <2> QED
    BY <2>1
<1>2. PICK u \in Nat : u = 4 * r + 2 * d + 200 - c
  OBVIOUS
<1>3. d * u \in Nat
  OBVIOUS
<1>4. 2 * (q * (100 + q)) - c * (100 + q) = (2 * (r * (100 + r)) - c * (100 + r)) + d * u
  BY <1>1, <1>2
<1> QED
  BY <1>3, <1>4
(* The mean of some scores, each counted with 100 and itself.              *)
MeanOf(D, r) ==
  LET weights == P!MapThenSumSet(LAMBDA p : 100 + p[2], PairsWith(D, r))
      sum == P!MapThenSumSet(LAMBDA p : p[2] * (100 + p[2]), PairsWith(D, r))
  IN  (2 * sum + weights) \div (2 * weights)

(* How a quotient and its parts compare.                                   *)
LEMMA Quotients ==
  ASSUME NEW a \in Int, NEW b \in Nat, b > 0
  PROVE  /\ a \div b \in Int
         /\ b * (a \div b) <= a
         /\ \A k \in Int : b * k <= a => k <= a \div b
<1>1. PICK q \in Int : q = a \div b
  OBVIOUS
<1>2. b * q <= a /\ a < b * q + b
  BY <1>1
<1>3. ASSUME NEW k \in Int, b * k <= a, ~(k <= q) PROVE FALSE
  <2>1. PICK e \in Nat : k = q + 1 + e
    <3>1. k - q - 1 \in Nat /\ k = q + 1 + (k - q - 1)
      BY <1>3
    <3> QED
      BY <3>1
  <2>2. b * k = b * q + b + b * e /\ b * e \in Nat
    BY <2>1
  <2>3. b * q \in Int
    OBVIOUS
  <2> QED
    BY <1>2, <1>3, <2>2, <2>3
<1> QED
  BY <1>1, <1>2, <1>3

(* Its parts, and that it is no more than 100.                             *)
LEMMA MeanParts ==
  ASSUME NEW D, IsFiniteSet(D), D # {}, NEW r \in [D -> 0..100]
  PROVE  \E S, W : /\ IsTotal(S, D, [m \in D |-> r[m] * (100 + r[m])])
                   /\ IsTotal(W, D, [m \in D |-> 100 + r[m]])
                   /\ S[D] \in Nat /\ W[D] \in Nat /\ W[D] > 0 /\ S[D] <= 100 * W[D]
                   /\ MeanOf(D, r) = (2 * S[D] + W[D]) \div (2 * W[D])
<1>1. r \in [D -> Nat]
  OBVIOUS
<1>2. PICK S : /\ IsTotal(S, D, [m \in D |-> r[m] * (100 + r[m])])
               /\ P!MapThenSumSet(LAMBDA p : p[2] * (100 + p[2]), PairsWith(D, r)) = S[D]
  BY <1>1, ScoresAreTotals
<1>3. PICK W : /\ IsTotal(W, D, [m \in D |-> 100 + r[m]])
               /\ P!MapThenSumSet(LAMBDA p : 100 + p[2], PairsWith(D, r)) = W[D]
  BY <1>1, WeightsAreTotals
<1> DEFINE s == [m \in D |-> r[m] * (100 + r[m])]
           w == [m \in D |-> 100 + r[m]]
           X == [E \in SUBSET D |-> 100 * W[E]]
           x == [m \in D |-> 100 * w[m]]
<1>4. \A m \in D : /\ s[m] = r[m] * (100 + r[m]) /\ w[m] = 100 + r[m]
                   /\ x[m] = 100 * w[m] /\ r[m] \in 0..100
  OBVIOUS
<1>5. /\ S[{}] = 0 /\ W[{}] = 0
      /\ \A E \in SUBSET D : /\ S[E] \in Nat /\ W[E] \in Nat
                             /\ \A m \in E : /\ S[E] = s[m] + S[E \ {m}]
                                             /\ W[E] = w[m] + W[E \ {m}]
  <2>1. IsTotal(S, D, s) /\ IsTotal(W, D, w)
    BY <1>2, <1>3
  <2> HIDE DEF s, w
  <2> QED
    BY <2>1 DEF IsTotal
<1> HIDE DEF s, w
<1>6. \A E \in SUBSET D : X[E] = 100 * W[E]
  OBVIOUS
<1> HIDE DEF X, x
<1>7. \A m \in D : s[m] \in Int /\ x[m] \in Int /\ s[m] <= x[m] /\ w[m] \in Int /\ w[m] >= 100
  <2> SUFFICES ASSUME NEW m \in D
               PROVE  s[m] \in Int /\ x[m] \in Int /\ s[m] <= x[m] /\ w[m] \in Int /\ w[m] >= 100
    OBVIOUS
  <2>1. PICK k \in 0..100 : k = r[m]
    BY <1>4
  <2>2. k * (100 + k) <= 100 * (100 + k)
    <3>1. (100 - k) * (100 + k) \in Nat
      OBVIOUS
    <3>2. 100 * (100 + k) = k * (100 + k) + (100 - k) * (100 + k)
      OBVIOUS
    <3> QED
      BY <3>1, <3>2
  <2>3. s[m] = k * (100 + k) /\ w[m] = 100 + k /\ x[m] = 100 * (100 + k)
    BY <1>4, <2>1
  <2>4. k * (100 + k) \in Int
    OBVIOUS
  <2> QED
    BY <2>2, <2>3, <2>4
<1>8. \A E \in SUBSET D : /\ S[E] \in Int /\ X[E] \in Int
                          /\ \A m \in E : /\ S[E] = s[m] + S[E \ {m}]
                                          /\ X[E] = x[m] + X[E \ {m}]
  <2> SUFFICES ASSUME NEW E \in SUBSET D
               PROVE  /\ S[E] \in Int /\ X[E] \in Int
                      /\ \A m \in E : /\ S[E] = s[m] + S[E \ {m}]
                                      /\ X[E] = x[m] + X[E \ {m}]
    OBVIOUS
  <2>1. S[E] \in Int /\ X[E] \in Int
    BY <1>5, <1>6
  <2>2. ASSUME NEW m \in E PROVE S[E] = s[m] + S[E \ {m}] /\ X[E] = x[m] + X[E \ {m}]
    <3>1. E \ {m} \in SUBSET D /\ m \in D
      OBVIOUS
    <3>2. /\ S[E] = s[m] + S[E \ {m}] /\ W[E] = w[m] + W[E \ {m}]
          /\ W[E] \in Nat /\ W[E \ {m}] \in Nat
      BY <1>5, <2>2, <3>1
    <3>3. w[m] \in Int /\ x[m] = 100 * w[m]
      BY <1>4, <1>7, <3>1
    <3>4. X[E] = 100 * W[E] /\ X[E \ {m}] = 100 * W[E \ {m}]
      BY <1>6, <3>1
    <3> QED
      BY <3>2, <3>3, <3>4
  <2> QED
    BY <2>1, <2>2
<1>9. X[{}] = 0
  BY <1>5, <1>6
<1>10. S[D] <= X[D]
  BY <1>5, <1>7, <1>8, <1>9, GreaterSums
<1>11. W[D] > 0
  <2>1. PICK m \in D : TRUE
    OBVIOUS
  <2>2. W[D] = w[m] + W[D \ {m}] /\ W[D \ {m}] \in Nat
    BY <1>5, <2>1
  <2> QED
    BY <1>7, <2>1, <2>2
<1>12. D \in SUBSET D
  OBVIOUS
<1>13. S[D] \in Nat /\ W[D] \in Nat /\ S[D] <= 100 * W[D]
  BY <1>5, <1>6, <1>10, <1>12
<1>14. MeanOf(D, r) = (2 * S[D] + W[D]) \div (2 * W[D])
  BY <1>2, <1>3 DEF MeanOf
<1> QED
  BY <1>2, <1>3, <1>11, <1>13, <1>14

(* Sums and differences of parts.                                          *)
LEMMA Distributes ==
  ASSUME NEW c \in Int, NEW a \in Int, NEW b \in Int, NEW x \in Int, NEW y \in Int
  PROVE  2 * (a + x) - c * (b + y) = (2 * a - c * b) + (2 * x - c * y)
OBVIOUS

(* The mean of greater scores is no smaller.                               *)
LEMMA MeanGrows ==
  ASSUME NEW D, IsFiniteSet(D), D # {}, NEW r \in [D -> 0..100], NEW q \in [D -> 0..100],
         \A m \in D : r[m] <= q[m]
  PROVE  MeanOf(D, r) \in Int /\ MeanOf(D, q) \in Int /\ MeanOf(D, r) <= MeanOf(D, q)
<1>1. PICK S, W : /\ IsTotal(S, D, [m \in D |-> r[m] * (100 + r[m])])
                  /\ IsTotal(W, D, [m \in D |-> 100 + r[m]])
                  /\ S[D] \in Nat /\ W[D] \in Nat /\ W[D] > 0 /\ S[D] <= 100 * W[D]
                  /\ MeanOf(D, r) = (2 * S[D] + W[D]) \div (2 * W[D])
  BY MeanParts
<1>2. PICK U, V : /\ IsTotal(U, D, [m \in D |-> q[m] * (100 + q[m])])
                  /\ IsTotal(V, D, [m \in D |-> 100 + q[m]])
                  /\ U[D] \in Nat /\ V[D] \in Nat /\ V[D] > 0 /\ U[D] <= 100 * V[D]
                  /\ MeanOf(D, q) = (2 * U[D] + V[D]) \div (2 * V[D])
  BY MeanParts
<1>3. PICK k \in Int : k = MeanOf(D, r) /\ (2 * W[D]) * k <= 2 * S[D] + W[D]
  <2>1. 2 * S[D] + W[D] \in Int /\ 2 * W[D] \in Nat /\ 2 * W[D] > 0
    BY <1>1
  <2> QED
    BY <1>1, <2>1, Quotients
<1>4. k <= 100
  <2> SUFFICES ASSUME ~(k <= 100) PROVE FALSE
    OBVIOUS
  <2>1. PICK e \in Nat : k = 101 + e
    <3>1. k - 101 \in Nat /\ k = 101 + (k - 101)
      OBVIOUS
    <3> QED
      BY <3>1
  <2>2. PICK n \in Nat : n = W[D]
    BY <1>1
  <2>3. (2 * n) * k = 202 * n + 2 * (n * e) /\ n * e \in Nat
    BY <2>1
  <2> QED
    BY <1>1, <1>3, <2>2, <2>3
<1>5. PICK c \in Int : c = 2 * k - 1 /\ c <= 199
  BY <1>4
<1> DEFINE s == [m \in D |-> r[m] * (100 + r[m])]
           w == [m \in D |-> 100 + r[m]]
           u == [m \in D |-> q[m] * (100 + q[m])]
           v == [m \in D |-> 100 + q[m]]
           x == [m \in D |-> 2 * s[m] - c * w[m]]
           y == [m \in D |-> 2 * u[m] - c * v[m]]
           X == [E \in SUBSET D |-> 2 * S[E] - c * W[E]]
           Y == [E \in SUBSET D |-> 2 * U[E] - c * V[E]]
<1>6. \A m \in D : /\ s[m] = r[m] * (100 + r[m]) /\ w[m] = 100 + r[m]
                   /\ u[m] = q[m] * (100 + q[m]) /\ v[m] = 100 + q[m]
                   /\ x[m] = 2 * s[m] - c * w[m] /\ y[m] = 2 * u[m] - c * v[m]
  OBVIOUS
<1>7. IsTotal(S, D, s) /\ IsTotal(W, D, w) /\ IsTotal(U, D, u) /\ IsTotal(V, D, v)
  BY <1>1, <1>2
<1>8. \A E \in SUBSET D : /\ X[E] = 2 * S[E] - c * W[E]
                          /\ Y[E] = 2 * U[E] - c * V[E]
  OBVIOUS
<1> HIDE DEF s, w, u, v, x, y, X, Y
<1>9. /\ S[{}] = 0 /\ W[{}] = 0 /\ U[{}] = 0 /\ V[{}] = 0
      /\ \A E \in SUBSET D : /\ S[E] \in Nat /\ W[E] \in Nat /\ U[E] \in Nat /\ V[E] \in Nat
                             /\ \A m \in E : /\ S[E] = s[m] + S[E \ {m}]
                                             /\ W[E] = w[m] + W[E \ {m}]
                                             /\ U[E] = u[m] + U[E \ {m}]
                                             /\ V[E] = v[m] + V[E \ {m}]
  BY <1>7 DEF IsTotal
<1>10. \A m \in D : /\ s[m] \in Int /\ w[m] \in Int /\ u[m] \in Int /\ v[m] \in Int
                   /\ x[m] \in Int /\ y[m] \in Int /\ x[m] <= y[m]
  <2> SUFFICES ASSUME NEW m \in D
               PROVE  /\ s[m] \in Int /\ w[m] \in Int /\ u[m] \in Int /\ v[m] \in Int
                      /\ x[m] \in Int /\ y[m] \in Int /\ x[m] <= y[m]
    OBVIOUS
  <2>1. PICK a \in 0..100, b \in 0..100 : a = r[m] /\ b = q[m] /\ a <= b
    OBVIOUS
  <2>2. 2 * (a * (100 + a)) - c * (100 + a) <= 2 * (b * (100 + b)) - c * (100 + b)
    <3>1. c \in Int /\ c <= 199 /\ a <= b
      BY <1>5, <2>1
    <3> QED
      BY <3>1, WeightedGrows, Zenon
  <2>3. /\ s[m] = a * (100 + a) /\ w[m] = 100 + a /\ u[m] = b * (100 + b) /\ v[m] = 100 + b
        /\ x[m] = 2 * (a * (100 + a)) - c * (100 + a)
        /\ y[m] = 2 * (b * (100 + b)) - c * (100 + b)
    <3>1. s[m] = a * (100 + a) /\ w[m] = 100 + a /\ u[m] = b * (100 + b) /\ v[m] = 100 + b
      BY <1>6, <2>1
    <3>2. x[m] = 2 * s[m] - c * w[m] /\ y[m] = 2 * u[m] - c * v[m]
      BY <1>6
    <3> QED
      BY <3>1, <3>2
  <2>4. /\ a * (100 + a) \in Int /\ b * (100 + b) \in Int
        /\ 100 + a \in Int /\ 100 + b \in Int
        /\ 2 * (a * (100 + a)) - c * (100 + a) \in Int
        /\ 2 * (b * (100 + b)) - c * (100 + b) \in Int
    OBVIOUS
  <2>5. s[m] \in Int /\ w[m] \in Int /\ u[m] \in Int /\ v[m] \in Int
    BY <2>3, <2>4, Zenon
  <2>6. PICK f, g \in Int : /\ f = 2 * (a * (100 + a)) - c * (100 + a)
                            /\ g = 2 * (b * (100 + b)) - c * (100 + b)
                            /\ f <= g
    BY <2>2, <2>4, Zenon
  <2>7. x[m] = f /\ y[m] = g
    BY <2>3, <2>6, Zenon
  <2> QED
    BY <2>5, <2>6, <2>7, Zenon
<1>11. \A E \in SUBSET D : /\ X[E] \in Int /\ Y[E] \in Int
                           /\ \A m \in E : /\ X[E] = x[m] + X[E \ {m}]
                                           /\ Y[E] = y[m] + Y[E \ {m}]
  <2> SUFFICES ASSUME NEW E \in SUBSET D
               PROVE  /\ X[E] \in Int /\ Y[E] \in Int
                      /\ \A m \in E : /\ X[E] = x[m] + X[E \ {m}]
                                      /\ Y[E] = y[m] + Y[E \ {m}]
    OBVIOUS
  <2>1. /\ X[E] = 2 * S[E] - c * W[E] /\ Y[E] = 2 * U[E] - c * V[E]
        /\ S[E] \in Nat /\ W[E] \in Nat /\ U[E] \in Nat /\ V[E] \in Nat
    BY <1>9, <1>8
  <2>2. X[E] \in Int /\ Y[E] \in Int
    BY <2>1
  <2>3. ASSUME NEW m \in E PROVE X[E] = x[m] + X[E \ {m}] /\ Y[E] = y[m] + Y[E \ {m}]
    <3>1. E \ {m} \in SUBSET D /\ m \in D
      OBVIOUS
    <3>2. /\ S[E] = s[m] + S[E \ {m}] /\ W[E] = w[m] + W[E \ {m}]
          /\ U[E] = u[m] + U[E \ {m}] /\ V[E] = v[m] + V[E \ {m}]
          /\ S[E \ {m}] \in Nat /\ W[E \ {m}] \in Nat
          /\ U[E \ {m}] \in Nat /\ V[E \ {m}] \in Nat
      BY <1>9, <2>3, <3>1
    <3>3. /\ s[m] \in Int /\ w[m] \in Int /\ u[m] \in Int /\ v[m] \in Int
          /\ x[m] = 2 * s[m] - c * w[m] /\ y[m] = 2 * u[m] - c * v[m]
      BY <1>6, <1>10, <3>1
    <3>4. /\ X[E \ {m}] = 2 * S[E \ {m}] - c * W[E \ {m}]
          /\ Y[E \ {m}] = 2 * U[E \ {m}] - c * V[E \ {m}]
      BY <1>8, <3>1
    <3>5. /\ 2 * (s[m] + S[E \ {m}]) - c * (w[m] + W[E \ {m}])
               = (2 * s[m] - c * w[m]) + (2 * S[E \ {m}] - c * W[E \ {m}])
          /\ 2 * (u[m] + U[E \ {m}]) - c * (v[m] + V[E \ {m}])
               = (2 * u[m] - c * v[m]) + (2 * U[E \ {m}] - c * V[E \ {m}])
      BY <3>2, <3>3, Distributes
    <3> QED
      BY <2>1, <3>2, <3>3, <3>4, <3>5, Zenon
  <2> QED
    BY <2>2, <2>3
<1>12. X[{}] = 0 /\ Y[{}] = 0
  BY <1>9, <1>8
<1>13. X[D] <= Y[D]
  BY <1>10, <1>11, <1>12, GreaterSums
<1>14. D \in SUBSET D
  OBVIOUS
<1>15. 2 * S[D] - c * W[D] <= 2 * U[D] - c * V[D]
  BY <1>8, <1>13, <1>14
<1>16. (2 * V[D]) * k <= 2 * U[D] + V[D]
  <2>1. PICK sd, wd, ud, vd \in Nat : sd = S[D] /\ wd = W[D] /\ ud = U[D] /\ vd = V[D]
    BY <1>1, <1>2
  <2>2. 2 * sd - c * wd <= 2 * ud - c * vd /\ (2 * wd) * k <= 2 * sd + wd
    BY <1>3, <1>15, <2>1
  <2>3. c * wd = (2 * wd) * k - wd /\ c * vd = (2 * vd) * k - vd
    BY <1>5
  <2>4. (2 * wd) * k \in Int /\ (2 * vd) * k \in Int
    OBVIOUS
  <2>5. (2 * vd) * k <= 2 * ud + vd
    BY <2>2, <2>3, <2>4
  <2> QED
    BY <2>1, <2>5
<1>17. 2 * U[D] + V[D] \in Int /\ 2 * V[D] \in Nat /\ 2 * V[D] > 0
  BY <1>2
<1>18. MeanOf(D, q) \in Int /\ k <= MeanOf(D, q)
  BY <1>2, <1>16, <1>17, Quotients
<1> QED
  BY <1>3, <1>18

-----------------------------------------------------------------------------
(* Findings that grow in number, or are exploited.                         *)

(* The same finding, listed as exploited or likelier to be.                *)
Worse(v, w) ==
  /\ w.sev = v.sev /\ w.reach = v.reach /\ w.noSev = v.noSev /\ w.fixAge = v.fixAge
  /\ w.age = v.age /\ w.cve = v.cve
  /\ v.kev => w.kev
  /\ v.epss <= w.epss

(* Every finding is still there, or a worse one in its place.              *)
Grown(vs, ws) == \E h \in Injection(vs, ws) : \A v \in vs : Worse(v, h[v])

(* No finding is better than itself.                                       *)
LEMMA WorseThanItself == \A v \in Findable : Worse(v, v)
BY DEF Worse, Findable

(* Each finding has one that is as bad.                                    *)
LEMMA GrownAndFound ==
  ASSUME NEW vs, NEW ws, Grown(vs, ws), NEW v \in vs
  PROVE  \E w \in ws : Worse(v, w)
BY DEF Grown, Injection

(* A set of numbers each of which another one reaches has no greater a     *)
(* greatest one.                                                           *)
LEMMA GreatestOfGreater ==
  ASSUME NEW n \in Nat, NEW S, NEW T, S # {}, \A x \in S \union T : x \in Nat /\ x <= n,
         \A x \in S : \E y \in T : x <= y
  PROVE  P!Max(S) <= P!Max(T) /\ P!Max(S) \in Nat /\ P!Max(T) \in Nat
<1>1. P!Max(S) \in S /\ P!Max(S) \in Nat
  BY Greatest
<1>2. T # {}
  OBVIOUS
<1>3. P!Max(T) \in Nat /\ \A x \in T : x <= P!Max(T)
  BY <1>2, Greatest
<1>4. PICK y \in T : P!Max(S) <= y
  BY <1>1
<1> QED
  BY <1>1, <1>3, <1>4

(* What a finding weighs.                                                  *)
LEMMA WeightIsBounded == \A v : P!VulnWeight(v) \in Nat /\ P!VulnWeight(v) <= 10000
<1>1. \A s : P!SeverityWeight(s) \in Nat /\ P!SeverityWeight(s) <= 100
  BY DEF P!SeverityWeight
<1>2. \A r : P!ReachTenths(r) \in {3, 7, 10}
  BY DEF P!ReachTenths
<1>3. \A x \in Nat : x <= 100 => \A y \in {3, 7, 10} : x * y * 10 \in Nat /\ x * y * 10 <= 10000
  OBVIOUS
<1> QED
  BY <1>1, <1>2, <1>3 DEF P!VulnWeight

(* Being exploited does not enter the weight.                              *)
LEMMA WorseWeighsTheSame ==
  ASSUME NEW v, NEW w, Worse(v, w)
  PROVE  P!VulnWeight(w) = P!VulnWeight(v)
BY DEF Worse, P!VulnWeight

(* The score of the findings of a module.                                  *)
LEMMA VulnScoreGrows ==
  ASSUME NEW vs, NEW ws, vs \subseteq Findable, ws \subseteq Findable,
         IsFiniteSet(vs), IsFiniteSet(ws), Grown(vs, ws)
  PROVE  P!VulnScore(vs) <= P!VulnScore(ws) /\ P!VulnScore(vs) \in Nat /\ P!VulnScore(ws) \in Nat
<1> DEFINE high(us) == {v \in us : P!VulnWeight(v) >= P!HighOrAboveWeight}
           likely(us) == {v.epss : v \in us}
           weights(us) == {P!VulnWeight(v) : v \in us}
           score(us) == P!Max(weights(us)) + 500 * P!Larger(P!Cardinality(high(us)) - 1, 0)
                          + 150 * P!Max(likely(us))
<1>1. \A us : us # {} => P!VulnScore(us) = P!Min({10000, score(us)})
  BY DEF P!VulnScore
<1>2. P!VulnScore({}) = 0
  BY DEF P!VulnScore
<1>3. ASSUME NEW us, us \subseteq Findable, IsFiniteSet(us), us # {}
      PROVE  /\ P!Max(weights(us)) \in Nat /\ P!Max(likely(us)) \in Nat
             /\ P!Cardinality(high(us)) \in Nat /\ score(us) \in Nat
  <2>1. P!Max(weights(us)) \in Nat
    <3>1. PICK n \in Nat : n = 10000
      OBVIOUS
    <3>2. \A x \in weights(us) : x \in Nat /\ x <= n
      BY <3>1, WeightIsBounded
    <3>3. weights(us) # {}
      BY <1>3
    <3> HIDE DEF weights
    <3> QED
      BY <3>2, <3>3, Greatest
  <2>2. P!Max(likely(us)) \in Nat
    <3>1. PICK n \in Nat : n = 10
      OBVIOUS
    <3>2. \A x \in likely(us) : x \in Nat /\ x <= n
      BY <1>3, <3>1 DEF Findable
    <3>3. likely(us) # {}
      BY <1>3
    <3> HIDE DEF likely
    <3> QED
      BY <3>2, <3>3, Greatest
  <2>3. P!Cardinality(high(us)) \in Nat
    <3>1. IsFiniteSet(high(us))
      BY <1>3, FS_Subset
    <3> QED
      BY <3>1, FS_CardinalityType DEF P!Cardinality, Cardinality
  <2> HIDE DEF high, likely, weights
  <2>4. P!Larger(P!Cardinality(high(us)) - 1, 0) \in Nat
    BY <2>3 DEF P!Larger
  <2> QED
    BY <2>1, <2>2, <2>3, <2>4
<1>4. ASSUME vs # {} PROVE score(vs) <= score(ws) /\ ws # {}
  <2>1. PICK h \in Injection(vs, ws) : \A v \in vs : Worse(v, h[v])
    BY DEF Grown
  <2>2. \A v \in vs : h[v] \in ws /\ P!VulnWeight(h[v]) = P!VulnWeight(v) /\ v.epss <= h[v].epss
    <3>1. \A v \in vs : h[v] \in ws
      BY <2>1 DEF Injection
    <3> QED
      BY <2>1, <3>1, WorseWeighsTheSame DEF Worse
  <2>3. ws # {}
    BY <1>4, <2>2
  <2>4. P!Max(weights(vs)) <= P!Max(weights(ws))
    <3>1. PICK n \in Nat : n = 10000
      OBVIOUS
    <3>2. \A x \in weights(vs) \union weights(ws) : x \in Nat /\ x <= n
      BY <3>1, WeightIsBounded
    <3>3. weights(vs) # {}
      BY <1>4
    <3>4. \A x \in weights(vs) : x \in weights(ws)
      BY <2>2
    <3> HIDE DEF weights
    <3>5. \A x \in weights(vs) : \E y \in weights(ws) : x <= y
      BY <3>2, <3>4
    <3> QED
      BY <3>2, <3>3, <3>5, GreatestOfGreater
  <2>5. P!Max(likely(vs)) <= P!Max(likely(ws))
    <3>1. PICK n \in Nat : n = 10
      OBVIOUS
    <3>2. \A x \in likely(vs) \union likely(ws) : x \in Nat /\ x <= n
      BY <3>1 DEF Findable
    <3>3. likely(vs) # {}
      BY <1>4
    <3>4. \A x \in likely(vs) : \E y \in likely(ws) : x <= y
      BY <2>2
    <3> HIDE DEF likely
    <3> QED
      BY <3>2, <3>3, <3>4, GreatestOfGreater
  <2>6. P!Cardinality(high(vs)) <= P!Cardinality(high(ws))
    <3> DEFINE g == [v \in high(vs) |-> h[v]]
    <3>1. \A v \in high(vs) : h[v] \in high(ws)
      BY <2>2
    <3>2. \A v, w \in high(vs) : h[v] = h[w] => v = w
      BY <2>1 DEF Injection, IsInjective
    <3>3. IsFiniteSet(high(ws))
      BY FS_Subset
    <3>4. \A us : P!Cardinality(high(us)) = Cardinality(high(us))
      BY DEF P!Cardinality, Cardinality
    <3> HIDE DEF high
    <3>5. g \in Injection(high(vs), high(ws))
      BY <3>1, <3>2 DEF Injection, IsInjective
    <3>6. Cardinality(high(vs)) <= Cardinality(high(ws))
      BY <3>3, <3>5, FS_Injection
    <3> QED
      BY <3>4, <3>6
  <2>7. /\ P!Max(weights(vs)) \in Nat /\ P!Max(likely(vs)) \in Nat
        /\ P!Cardinality(high(vs)) \in Nat
    BY <1>3, <1>4
  <2>8. /\ P!Max(weights(ws)) \in Nat /\ P!Max(likely(ws)) \in Nat
        /\ P!Cardinality(high(ws)) \in Nat
    BY <1>3, <2>3
  <2> HIDE DEF high, likely, weights
  <2>9. /\ P!Larger(P!Cardinality(high(vs)) - 1, 0) \in Nat
        /\ P!Larger(P!Cardinality(high(ws)) - 1, 0) \in Nat
        /\ P!Larger(P!Cardinality(high(vs)) - 1, 0) <= P!Larger(P!Cardinality(high(ws)) - 1, 0)
    BY <2>6, <2>7, <2>8 DEF P!Larger
  <2> QED
    BY <2>3, <2>4, <2>5, <2>7, <2>8, <2>9
<1>5. \A us : us \subseteq Findable /\ IsFiniteSet(us) /\ us # {} => score(us) \in Nat
  BY <1>3
<1> HIDE DEF score
<1>6. CASE vs = {}
  <2>1. CASE ws = {}
    BY <1>2, <1>6, <2>1
  <2>2. CASE ws # {}
    <3>1. score(ws) \in Nat /\ P!VulnScore(ws) = P!Min({10000, score(ws)})
      BY <1>1, <1>5, <2>2
    <3>2. P!VulnScore(vs) = 0
      BY <1>2, <1>6
    <3> QED
      BY <3>1, <3>2, MinOfTwo
  <2> QED
    BY <2>1, <2>2
<1>7. CASE vs # {}
  <2>1. score(vs) \in Nat /\ score(ws) \in Nat /\ score(vs) <= score(ws)
    BY <1>4, <1>5, <1>7
  <2>2. /\ P!VulnScore(vs) = P!Min({10000, score(vs)})
        /\ P!VulnScore(ws) = P!Min({10000, score(ws)})
    BY <1>1, <1>4, <1>7
  <2> QED
    BY <2>1, <2>2, MinOfTwo
<1> QED
  BY <1>6, <1>7

(* The floor that the findings of a module set, unless a medium finding    *)
(* hides a called one of unknown severity.                                 *)
LEMMA FixAgeIsBounded == \A v : P!FixAgeFloor(v) \in Nat /\ P!FixAgeFloor(v) <= 26
BY DEF P!FixAgeFloor

(* The floor for low findings that stay unfixed.                           *)
LEMMA FixAgeGrows ==
  ASSUME NEW vs, NEW ws, Grown(vs, ws)
  PROVE  /\ P!LowFixAgeFloor(vs) \in Nat /\ P!LowFixAgeFloor(ws) \in Nat
         /\ P!LowFixAgeFloor(vs) <= P!LowFixAgeFloor(ws) /\ P!LowFixAgeFloor(ws) <= 26
<1> DEFINE S == {0} \union {P!FixAgeFloor(v) : v \in vs}
           T == {0} \union {P!FixAgeFloor(v) : v \in ws}
<1>1. PICK n \in Nat : n = 26
  OBVIOUS
<1>2. \A x \in S \union T : x \in Nat /\ x <= n
  BY <1>1, FixAgeIsBounded
<1>3. ASSUME NEW v \in vs PROVE \E w \in ws : P!FixAgeFloor(w) = P!FixAgeFloor(v)
  <2>1. PICK w \in ws : Worse(v, w)
    BY GrownAndFound
  <2>2. P!FixAgeFloor(w) = P!FixAgeFloor(v)
    BY <2>1 DEF Worse, P!FixAgeFloor
  <2> QED
    BY <2>2
<1>4. \A x \in S : x \in T
  BY <1>3
<1>5. S # {} /\ T # {}
  OBVIOUS
<1> HIDE DEF S, T
<1>6. \A x \in S : \E y \in T : x <= y
  BY <1>2, <1>4
<1>7. P!Max(S) <= P!Max(T) /\ P!Max(S) \in Nat /\ P!Max(T) \in Nat
  BY <1>2, <1>5, <1>6, GreatestOfGreater
<1>8. P!Max(T) <= n
  <2>1. \A x \in T : x \in Nat /\ x <= n
    BY <1>2
  <2> QED
    BY <1>5, <2>1, Greatest
<1> QED
  BY <1>1, <1>7, <1>8 DEF P!LowFixAgeFloor, S, T

(* What a finding says of the floor.                                       *)
InCatalog(vs) == \E v \in vs : v.kev
Says(vs, s) == \E v \in vs : v.reach # "required" /\ v.sev = s
BlindOn(vs) ==
  \E v \in vs : /\ v.reach # "required" /\ v.sev = "UNKNOWN" /\ v.noSev
                /\ P!ConfirmedReachable(v)
BlindOff(vs) ==
  \E v \in vs : /\ v.reach # "required" /\ v.sev = "UNKNOWN" /\ v.noSev
                /\ ~P!ConfirmedReachable(v)

(* The floor by what the findings say.                                     *)
LEMMA FloorByCases ==
  ASSUME NEW vs
  PROVE  /\ P!SeverityFloor(vs).floor =
              (IF InCatalog(vs) THEN 76
               ELSE IF Says(vs, "CRITICAL") \/ Says(vs, "HIGH") THEN 51
               ELSE IF Says(vs, "MEDIUM") THEN 26
               ELSE IF BlindOn(vs) THEN 51
               ELSE IF BlindOff(vs) THEN 26 ELSE P!LowFixAgeFloor(vs))
         /\ P!SeverityFloor(vs).level =
              (IF InCatalog(vs) \/ Says(vs, "CRITICAL") THEN 3
               ELSE IF Says(vs, "HIGH") THEN 2
               ELSE IF Says(vs, "MEDIUM") THEN 1
               ELSE IF BlindOn(vs) THEN 2
               ELSE IF BlindOff(vs) THEN 1 ELSE 0)
<1> DEFINE linked == {v \in vs : v.reach # "required"}
<1>1. \A s : (\E v \in linked : v.sev = s) <=> Says(vs, s)
  BY DEF Says
<1>2. /\ (\E v \in linked : v.sev = "UNKNOWN" /\ v.noSev /\ (P!ConfirmedReachable(v) <=> TRUE))
           <=> BlindOn(vs)
      /\ (\E v \in linked : v.sev = "UNKNOWN" /\ v.noSev /\ (P!ConfirmedReachable(v) <=> FALSE))
           <=> BlindOff(vs)
  BY Zenon DEF BlindOn, BlindOff
<1>3. (\E v \in vs : v.kev) <=> InCatalog(vs)
  BY DEF InCatalog
<1> HIDE DEF linked
<1>4. P!SeverityFloor(vs) =
        IF InCatalog(vs) THEN [floor |-> 76, level |-> 3]
        ELSE IF Says(vs, "CRITICAL") THEN [floor |-> 51, level |-> 3]
        ELSE IF Says(vs, "HIGH") THEN [floor |-> 51, level |-> 2]
        ELSE IF Says(vs, "MEDIUM") THEN [floor |-> 26, level |-> 1]
        ELSE IF BlindOn(vs) THEN [floor |-> 51, level |-> 2]
        ELSE IF BlindOff(vs) THEN [floor |-> 26, level |-> 1]
        ELSE [floor |-> P!LowFixAgeFloor(vs), level |-> 0]
  BY <1>1, <1>2, <1>3, Zenon DEF P!SeverityFloor, linked
<1>5. CASE InCatalog(vs)
  BY <1>4, <1>5
<1>6. CASE ~InCatalog(vs) /\ Says(vs, "CRITICAL")
  BY <1>4, <1>6
<1>7. CASE ~InCatalog(vs) /\ ~Says(vs, "CRITICAL") /\ Says(vs, "HIGH")
  BY <1>4, <1>7
<1>8. CASE ~InCatalog(vs) /\ ~Says(vs, "CRITICAL") /\ ~Says(vs, "HIGH") /\ Says(vs, "MEDIUM")
  BY <1>4, <1>8
<1>9. CASE /\ ~InCatalog(vs) /\ ~Says(vs, "CRITICAL") /\ ~Says(vs, "HIGH")
           /\ ~Says(vs, "MEDIUM") /\ BlindOn(vs)
  BY <1>4, <1>9
<1>10. CASE /\ ~InCatalog(vs) /\ ~Says(vs, "CRITICAL") /\ ~Says(vs, "HIGH")
            /\ ~Says(vs, "MEDIUM") /\ ~BlindOn(vs) /\ BlindOff(vs)
  BY <1>4, <1>10
<1>11. CASE /\ ~InCatalog(vs) /\ ~Says(vs, "CRITICAL") /\ ~Says(vs, "HIGH")
            /\ ~Says(vs, "MEDIUM") /\ ~BlindOn(vs) /\ ~BlindOff(vs)
  BY <1>4, <1>11
<1> QED
  BY <1>5, <1>6, <1>7, <1>8, <1>9, <1>10, <1>11

(* It is no lower when they grow.                                          *)
LEMMA FloorGrows ==
  ASSUME NEW vs, NEW ws, vs \subseteq Findable, ws \subseteq Findable, Grown(vs, ws),
         ~MediumHidesUnknown(vs, ws)
  PROVE  /\ P!SeverityFloor(vs).floor <= P!SeverityFloor(ws).floor
         /\ P!SeverityFloor(vs).level <= P!SeverityFloor(ws).level
         /\ P!SeverityFloor(vs).level \in Nat /\ P!SeverityFloor(ws).level \in Nat
<1>1. InCatalog(vs) => InCatalog(ws)
  BY GrownAndFound DEF InCatalog, Worse
<1>2. \A s : Says(vs, s) => Says(ws, s)
  <2> SUFFICES ASSUME NEW s, Says(vs, s) PROVE Says(ws, s)
    OBVIOUS
  <2>1. PICK v \in vs : v.reach # "required" /\ v.sev = s
    BY DEF Says
  <2>2. PICK w \in ws : Worse(v, w)
    BY GrownAndFound
  <2> QED
    BY <2>1, <2>2 DEF Says, Worse
<1>3. BlindOn(vs) => BlindOn(ws)
  <2> SUFFICES ASSUME BlindOn(vs) PROVE BlindOn(ws)
    OBVIOUS
  <2>1. PICK v \in vs : /\ v.reach # "required" /\ v.sev = "UNKNOWN" /\ v.noSev
                        /\ P!ConfirmedReachable(v)
    BY DEF BlindOn
  <2>2. PICK w \in ws : Worse(v, w)
    BY GrownAndFound
  <2>3. /\ w.reach # "required" /\ w.sev = "UNKNOWN" /\ w.noSev
        /\ P!ConfirmedReachable(w)
    BY <2>1, <2>2 DEF Worse, P!ConfirmedReachable
  <2> QED
    BY <2>3, Zenon DEF BlindOn
<1>4. BlindOff(vs) => BlindOff(ws)
  <2> SUFFICES ASSUME BlindOff(vs) PROVE BlindOff(ws)
    OBVIOUS
  <2>1. PICK v \in vs : /\ v.reach # "required" /\ v.sev = "UNKNOWN" /\ v.noSev
                        /\ ~P!ConfirmedReachable(v)
    BY DEF BlindOff
  <2>2. PICK w \in ws : Worse(v, w)
    BY GrownAndFound
  <2>3. /\ w.reach # "required" /\ w.sev = "UNKNOWN" /\ w.noSev
        /\ ~P!ConfirmedReachable(w)
    BY <2>1, <2>2 DEF Worse, P!ConfirmedReachable
  <2> QED
    BY <2>3, Zenon DEF BlindOff
<1>5. /\ P!LowFixAgeFloor(vs) \in Nat /\ P!LowFixAgeFloor(ws) \in Nat
      /\ P!LowFixAgeFloor(vs) <= P!LowFixAgeFloor(ws) /\ P!LowFixAgeFloor(ws) <= 26
  BY FixAgeGrows
<1>6. ASSUME Says(ws, "MEDIUM"), ~Says(vs, "MEDIUM"), BlindOn(vs)
      PROVE  ~(P!SeverityFloor(ws).floor < P!SeverityFloor(vs).floor)
  <2>1. PICK w \in ws : w.sev = "MEDIUM" /\ w.reach # "required"
    BY <1>6 DEF Says
  <2>2. w \notin vs
    BY <1>6, <2>1 DEF Says
  <2>3. \E v \in vs : v.sev = "UNKNOWN" /\ v.noSev /\ v.reach = "called"
    BY <1>6 DEF BlindOn, P!ConfirmedReachable
  <2> QED
    BY <2>1, <2>2, <2>3 DEF MediumHidesUnknown
<1>7. /\ Says(vs, "CRITICAL") => Says(ws, "CRITICAL")
      /\ Says(vs, "HIGH") => Says(ws, "HIGH")
      /\ Says(vs, "MEDIUM") => Says(ws, "MEDIUM")
      /\ BlindOn(vs) => BlindOn(ws)
      /\ BlindOff(vs) => BlindOff(ws)
  BY <1>2, <1>3, <1>4
<1>8. PICK fv, fw \in Nat : /\ fv = P!LowFixAgeFloor(vs) /\ fw = P!LowFixAgeFloor(ws)
                           /\ fv <= fw /\ fw <= 26
  BY <1>5
<1>9. PICK nv, nw : nv = P!SeverityFloor(vs).floor /\ nw = P!SeverityFloor(ws).floor
  OBVIOUS
<1>10. PICK lv, lw : lv = P!SeverityFloor(vs).level /\ lw = P!SeverityFloor(ws).level
  OBVIOUS
<1>11. /\ nv = (IF InCatalog(vs) THEN 76
                ELSE IF Says(vs, "CRITICAL") \/ Says(vs, "HIGH") THEN 51
                ELSE IF Says(vs, "MEDIUM") THEN 26
                ELSE IF BlindOn(vs) THEN 51
                ELSE IF BlindOff(vs) THEN 26 ELSE fv)
       /\ lv = (IF InCatalog(vs) \/ Says(vs, "CRITICAL") THEN 3
                ELSE IF Says(vs, "HIGH") THEN 2
                ELSE IF Says(vs, "MEDIUM") THEN 1
                ELSE IF BlindOn(vs) THEN 2
                ELSE IF BlindOff(vs) THEN 1 ELSE 0)
  BY <1>8, <1>9, <1>10, FloorByCases
<1>12. /\ nw = (IF InCatalog(ws) THEN 76
                ELSE IF Says(ws, "CRITICAL") \/ Says(ws, "HIGH") THEN 51
                ELSE IF Says(ws, "MEDIUM") THEN 26
                ELSE IF BlindOn(ws) THEN 51
                ELSE IF BlindOff(ws) THEN 26 ELSE fw)
       /\ lw = (IF InCatalog(ws) \/ Says(ws, "CRITICAL") THEN 3
                ELSE IF Says(ws, "HIGH") THEN 2
                ELSE IF Says(ws, "MEDIUM") THEN 1
                ELSE IF BlindOn(ws) THEN 2
                ELSE IF BlindOff(ws) THEN 1 ELSE 0)
  BY <1>8, <1>9, <1>10, FloorByCases
<1>13. nw < nv => Says(vs, "MEDIUM") \/ ~Says(ws, "MEDIUM") \/ ~BlindOn(vs)
  BY <1>6, <1>9
<1>14. nv <= nw /\ lv <= lw /\ lv \in Nat /\ lw \in Nat
  <2>1. CASE InCatalog(vs)
    BY <1>1, <1>11, <1>12, <2>1
  <2>2. CASE ~InCatalog(vs) /\ Says(vs, "CRITICAL")
    BY <1>7, <1>11, <1>12, <2>2
  <2>3. CASE ~InCatalog(vs) /\ ~Says(vs, "CRITICAL") /\ Says(vs, "HIGH")
    BY <1>7, <1>11, <1>12, <2>3
  <2>4. CASE ~InCatalog(vs) /\ ~Says(vs, "CRITICAL") /\ ~Says(vs, "HIGH") /\ Says(vs, "MEDIUM")
    BY <1>7, <1>11, <1>12, <2>4
  <2>5. CASE /\ ~InCatalog(vs) /\ ~Says(vs, "CRITICAL") /\ ~Says(vs, "HIGH")
             /\ ~Says(vs, "MEDIUM") /\ BlindOn(vs)
    <3>1. nv = 51 /\ lv = 2 /\ BlindOn(ws)
      BY <1>7, <1>11, <2>5
    <3>2. ~Says(ws, "MEDIUM") \/ nw >= 51
      <4>1. nw \in Nat
        BY <1>8, <1>12
      <4> QED
        BY <1>13, <2>5, <3>1, <4>1
    <3> QED
      BY <1>12, <3>1, <3>2
  <2>6. CASE /\ ~InCatalog(vs) /\ ~Says(vs, "CRITICAL") /\ ~Says(vs, "HIGH")
             /\ ~Says(vs, "MEDIUM") /\ ~BlindOn(vs) /\ BlindOff(vs)
    BY <1>7, <1>11, <1>12, <2>6
  <2>7. CASE /\ ~InCatalog(vs) /\ ~Says(vs, "CRITICAL") /\ ~Says(vs, "HIGH")
             /\ ~Says(vs, "MEDIUM") /\ ~BlindOn(vs) /\ ~BlindOff(vs)
    <3>1. nv = fv /\ lv = 0
      BY <1>11, <2>7
    <3> QED
      BY <1>8, <1>12, <3>1
  <2> QED
    BY <2>1, <2>2, <2>3, <2>4, <2>5, <2>6, <2>7
<1> QED
  BY <1>9, <1>10, <1>14

-----------------------------------------------------------------------------
(* A dependency about which worse was found out.                           *)

Worsened(d, e) ==
  /\ IsScored(d) /\ IsScored(e) /\ Grown(d.vulns, e.vulns)
  /\ \E x : \E arch, brch \in BOOLEAN :
       /\ \E depth \in Int : x.depth = depth
       /\ arch => brch
       /\ d = Scored(x, d.vulns, arch) /\ e = Scored(x, e.vulns, brch)

(* All that may differ are the findings and the flag.                      *)
LEMMA WorsenedFields ==
  ASSUME NEW d, NEW e, Worsened(d, e)
  PROVE  /\ e.direct = d.direct /\ e.depth = d.depth /\ e.testOnly = d.testOnly
         /\ e.inBuild = d.inBuild /\ e.maintainer = d.maintainer
         /\ e.resilience = d.resilience /\ e.typo = d.typo /\ e.aigen = d.aigen
         /\ e.replace = d.replace /\ e.pseudo = d.pseudo /\ e.version = d.version
         /\ e.trusted = d.trusted
         /\ P!MaintKnown(d) /\ P!MaintKnown(e) /\ ~P!MaintainerExcluded(d)
         /\ P!MonthsInactive(d) = 1 /\ P!MonthsInactive(e) = 1
         /\ d.maint.deprecated = FALSE /\ e.maint.deprecated = FALSE
         /\ P!Archived(d) => P!Archived(e)
         /\ d.depth \in Int /\ d.resilience.asked = FALSE
         /\ d.typo = 0 /\ d.aigen = 0 /\ d.replace = P!Empty /\ d.pseudo = "none"
<1>1. PICK x : \E arch, brch \in BOOLEAN :
                 /\ \E depth \in Int : x.depth = depth
                 /\ arch => brch
                 /\ d = Scored(x, d.vulns, arch) /\ e = Scored(x, e.vulns, brch)
  BY DEF Worsened
<1>2. PICK arch, brch \in BOOLEAN :
                 /\ \E depth \in Int : x.depth = depth
                 /\ arch => brch
                 /\ d = Scored(x, d.vulns, arch) /\ e = Scored(x, e.vulns, brch)
  BY <1>1
<1>3. /\ e.direct = d.direct /\ e.depth = d.depth /\ e.testOnly = d.testOnly
      /\ e.inBuild = d.inBuild /\ e.maintainer = d.maintainer
      /\ e.resilience = d.resilience /\ e.typo = d.typo /\ e.aigen = d.aigen
      /\ e.replace = d.replace /\ e.pseudo = d.pseudo /\ e.version = d.version
      /\ e.trusted = d.trusted
  <2>1. PICK vs, ws : d = Scored(x, vs, arch) /\ e = Scored(x, ws, brch)
    BY <1>2
  <2>2. /\ d.direct = x.direct /\ d.depth = x.depth /\ d.testOnly = x.testOnly
        /\ d.inBuild = x.inBuild
    BY <2>1 DEF Scored
  <2>3. /\ e.direct = x.direct /\ e.depth = x.depth /\ e.testOnly = x.testOnly
        /\ e.inBuild = x.inBuild
    BY <2>1 DEF Scored
  <2>4. e.maintainer = d.maintainer /\ e.resilience = d.resilience
    BY <2>1 DEF Scored
  <2>5. /\ e.typo = d.typo /\ e.aigen = d.aigen /\ e.replace = d.replace
        /\ e.pseudo = d.pseudo /\ e.version = d.version /\ e.trusted = d.trusted
    BY <2>1 DEF Scored
  <2> QED
    BY <2>2, <2>3, <2>4, <2>5
<1>4. /\ d.depth \in Int /\ d.resilience.asked = FALSE
      /\ d.typo = 0 /\ d.aigen = 0 /\ d.replace = P!Empty /\ d.pseudo = "none"
      /\ d.maintainer.asked = FALSE /\ d.maintainer.archived = FALSE
  BY <1>2 DEF Scored
<1>5. /\ d.maint.known = TRUE /\ d.maint.deprecated = FALSE /\ d.maint.release = 1
      /\ d.maint.activity = P!None /\ d.maint.archived = arch
  BY <1>2 DEF Scored
<1>6. /\ e.maint.known = TRUE /\ e.maint.deprecated = FALSE /\ e.maint.release = 1
      /\ e.maint.activity = P!None /\ e.maint.archived = brch
  BY <1>2 DEF Scored
<1>7. P!MaintKnown(d) /\ P!MaintKnown(e) /\ ~P!MaintainerExcluded(d)
  BY <1>3, <1>4, <1>5, <1>6 DEF P!MaintKnown, P!MaintainerExcluded
<1>8. P!MonthsInactive(d) = 1 /\ P!MonthsInactive(e) = 1
  BY <1>5, <1>6 DEF P!MonthsInactive
<1>9. P!Archived(d) => P!Archived(e)
  BY <1>2, <1>4, <1>5, <1>6, Zenon DEF P!Archived
<1> QED
  BY <1>3, <1>4, <1>5, <1>6, <1>7, <1>8, <1>9

(* The arithmetic of scores: quotients, bonuses, limits and levels.        *)
LEMMA QuotientsGrow ==
  ASSUME NEW f \in Int, NEW g \in Int, f <= g, NEW n \in Nat, n > 0
  PROVE  f \div n \in Int /\ g \div n \in Int /\ f \div n <= g \div n
<1>1. PICK k \in Int : k = f \div n /\ n * k <= f
  BY Quotients
<1>2. n * k <= g
  BY <1>1
<1>3. g \div n \in Int /\ k <= g \div n
  BY <1>2, Quotients
<1> QED
  BY <1>1, <1>3

LEMMA NoBonus ==
  ASSUME NEW d, d.typo = 0, d.aigen = 0, d.resilience.asked = FALSE, d.replace = P!Empty,
         d.pseudo = "none"
  PROVE  P!TyposquatBonus(d) + P!AIGenBonus(d) + P!ResilienceBonus(d)
           + P!IntegrityBonus(d) + P!PseudoVersionBonus(d) = 0
<1>1. P!TyposquatBonus(d) = 0 /\ P!AIGenBonus(d) = 0
  BY DEF P!TyposquatBonus, P!AIGenBonus
<1>2. P!ResilienceBonus(d) = 0
  BY Zenon DEF P!ResilienceBonus
<1>3. P!IntegrityBonus(d) = 0
  <2>1. d.replace # "HIGH" /\ d.replace # "MEDIUM"
    BY SeveritiesAreSaid
  <2> QED
    BY <2>1 DEF P!IntegrityBonus
<1>4. P!PseudoVersionBonus(d) = 0
  BY DEF P!PseudoVersionBonus
<1> QED
  BY <1>1, <1>2, <1>3, <1>4

LEMMA LargerGrows ==
  ASSUME NEW a \in Nat, NEW b \in Nat, a <= b, NEW x \in Int, NEW y \in Int, x <= y
  PROVE  P!Larger(a, x) \in Nat /\ P!Larger(b, y) \in Nat /\ P!Larger(a, x) <= P!Larger(b, y)
BY DEF P!Larger

LEMMA UpTo100 ==
  ASSUME NEW x \in Nat, NEW y \in Nat, x <= y
  PROVE  /\ P!Min({100, x}) \in 0..100 /\ P!Min({100, y}) \in 0..100
         /\ P!Min({100, x}) <= P!Min({100, y})
<1>1. P!Min({100, x}) = IF 100 <= x THEN 100 ELSE x
  BY MinOfTwo
<1>2. P!Min({100, y}) = IF 100 <= y THEN 100 ELSE y
  BY MinOfTwo
<1> QED
  BY <1>1, <1>2

LEMMA LevelGrows ==
  ASSUME NEW x \in 0..100, NEW y \in 0..100, x <= y
  PROVE  /\ P!LevelFromScore(x) \in Nat /\ P!LevelFromScore(y) \in Nat
         /\ P!LevelFromScore(x) <= P!LevelFromScore(y)
<1>1. \A s \in 0..100 :
        P!LevelFromScore(s) = IF s >= 76 THEN 3 ELSE IF s >= 51 THEN 2 ELSE IF s >= 26 THEN 1 ELSE 0
  BY DEF P!LevelFromScore
<1> QED
  BY <1>1

LEMMA RoundingGrows ==
  ASSUME NEW x \in Int, NEW y \in Int, x <= y, NEW b \in Int
  PROVE  /\ (x + b * 100 + 50 * 100) \div (100 * 100) \in Int
         /\ (y + b * 100 + 50 * 100) \div (100 * 100) \in Int
         /\ (x + b * 100 + 50 * 100) \div (100 * 100) <= (y + b * 100 + 50 * 100) \div (100 * 100)
<1>1. PICK f, g \in Int : /\ f = x + b * 100 + 50 * 100 /\ g = y + b * 100 + 50 * 100
                          /\ f <= g
  OBVIOUS
<1>2. PICK n \in Nat : n = 100 * 100 /\ n > 0
  OBVIOUS
<1>3. f \div n \in Int /\ g \div n \in Int /\ f \div n <= g \div n
  BY <1>1, <1>2, QuotientsGrow
<1> QED
  BY <1>1, <1>2, <1>3

(* Its score and its level are no lower.                                   *)
LEMMA ScoreGrows ==
  ASSUME NEW d, NEW e, Worsened(d, e)
  PROVE  /\ P!WeightedScore(d, TRUE) \in Int /\ P!WeightedScore(e, TRUE) \in Int
         /\ P!WeightedScore(d, TRUE) <= P!WeightedScore(e, TRUE)
<1> DEFINE bonus(f) == P!TyposquatBonus(f) + P!AIGenBonus(f) + P!ResilienceBonus(f)
                         + P!IntegrityBonus(f) + P!PseudoVersionBonus(f)
<1>1. /\ e.direct = d.direct /\ e.depth = d.depth /\ e.testOnly = d.testOnly
      /\ e.inBuild = d.inBuild /\ e.maintainer = d.maintainer
      /\ e.resilience = d.resilience /\ e.typo = d.typo /\ e.aigen = d.aigen
      /\ e.replace = d.replace /\ e.pseudo = d.pseudo /\ e.version = d.version
      /\ e.trusted = d.trusted
      /\ P!MaintKnown(d) /\ P!MaintKnown(e) /\ ~P!MaintainerExcluded(d)
      /\ P!MonthsInactive(d) = 1 /\ P!MonthsInactive(e) = 1
      /\ d.maint.deprecated = FALSE /\ e.maint.deprecated = FALSE
      /\ P!Archived(d) => P!Archived(e)
      /\ d.depth \in Int /\ d.resilience.asked = FALSE
      /\ d.typo = 0 /\ d.aigen = 0 /\ d.replace = P!Empty /\ d.pseudo = "none"
  BY WorsenedFields
<1>2. /\ P!MaintKnown(d) /\ P!MaintKnown(e)
      /\ ~P!MaintainerExcluded(d) /\ ~P!MaintainerExcluded(e)
  BY <1>1 DEF P!MaintainerExcluded
<1>3. P!MeasuredWeight(d, TRUE) = 100 /\ P!MeasuredWeight(e, TRUE) = 100
  BY <1>2 DEF P!MeasuredWeight
<1>4. P!DepthScore(e) = P!DepthScore(d) /\ P!DepthScore(d) \in Int
  BY <1>1, MinOfTwo DEF P!DepthScore
<1>5. P!MaturityScore(e) = P!MaturityScore(d) /\ P!MaturityScore(d) \in Int
  BY <1>1 DEF P!MaturityScore
<1>6. P!MaintainerRiskScore(e) = P!MaintainerRiskScore(d) /\ P!MaintainerRiskScore(d) \in Int
  <2>1. e.trusted = d.trusted /\ e.maintainer = d.maintainer
    BY <1>1
  <2> QED
    BY <2>1 DEF P!MaintainerRiskScore
<1>7. /\ P!MaintenanceScore(d) \in Int /\ P!MaintenanceScore(e) \in Int
      /\ P!MaintenanceScore(d) <= P!MaintenanceScore(e)
  BY <1>1 DEF P!MaintenanceScore
<1>8. /\ P!VulnScore(d.vulns) \in Int /\ P!VulnScore(e.vulns) \in Int
      /\ P!VulnScore(d.vulns) <= P!VulnScore(e.vulns)
  <2>1. /\ d.vulns \subseteq Findable /\ IsFiniteSet(d.vulns)
        /\ e.vulns \subseteq Findable /\ IsFiniteSet(e.vulns) /\ Grown(d.vulns, e.vulns)
    BY DEF Worsened, IsScored
  <2> QED
    BY <2>1, VulnScoreGrows
<1>9. /\ P!MeasuredScore(d, TRUE) \in Int /\ P!MeasuredScore(e, TRUE) \in Int
      /\ P!MeasuredScore(d, TRUE) <= P!MeasuredScore(e, TRUE)
  BY <1>2, <1>4, <1>5, <1>6, <1>7, <1>8 DEF P!MeasuredScore
<1>10. bonus(e) = bonus(d) /\ bonus(d) \in Int
  <2>1. /\ d.typo = 0 /\ d.aigen = 0 /\ d.resilience.asked = FALSE /\ d.replace = P!Empty
        /\ d.pseudo = "none"
    BY <1>1
  <2>2. /\ e.typo = 0 /\ e.aigen = 0 /\ e.resilience.asked = FALSE /\ e.replace = P!Empty
        /\ e.pseudo = "none"
    <3>1. /\ e.typo = d.typo /\ e.aigen = d.aigen /\ e.resilience = d.resilience
          /\ e.replace = d.replace /\ e.pseudo = d.pseudo
      BY <1>1
    <3> QED
      BY <2>1, <3>1
  <2>3. bonus(d) = 0
    BY <2>1, NoBonus
  <2>4. bonus(e) = 0
    BY <2>2, NoBonus
  <2> QED
    BY <2>3, <2>4
<1> HIDE DEF bonus
<1>11. PICK x, y, b \in Int : /\ x = P!MeasuredScore(d, TRUE) /\ y = P!MeasuredScore(e, TRUE)
                              /\ b = bonus(d) /\ b = bonus(e) /\ x <= y
  BY <1>9, <1>10
<1>12. /\ P!WeightedScore(d, TRUE) = (x + b * 100 + 50 * 100) \div (100 * 100)
       /\ P!WeightedScore(e, TRUE) = (y + b * 100 + 50 * 100) \div (100 * 100)
  BY <1>3, <1>11 DEF P!WeightedScore, bonus
<1>13. /\ (x + b * 100 + 50 * 100) \div (100 * 100) \in Int
       /\ (y + b * 100 + 50 * 100) \div (100 * 100) \in Int
       /\ (x + b * 100 + 50 * 100) \div (100 * 100) <= (y + b * 100 + 50 * 100) \div (100 * 100)
  <2>1. x <= y
    BY <1>11, Zenon
  <2> QED
    BY <2>1, RoundingGrows
<1> QED
  BY <1>12, <1>13

(* With the floor, when nothing is hidden.                                 *)
LEMMA RiskGrows ==
  ASSUME NEW d, NEW e, Worsened(d, e), ~MediumHidesUnknown(d.vulns, e.vulns)
  PROVE  /\ P!RiskScore(d, TRUE) \in 0..100 /\ P!RiskScore(e, TRUE) \in 0..100
         /\ P!RiskScore(d, TRUE) <= P!RiskScore(e, TRUE)
         /\ P!RiskLevel(d, TRUE) <= P!RiskLevel(e, TRUE)
<1> DEFINE least(f) == IF f.vulns = {} THEN 0 ELSE P!SeverityFloor(f.vulns).floor
<1>1. /\ d.vulns \subseteq Findable /\ e.vulns \subseteq Findable
      /\ Grown(d.vulns, e.vulns) /\ IsScored(d) /\ IsScored(e)
  BY DEF Worsened, IsScored
<1>2. d.vulns # {} => e.vulns # {}
  BY <1>1, GrownAndFound
<1>3. /\ P!SeverityFloor(d.vulns).floor <= P!SeverityFloor(e.vulns).floor
      /\ P!SeverityFloor(d.vulns).level <= P!SeverityFloor(e.vulns).level
      /\ P!SeverityFloor(d.vulns).level \in Nat /\ P!SeverityFloor(e.vulns).level \in Nat
  BY <1>1, FloorGrows
<1>4. P!SeverityFloor(d.vulns).floor \in Nat /\ P!SeverityFloor(e.vulns).floor \in Nat
  BY FloorIsANumber
<1>5. least(d) \in Nat /\ least(e) \in Nat /\ least(d) <= least(e)
  BY <1>2, <1>3, <1>4
<1> HIDE DEF least
<1>6. /\ P!WeightedScore(d, TRUE) \in Int /\ P!WeightedScore(e, TRUE) \in Int
      /\ P!WeightedScore(d, TRUE) <= P!WeightedScore(e, TRUE)
  BY ScoreGrows
<1>7. /\ P!RiskScore(d, TRUE) = P!Min({100, P!Larger(least(d), P!WeightedScore(d, TRUE))})
      /\ P!RiskScore(e, TRUE) = P!Min({100, P!Larger(least(e), P!WeightedScore(e, TRUE))})
  BY DEF P!RiskScore, least
<1>8. /\ P!Larger(least(d), P!WeightedScore(d, TRUE)) \in Nat
      /\ P!Larger(least(e), P!WeightedScore(e, TRUE)) \in Nat
      /\ P!Larger(least(d), P!WeightedScore(d, TRUE))
           <= P!Larger(least(e), P!WeightedScore(e, TRUE))
  BY <1>5, <1>6, LargerGrows
<1>9. /\ P!RiskScore(d, TRUE) \in 0..100 /\ P!RiskScore(e, TRUE) \in 0..100
      /\ P!RiskScore(d, TRUE) <= P!RiskScore(e, TRUE)
  <2>1. PICK a, b \in Nat : /\ a = P!Larger(least(d), P!WeightedScore(d, TRUE))
                            /\ b = P!Larger(least(e), P!WeightedScore(e, TRUE))
                            /\ a <= b
    BY <1>8, Zenon
  <2>2. /\ P!Min({100, a}) \in 0..100 /\ P!Min({100, b}) \in 0..100
        /\ P!Min({100, a}) <= P!Min({100, b})
    <3>1. a <= b
      BY <2>1, Zenon
    <3> QED
      BY <3>1, UpTo100
  <2>3. P!RiskScore(d, TRUE) = P!Min({100, a}) /\ P!RiskScore(e, TRUE) = P!Min({100, b})
    BY <1>7, <2>1, Zenon
  <2> QED
    BY <2>2, <2>3, Zenon
<1>10. /\ P!LevelFromScore(P!RiskScore(d, TRUE)) <= P!LevelFromScore(P!RiskScore(e, TRUE))
       /\ P!LevelFromScore(P!RiskScore(d, TRUE)) \in Nat
       /\ P!LevelFromScore(P!RiskScore(e, TRUE)) \in Nat
  BY <1>9, LevelGrows
<1>11. P!RiskLevel(d, TRUE) <= P!RiskLevel(e, TRUE)
  <2> DEFINE low(f) == IF f.vulns = {} THEN 0 ELSE P!SeverityFloor(f.vulns).level
  <2>1. low(d) \in Nat /\ low(e) \in Nat /\ low(d) <= low(e)
    BY <1>2, <1>3
  <2>2. \A n \in Nat : P!Larger(n, 0) = n
    BY DEF P!Larger
  <2>3. /\ P!RiskLevel(d, TRUE) = P!Larger(P!LevelFromScore(P!RiskScore(d, TRUE)), low(d))
        /\ P!RiskLevel(e, TRUE) = P!Larger(P!LevelFromScore(P!RiskScore(e, TRUE)), low(e))
    BY <1>10, <2>2 DEF P!RiskLevel
  <2> HIDE DEF low
  <2>4. PICK a, b, x, y \in Nat :
          /\ a = P!LevelFromScore(P!RiskScore(d, TRUE)) /\ x = low(d)
          /\ b = P!LevelFromScore(P!RiskScore(e, TRUE)) /\ y = low(e)
          /\ a <= b /\ x <= y
    BY <1>10, <2>1
  <2>5. P!Larger(a, x) <= P!Larger(b, y)
    <3>1. /\ a \in Nat /\ b \in Nat /\ x \in Int /\ y \in Int
      OBVIOUS
    <3>2. a <= b /\ x <= y
      BY <2>4, Zenon
    <3> QED
      BY <3>1, <3>2, LargerGrows, Zenon
  <2> QED
    BY <2>3, <2>4, <2>5
<1> QED
  BY <1>9, <1>11

-----------------------------------------------------------------------------
(* A graph about which worse was found out.                                *)

AllWorse(old, new) ==
  /\ DOMAIN new = DOMAIN old /\ DOMAIN old \subseteq Modules
  /\ \A m \in DOMAIN old : Worsened(old[m], new[m])

(* What follows for the modules of the graph.                              *)
LEMMA WorseGraphs ==
  ASSUME NEW old, NEW new, AllWorse(old, new)
  PROVE  /\ DOMAIN new = DOMAIN old /\ IsFiniteSet(DOMAIN old)
         /\ P!Built(new) = P!Built(old) /\ P!Built(old) \subseteq DOMAIN old
         /\ IsFiniteSet(P!Built(old))
         /\ \A m \in DOMAIN old :
              /\ old[m].vulns \subseteq Findable /\ IsFiniteSet(old[m].vulns)
              /\ new[m].vulns \subseteq Findable /\ IsFiniteSet(new[m].vulns)
              /\ Grown(old[m].vulns, new[m].vulns)
              /\ new[m].direct = old[m].direct /\ new[m].replace = old[m].replace
              /\ P!TestOnlyConfirmed(new[m]) <=> P!TestOnlyConfirmed(old[m])
              /\ P!OutsideBuildConfirmed(new[m]) <=> P!OutsideBuildConfirmed(old[m])
              /\ P!Archived(old[m]) => P!Archived(new[m])
<1>1. DOMAIN new = DOMAIN old /\ IsFiniteSet(DOMAIN old)
  BY NamesAssumption, FS_Subset DEF AllWorse
<1>2. ASSUME NEW m \in DOMAIN old
      PROVE  /\ old[m].vulns \subseteq Findable /\ IsFiniteSet(old[m].vulns)
             /\ new[m].vulns \subseteq Findable /\ IsFiniteSet(new[m].vulns)
             /\ Grown(old[m].vulns, new[m].vulns)
             /\ new[m].direct = old[m].direct /\ new[m].replace = old[m].replace
             /\ P!TestOnlyConfirmed(new[m]) <=> P!TestOnlyConfirmed(old[m])
             /\ P!OutsideBuildConfirmed(new[m]) <=> P!OutsideBuildConfirmed(old[m])
             /\ P!Archived(old[m]) => P!Archived(new[m])
  <2>1. Worsened(old[m], new[m])
    BY DEF AllWorse
  <2>2. /\ new[m].direct = old[m].direct /\ new[m].replace = old[m].replace
        /\ new[m].testOnly = old[m].testOnly /\ new[m].inBuild = old[m].inBuild
        /\ P!Archived(old[m]) => P!Archived(new[m])
    <3>1. PICK d, e : d = old[m] /\ e = new[m]
      OBVIOUS
    <3>2. Worsened(d, e)
      BY <2>1, <3>1
    <3>3. P!Archived(d) => P!Archived(e)
      BY <3>2, WorsenedFields, Zenon
    <3>4. e.direct = d.direct /\ e.replace = d.replace
      BY <3>2, WorsenedFields
    <3>5. e.testOnly = d.testOnly /\ e.inBuild = d.inBuild
      BY <3>2, WorsenedFields
    <3> QED
      BY <3>1, <3>3, <3>4, <3>5, Zenon
  <2>3. /\ old[m].vulns \subseteq Findable /\ IsFiniteSet(old[m].vulns)
        /\ new[m].vulns \subseteq Findable /\ IsFiniteSet(new[m].vulns)
        /\ Grown(old[m].vulns, new[m].vulns)
    BY <2>1 DEF Worsened, IsScored
  <2>4. /\ P!TestOnlyConfirmed(new[m]) <=> P!TestOnlyConfirmed(old[m])
        /\ P!OutsideBuildConfirmed(new[m]) <=> P!OutsideBuildConfirmed(old[m])
    BY <2>2, Zenon DEF P!TestOnlyConfirmed, P!OutsideBuildConfirmed
  <2> QED
    BY <2>2, <2>3, <2>4, Zenon
<1>3. P!Built(new) = P!Built(old)
  BY <1>1, <1>2 DEF P!Built
<1>4. P!Built(old) \subseteq DOMAIN old
  BY DEF P!Built
<1>5. IsFiniteSet(P!Built(old))
  BY <1>1, <1>4, FS_Subset
<1> QED
  BY <1>1, <1>2, <1>3, <1>4, <1>5, Zenon

(* A worse finding counts under its tier or a higher one.                  *)
LEMMA TierGrows ==
  ASSUME NEW d, NEW e, P!TestOnlyConfirmed(e) <=> P!TestOnlyConfirmed(d),
         NEW v \in Findable, NEW w \in Findable, Worse(v, w)
  PROVE  P!TierRank(P!FinalTier(e, w)) >= P!TierRank(P!FinalTier(d, v))
<1> DEFINE t == P!Downgrade(P!ScoredSeverity(v), P!ReachNotches(v.reach))
           u == IF P!TestOnlyConfirmed(d) THEN P!Downgrade(t, 1) ELSE t
<1>1. t \in Severities \union {P!Empty}
  BY ReachedTier
<1>2. /\ P!ScoredSeverity(w) = P!ScoredSeverity(v)
      /\ P!ReachNotches(w.reach) = P!ReachNotches(v.reach)
  BY DEF Worse, P!ScoredSeverity, P!EffectiveTier, P!ConfirmedReachable
<1>3. P!FinalTier(d, v) = P!ThreatTier(u, v)
  BY DEF P!FinalTier
<1>4. P!FinalTier(e, w) = P!ThreatTier(u, w)
  BY <1>2, Zenon DEF P!FinalTier
<1> HIDE DEF t
<1>5. u \in Severities \union {P!Empty}
  BY <1>1, Notches DEF Severities
<1> HIDE DEF u
<1>6. /\ v.kev => w.kev
      /\ v.epss <= w.epss /\ v.epss \in Int /\ w.epss \in Int
  BY DEF Worse, Findable
<1>7. P!TierRank(P!ThreatTier(u, w)) >= P!TierRank(P!ThreatTier(u, v))
  <2>1. CASE u = P!Empty
    BY <2>1, Ranks DEF P!ThreatTier
  <2>2. CASE u # P!Empty /\ w.kev
    <3>1. P!ThreatTier(u, w) = "CRITICAL"
      BY <2>2 DEF P!ThreatTier
    <3>2. P!ThreatTier(u, v) \in Severities
      BY <1>5, <2>2, Notches DEF P!ThreatTier, Severities
    <3> QED
      BY <3>1, <3>2, Ranks DEF Severities
  <2>3. CASE u # P!Empty /\ ~w.kev
    <3>1. ~v.kev
      BY <1>6, <2>3
    <3>2. /\ P!ThreatTier(u, w) = IF w.epss >= 5 THEN P!Promote(u) ELSE u
          /\ P!ThreatTier(u, v) = IF v.epss >= 5 THEN P!Promote(u) ELSE u
      BY <2>3, <3>1 DEF P!ThreatTier, P!EPSSPromotes
    <3>3. /\ P!TierRank(P!Promote(u)) \in Nat /\ P!TierRank(u) \in Nat
          /\ P!TierRank(P!Promote(u)) >= P!TierRank(u)
      BY <1>5, <2>3, Notches, Ranks DEF Severities
    <3> QED
      BY <1>6, <3>2, <3>3
  <2> QED
    BY <2>1, <2>2, <2>3
<1> QED
  BY <1>3, <1>4, <1>7

(* Every finding of the graph is there, under a tier that is no lower.     *)
LEMMA PairsInject ==
  ASSUME NEW old, NEW new, AllWorse(old, new)
  PROVE  \E G \in Injection(PairsOf(old), PairsOf(new)) :
           \A p \in PairsOf(old) :
             /\ P!FinalTier(new[G[p][1]], G[p][2]) \in Severities \union {P!Empty}
             /\ P!FinalTier(old[p[1]], p[2]) \in Severities \union {P!Empty}
             /\ P!TierRank(P!FinalTier(new[G[p][1]], G[p][2]))
                  >= P!TierRank(P!FinalTier(old[p[1]], p[2]))
<1> DEFINE Good(m, h) == /\ h \in Injection(old[m].vulns, new[m].vulns)
                         /\ \A v \in old[m].vulns : Worse(v, h[v])
           H == [m \in DOMAIN old |-> CHOOSE h : Good(m, h)]
           G == [p \in PairsOf(old) |-> <<p[1], H[p[1]][p[2]]>>]
<1>1. \A m \in DOMAIN old : Good(m, H[m])
  <2> SUFFICES ASSUME NEW m \in DOMAIN old PROVE Good(m, H[m])
    OBVIOUS
  <2>1. \E h : Good(m, h)
    BY WorseGraphs DEF Grown
  <2>2. H[m] = CHOOSE h : Good(m, h)
    OBVIOUS
  <2> HIDE DEF H, Good
  <2> QED
    BY <2>1, <2>2
<1> HIDE DEF H
<1>2. ASSUME NEW p \in PairsOf(old)
      PROVE  /\ p = <<p[1], p[2]>> /\ p[1] \in DOMAIN old /\ p[2] \in old[p[1]].vulns
             /\ G[p] = <<p[1], H[p[1]][p[2]]>> /\ G[p] \in PairsOf(new)
             /\ G[p][1] = p[1] /\ G[p][2] = H[p[1]][p[2]]
             /\ G[p][2] \in new[p[1]].vulns /\ Worse(p[2], G[p][2])
  <2>1. PICK m \in DOMAIN old : \E v \in old[m].vulns : p = <<m, v>>
    BY DEF PairsOf
  <2>2. PICK v \in old[m].vulns : p = <<m, v>>
    BY <2>1
  <2>3. p[1] = m /\ p[2] = v
    BY <2>2
  <2>4. G[p] = <<m, H[m][v]>>
    BY <2>3
  <2>5. H[m][v] \in new[m].vulns /\ Worse(v, H[m][v])
    BY <1>1 DEF Injection
  <2>6. <<m, H[m][v]>> \in PairsOf(new)
    BY <2>5, WorseGraphs DEF PairsOf
  <2> HIDE DEF G
  <2> QED
    BY <2>2, <2>3, <2>4, <2>5, <2>6
<1>3. ASSUME NEW p \in PairsOf(old), NEW q \in PairsOf(old), G[p] = G[q] PROVE p = q
  <2>1. /\ p = <<p[1], p[2]>> /\ q = <<q[1], q[2]>> /\ p[1] \in DOMAIN old
        /\ p[2] \in old[p[1]].vulns /\ q[2] \in old[q[1]].vulns
        /\ G[p][1] = p[1] /\ G[p][2] = H[p[1]][p[2]]
        /\ G[q][1] = q[1] /\ G[q][2] = H[q[1]][q[2]]
    BY <1>2
  <2>2. p[1] = q[1] /\ H[p[1]][p[2]] = H[p[1]][q[2]]
    BY <1>3, <2>1
  <2>3. H[p[1]] \in Injection(old[p[1]].vulns, new[p[1]].vulns)
    BY <1>1, <2>1
  <2>4. \A v, w \in old[p[1]].vulns : H[p[1]][v] = H[p[1]][w] => v = w
    BY <2>3 DEF Injection, IsInjective
  <2>5. p[2] = q[2]
    BY <2>1, <2>2, <2>4
  <2> QED
    BY <2>1, <2>2, <2>5, Zenon
<1>4. G \in Injection(PairsOf(old), PairsOf(new))
  <2>1. \A p \in PairsOf(old) : G[p] \in PairsOf(new)
    BY <1>2
  <2>2. G \in [PairsOf(old) -> PairsOf(new)]
    BY <2>1
  <2>3. \A p, q \in PairsOf(old) : G[p] = G[q] => p = q
    BY <1>3
  <2> HIDE DEF G
  <2> QED
    BY <2>2, <2>3 DEF Injection, IsInjective
<1> HIDE DEF G
<1>5. ASSUME NEW p \in PairsOf(old)
      PROVE  /\ P!FinalTier(new[G[p][1]], G[p][2]) \in Severities \union {P!Empty}
             /\ P!FinalTier(old[p[1]], p[2]) \in Severities \union {P!Empty}
             /\ P!TierRank(P!FinalTier(new[G[p][1]], G[p][2]))
                  >= P!TierRank(P!FinalTier(old[p[1]], p[2]))
  <2>1. PICK m \in DOMAIN old : m = p[1]
    BY <1>2
  <2>2. PICK v, w : v = p[2] /\ w = G[p][2]
    OBVIOUS
  <2>3. v \in Findable /\ w \in Findable /\ Worse(v, w) /\ G[p][1] = m
    <3>1. v \in old[m].vulns /\ w \in new[m].vulns /\ Worse(v, w) /\ G[p][1] = m
      BY <1>2, <2>1, <2>2
    <3> QED
      BY <3>1, WorseGraphs
  <2>4. P!TestOnlyConfirmed(new[m]) <=> P!TestOnlyConfirmed(old[m])
    BY WorseGraphs, Zenon
  <2>5. P!TierRank(P!FinalTier(new[m], w)) >= P!TierRank(P!FinalTier(old[m], v))
    BY <2>3, <2>4, TierGrows
  <2>6. /\ P!FinalTier(new[m], w) \in Severities \union {P!Empty}
        /\ P!FinalTier(old[m], v) \in Severities \union {P!Empty}
    BY <2>3, FinalTierIsTier
  <2> QED
    BY <2>1, <2>2, <2>3, <2>5, <2>6
<1> QED
  BY <1>4, <1>5

(* The candidate that counts the findings under each tier.                 *)
LEMMA SeverityGrows ==
  ASSUME NEW old, NEW new, AllWorse(old, new)
  PROVE  P!SeverityAdjusted(old) \in 0..100 /\ P!SeverityAdjusted(new) \in 0..100
         /\ P!SeverityAdjusted(old) <= P!SeverityAdjusted(new)
<1> DEFINE D(t) == P!Counted(new, t)
           T(t) == P!Counted(old, t)
<1>1. IsFiniteSet(PairsOf(old)) /\ IsFiniteSet(PairsOf(new))
  BY WorseGraphs, PairsAreFinite
<1>2. PICK G \in Injection(PairsOf(old), PairsOf(new)) :
         \A p \in PairsOf(old) :
           /\ P!FinalTier(new[G[p][1]], G[p][2]) \in Severities \union {P!Empty}
           /\ P!FinalTier(old[p[1]], p[2]) \in Severities \union {P!Empty}
           /\ P!TierRank(P!FinalTier(new[G[p][1]], G[p][2]))
                >= P!TierRank(P!FinalTier(old[p[1]], p[2]))
  BY PairsInject
<1>3. \A t : \A p \in T(t) : p \in PairsOf(old) /\ P!FinalTier(old[p[1]], p[2]) = t
  BY DEF P!Counted, PairsOf
<1>4. \A p \in PairsOf(new) : p \in D(P!FinalTier(new[p[1]], p[2]))
  BY DEF P!Counted, PairsOf
<1>5. \A p \in PairsOf(old) : G[p] \in PairsOf(new)
  BY DEF Injection
<1>6. \A p, q \in PairsOf(old) : G[p] = G[q] => p = q
  BY DEF Injection, IsInjective
<1> HIDE DEF D, T
<1>7. \A p \in T("CRITICAL") : G[p] \in D("CRITICAL")
  BY <1>2, <1>3, <1>4, <1>5, HigherTiers
<1>8. \A p \in T("HIGH") : G[p] \in D("HIGH") \/ G[p] \in D("CRITICAL")
  BY <1>2, <1>3, <1>4, <1>5, HigherTiers
<1>9. \A p \in T("MEDIUM") : G[p] \in D("MEDIUM") \/ G[p] \in D("HIGH") \/ G[p] \in D("CRITICAL")
  BY <1>2, <1>3, <1>4, <1>5, HigherTiers
<1>10. \A p \in T("LOW") :
         G[p] \in D("LOW") \/ G[p] \in D("MEDIUM") \/ G[p] \in D("HIGH") \/ G[p] \in D("CRITICAL")
  BY <1>2, <1>3, <1>4, <1>5, HigherTiers
<1>11. PICK dc, dh, dm, dl \in Nat :
         /\ dc = P!Cardinality(D("CRITICAL")) /\ dh = P!Cardinality(D("HIGH"))
         /\ dm = P!Cardinality(D("MEDIUM")) /\ dl = P!Cardinality(D("LOW"))
  BY <1>1, CountedIsANumber DEF D
<1>12. PICK tc, th, tm, tl \in Nat :
         /\ tc = P!Cardinality(T("CRITICAL")) /\ th = P!Cardinality(T("HIGH"))
         /\ tm = P!Cardinality(T("MEDIUM")) /\ tl = P!Cardinality(T("LOW"))
  BY <1>1, CountedIsANumber DEF T
<1>13. /\ dc > 0 <=> D("CRITICAL") # {}
       /\ dh > 0 <=> D("HIGH") # {}
       /\ dm > 0 <=> D("MEDIUM") # {}
       /\ dl > 0 <=> D("LOW") # {}
  BY <1>1, <1>11, CountedIsANumber DEF D
<1>14. /\ tc > 0 <=> T("CRITICAL") # {}
       /\ th > 0 <=> T("HIGH") # {}
       /\ tm > 0 <=> T("MEDIUM") # {}
       /\ tl > 0 <=> T("LOW") # {}
  BY <1>1, <1>12, CountedIsANumber DEF T
<1>15. dc = 0 => dh >= th
  <2> SUFFICES ASSUME dc = 0 PROVE dh >= th
    OBVIOUS
  <2> DEFINE g == [p \in T("HIGH") |-> G[p]]
  <2>1. D("CRITICAL") = {}
    BY <1>13
  <2>2. \A p \in T("HIGH") : G[p] \in D("HIGH") /\ p \in PairsOf(old)
    BY <1>3, <1>8, <2>1
  <2>3. IsFiniteSet(D("HIGH"))
    BY <1>1, CountedIsANumber DEF D
  <2>4. g \in Injection(T("HIGH"), D("HIGH"))
    BY <1>6, <2>2 DEF Injection, IsInjective
  <2>5. Cardinality(T("HIGH")) <= Cardinality(D("HIGH"))
    BY <2>3, <2>4, FS_Injection
  <2>6. /\ P!Cardinality(T("HIGH")) = Cardinality(T("HIGH"))
        /\ P!Cardinality(D("HIGH")) = Cardinality(D("HIGH"))
    BY DEF P!Cardinality, Cardinality
  <2> QED
    BY <1>11, <1>12, <2>5, <2>6
<1>16. /\ tc > 0 => dc > 0
       /\ th > 0 => dh > 0 \/ dc > 0
       /\ tm > 0 => dm > 0 \/ dh > 0 \/ dc > 0
       /\ tl > 0 => dl > 0 \/ dm > 0 \/ dh > 0 \/ dc > 0
  BY <1>7, <1>8, <1>9, <1>10, <1>13, <1>14
<1>17. P!SeverityAdjusted(new) =
         IF dc > 0 THEN 95 ELSE IF dh >= 3 THEN 85 ELSE IF dh > 0 THEN 70
         ELSE IF dm > 0 THEN 40 ELSE IF dl > 0 THEN 10 ELSE 0
  BY <1>11 DEF P!SeverityAdjusted, D
<1>18. P!SeverityAdjusted(old) =
         IF tc > 0 THEN 95 ELSE IF th >= 3 THEN 85 ELSE IF th > 0 THEN 70
         ELSE IF tm > 0 THEN 40 ELSE IF tl > 0 THEN 10 ELSE 0
  BY <1>12 DEF P!SeverityAdjusted, T
<1> QED
  BY <1>15, <1>16, <1>17, <1>18

(* The floors.                                                             *)
LEMMA DirectFloorIsBounded ==
  ASSUME NEW deps, NEW ms
  PROVE  P!DirectFloor(deps, ms) \in 0..100
<1> DEFINE D == {0} \union {IF deps[m].direct THEN 60 ELSE 51 : m \in ms}
<1>1. PICK n \in Nat : n = 60
  OBVIOUS
<1>2. D # {} /\ \A x \in D : x \in Nat /\ x <= n
  BY <1>1
<1> HIDE DEF D
<1>3. P!Max(D) \in Nat /\ P!Max(D) <= n
  BY <1>2, Greatest
<1> QED
  BY <1>1, <1>3 DEF P!DirectFloor, D

(* An archived module stays archived.                                      *)
LEMMA ArchivedGrows ==
  ASSUME NEW old, NEW new, AllWorse(old, new)
  PROVE  P!ArchivedFloor(old) <= P!ArchivedFloor(new)
<1> DEFINE D == {m \in P!Built(new) : P!Archived(new[m])}
           T == {m \in P!Built(old) : P!Archived(old[m])}
<1>1. T \subseteq D /\ \A m \in T : new[m].direct = old[m].direct
  <2> SUFFICES ASSUME NEW m \in T PROVE m \in D /\ new[m].direct = old[m].direct
    OBVIOUS
  <2>1. m \in DOMAIN old /\ m \in P!Built(new) /\ P!Archived(old[m])
    BY WorseGraphs
  <2>2. P!Archived(new[m]) /\ new[m].direct = old[m].direct
    BY <2>1, WorseGraphs, Zenon
  <2> QED
    BY <2>1, <2>2
<1> HIDE DEF D, T
<1>2. P!DirectFloor(new, D) >= P!DirectFloor(old, T)
  BY <1>1, DirectFloorIsNotLower
<1> QED
  BY <1>2, DirectFloorIsBounded DEF P!ArchivedFloor, D, T

(* Nothing found out is about replacements.                                *)
LEMMA IntegrityStays ==
  ASSUME NEW old, NEW new, AllWorse(old, new), NEW mismatch
  PROVE  P!IntegrityFloor(old, mismatch) <= P!IntegrityFloor(new, mismatch)
<1> DEFINE D == {m \in DOMAIN new : ~P!TestOnlyConfirmed(new[m]) /\ new[m].replace = "HIGH"}
           T == {m \in DOMAIN old : ~P!TestOnlyConfirmed(old[m]) /\ old[m].replace = "HIGH"}
<1>1. T \subseteq D /\ \A m \in T : new[m].direct = old[m].direct
  <2> SUFFICES ASSUME NEW m \in T PROVE m \in D /\ new[m].direct = old[m].direct
    OBVIOUS
  <2>1. /\ m \in DOMAIN old /\ m \in DOMAIN new
        /\ ~P!TestOnlyConfirmed(old[m]) /\ old[m].replace = "HIGH"
    BY WorseGraphs
  <2>2. ~P!TestOnlyConfirmed(new[m]) /\ new[m].replace = "HIGH" /\ new[m].direct = old[m].direct
    BY <2>1, WorseGraphs, Zenon
  <2> QED
    BY <2>1, <2>2
<1> HIDE DEF D, T
<1>2. P!DirectFloor(new, D) >= P!DirectFloor(old, T)
  BY <1>1, DirectFloorIsNotLower
<1>3. P!DirectFloor(new, D) \in 0..100 /\ P!DirectFloor(old, T) \in 0..100
  BY DirectFloorIsBounded
<1>4. /\ P!IntegrityFloor(old, mismatch) = IF mismatch THEN 76 ELSE P!DirectFloor(old, T)
      /\ P!IntegrityFloor(new, mismatch) = IF mismatch THEN 76 ELSE P!DirectFloor(new, D)
  BY DEF P!IntegrityFloor, D, T
<1> QED
  BY <1>2, <1>3, <1>4

(* A finding that is no better sets a floor that is no lower.              *)
LEMMA CVEGrows ==
  ASSUME NEW old, NEW new, AllWorse(old, new)
  PROVE  P!CVEFloor(old) \in 0..100 /\ P!CVEFloor(new) \in 0..100
         /\ P!CVEFloor(old) <= P!CVEFloor(new)
<1> DEFINE D == {0} \union UNION {{P!FloorOf(v) : v \in new[m].vulns} :
                                  m \in {m \in DOMAIN new : ~P!TestOnlyConfirmed(new[m])}}
           T == {0} \union UNION {{P!FloorOf(v) : v \in old[m].vulns} :
                                  m \in {m \in DOMAIN old : ~P!TestOnlyConfirmed(old[m])}}
<1>1. PICK n \in Nat : n = 60
  OBVIOUS
<1>2. ASSUME NEW m \in DOMAIN old, ~P!TestOnlyConfirmed(old[m]), NEW v \in old[m].vulns
      PROVE  /\ m \in DOMAIN new /\ ~P!TestOnlyConfirmed(new[m])
             /\ \E w \in new[m].vulns : P!FloorOf(w) = P!FloorOf(v)
  <2>1. m \in DOMAIN new /\ Grown(old[m].vulns, new[m].vulns)
    BY WorseGraphs
  <2>2. ~P!TestOnlyConfirmed(new[m])
    BY <1>2, WorseGraphs, Zenon
  <2>3. PICK w \in new[m].vulns : Worse(v, w)
    BY <2>1, GrownAndFound
  <2>4. P!FloorOf(w) = P!FloorOf(v)
    <3>1. w.reach = v.reach /\ P!EffectiveTier(w) = P!EffectiveTier(v)
      BY <2>3 DEF Worse, P!EffectiveTier
    <3> QED
      BY <3>1, Zenon DEF P!FloorOf
  <2> QED
    BY <2>1, <2>2, <2>4
<1>3. T \subseteq D
  <2> SUFFICES ASSUME NEW x \in T, x # 0 PROVE x \in D
    OBVIOUS
  <2>1. PICK m \in DOMAIN old :
          ~P!TestOnlyConfirmed(old[m]) /\ x \in {P!FloorOf(v) : v \in old[m].vulns}
    OBVIOUS
  <2>2. PICK v \in old[m].vulns : x = P!FloorOf(v)
    BY <2>1
  <2>3. PICK w \in new[m].vulns : P!FloorOf(w) = x
    BY <1>2, <2>1, <2>2
  <2>4. m \in DOMAIN new /\ ~P!TestOnlyConfirmed(new[m])
    BY <1>2, <2>1, <2>2
  <2> QED
    BY <2>3, <2>4
<1>4. \A v : P!FloorOf(v) \in Nat /\ P!FloorOf(v) <= n
  BY <1>1 DEF P!FloorOf
<1>5. T # {} /\ D # {} /\ \A x \in D : x \in Nat /\ x <= n
  BY <1>4
<1> HIDE DEF D, T
<1>6. P!Max(T) <= P!Max(D) /\ P!Max(T) \in Nat /\ P!Max(D) \in Nat
  BY <1>3, <1>5, GreaterWithMore
<1>7. P!Max(D) <= n
  BY <1>5, Greatest
<1> QED
  BY <1>1, <1>6, <1>7 DEF P!CVEFloor, D, T

-----------------------------------------------------------------------------
(* The percentile, the headline and the mean.                              *)

(* How many scores are at most x.                                          *)
UpTo(B, r, x) == {m \in B : r[m] <= x}
Ranked(B, r) ==
  {x \in {r[m] : m \in B} : Cardinality(UpTo(B, r, x)) >= (95 * Cardinality(B) + 99) \div 100}

(* The score at the nearest rank.                                          *)
LEMMA RanksExist ==
  ASSUME NEW B, IsFiniteSet(B), B # {}, NEW r \in [B -> 0..100]
  PROVE  /\ Ranked(B, r) # {}
         /\ Ranked(B, r) \subseteq 0..100
         /\ Cardinality(B) \in Nat
         /\ (95 * Cardinality(B) + 99) \div 100 \in Nat
         /\ (95 * Cardinality(B) + 99) \div 100 > 0
<1> DEFINE all == {r[m] : m \in B}
<1>1. PICK h \in Nat : h = 100
  OBVIOUS
<1>2. all # {} /\ \A x \in all : x \in Nat /\ x <= h
  BY <1>1
<1>3. \A m \in B : r[m] \in all
  OBVIOUS
<1>4. all \subseteq 0..100
  OBVIOUS
<1> HIDE DEF all
<1>5. P!Max(all) \in all /\ \A x \in all : x <= P!Max(all)
  BY <1>2, Greatest
<1>6. UpTo(B, r, P!Max(all)) = B
  BY <1>3, <1>5 DEF UpTo
<1>7. Cardinality(B) \in Nat /\ Cardinality(B) > 0
  BY FS_CardinalityType, FS_EmptySet
<1>8. \A n \in Nat : n > 0 => /\ (95 * n + 99) \div 100 \in Nat /\ (95 * n + 99) \div 100 > 0
                              /\ n >= (95 * n + 99) \div 100
  OBVIOUS
<1>9. P!Max(all) \in Ranked(B, r)
  BY <1>5, <1>6, <1>7, <1>8 DEF Ranked, all
<1>10. Ranked(B, r) \subseteq 0..100
  BY <1>4 DEF Ranked, all
<1> QED
  BY <1>7, <1>8, <1>9, <1>10

(* Of scores that are no lower, the score at the rank is no lower.         *)
LEMMA PercentilesGrow ==
  ASSUME NEW B, IsFiniteSet(B), B # {}, NEW r \in [B -> 0..100], NEW q \in [B -> 0..100],
         \A m \in B : r[m] <= q[m]
  PROVE  /\ P!Min(Ranked(B, r)) \in 0..100 /\ P!Min(Ranked(B, q)) \in 0..100
         /\ P!Min(Ranked(B, r)) <= P!Min(Ranked(B, q))
<1> DEFINE rank == (95 * Cardinality(B) + 99) \div 100
<1>1. /\ Ranked(B, r) # {} /\ Ranked(B, q) # {}
      /\ Ranked(B, r) \subseteq 0..100 /\ Ranked(B, q) \subseteq 0..100
      /\ Cardinality(B) \in Nat /\ rank \in Nat /\ rank > 0
  BY RanksExist
<1>2. \A x \in Ranked(B, q) : Cardinality(UpTo(B, q, x)) >= rank /\ x \in 0..100
  BY <1>1 DEF Ranked
<1>3. \A m \in B : Cardinality(UpTo(B, r, r[m])) >= rank => r[m] \in Ranked(B, r)
  BY DEF Ranked
<1> HIDE DEF rank
<1>4. /\ P!Min(Ranked(B, r)) \in Ranked(B, r)
      /\ \A x \in Ranked(B, r) : P!Min(Ranked(B, r)) <= x
  <2>1. \A x \in Ranked(B, r) : x \in Nat
    BY <1>1
  <2> QED
    BY <1>1, <2>1, LeastIsMin
<1>5. P!Min(Ranked(B, q)) \in Ranked(B, q)
  <2>1. \A x \in Ranked(B, q) : x \in Nat
    BY <1>1
  <2> QED
    BY <1>1, <2>1, LeastIsMin
<1>6. PICK b \in 0..100 : b = P!Min(Ranked(B, q)) /\ Cardinality(UpTo(B, q, b)) >= rank
  BY <1>2, <1>5
<1>7. IsFiniteSet(UpTo(B, r, b)) /\ UpTo(B, q, b) \subseteq UpTo(B, r, b)
  <2>1. UpTo(B, r, b) \subseteq B
    BY DEF UpTo
  <2>2. \A m \in B : r[m] \in 0..100 /\ q[m] \in 0..100
    OBVIOUS
  <2>3. UpTo(B, q, b) \subseteq UpTo(B, r, b)
    BY <2>2 DEF UpTo
  <2> QED
    BY <2>1, <2>3, FS_Subset
<1>8. /\ Cardinality(UpTo(B, q, b)) <= Cardinality(UpTo(B, r, b))
      /\ Cardinality(UpTo(B, r, b)) \in Nat /\ Cardinality(UpTo(B, q, b)) \in Nat
  BY <1>7, FS_Subset, FS_CardinalityType
<1>9. Cardinality(UpTo(B, r, b)) >= rank
  BY <1>1, <1>6, <1>8
<1>10. UpTo(B, r, b) # {}
  BY <1>1, <1>9, FS_EmptySet
<1> DEFINE low == {r[m] : m \in UpTo(B, r, b)}
<1>11. PICK h \in Nat : h = 100
  OBVIOUS
<1>12. low # {} /\ \A x \in low : x \in Nat /\ x <= h /\ x <= b
  BY <1>10, <1>11 DEF UpTo
<1>13. P!Max(low) \in low /\ \A x \in low : x <= P!Max(low)
  <2> HIDE DEF low
  <2> QED
    BY <1>12, Greatest
<1>14. PICK k \in UpTo(B, r, b) : r[k] = P!Max(low)
  BY <1>13
<1>15. UpTo(B, r, b) \subseteq UpTo(B, r, r[k])
  <2> SUFFICES ASSUME NEW m \in UpTo(B, r, b) PROVE m \in UpTo(B, r, r[k])
    OBVIOUS
  <2>1. r[m] \in low /\ m \in B
    BY DEF UpTo
  <2>2. r[m] <= r[k]
    BY <1>13, <1>14, <2>1
  <2> QED
    BY <2>1, <2>2 DEF UpTo
<1>16. Cardinality(UpTo(B, r, r[k])) >= rank
  <2>1. UpTo(B, r, r[k]) \subseteq B
    BY DEF UpTo
  <2>2. IsFiniteSet(UpTo(B, r, r[k]))
    BY <2>1, FS_Subset
  <2>3. /\ Cardinality(UpTo(B, r, b)) <= Cardinality(UpTo(B, r, r[k]))
        /\ Cardinality(UpTo(B, r, r[k])) \in Nat
    BY <1>15, <2>2, FS_Subset, FS_CardinalityType
  <2> QED
    BY <1>1, <1>8, <1>9, <2>3
<1>17. k \in B /\ r[k] <= b /\ r[k] \in 0..100
  BY DEF UpTo
<1>18. P!Min(Ranked(B, r)) <= r[k]
  BY <1>3, <1>4, <1>16, <1>17
<1> QED
  BY <1>1, <1>4, <1>6, <1>17, <1>18

(* The percentile of a graph is that of the scores of what is built.       *)
Risks(deps, B) == [m \in B |-> P!RiskScore(deps[m], TRUE)]

(* That is what P95 computes from pairs.                                   *)
LEMMA PercentileOfScores ==
  ASSUME NEW deps, IsFiniteSet(P!Built(deps))
  PROVE  P!P95(deps, TRUE) = IF P!Built(deps) = {} THEN 0
                             ELSE P!Min(Ranked(P!Built(deps), Risks(deps, P!Built(deps))))
<1> DEFINE B == P!Built(deps)
           r == Risks(deps, B)
           scores == {<<m, P!RiskScore(deps[m], TRUE)>> : m \in B}
           rank == (95 * P!Cardinality(scores) + 99) \div 100
           values == {p[2] : p \in {p \in scores :
                        P!Cardinality({q \in scores : q[2] <= p[2]}) >= rank}}
<1>1. P!P95(deps, TRUE) = IF scores = {} THEN 0 ELSE P!Min(values)
  BY DEF P!P95
<1>2. scores = {} <=> B = {}
  OBVIOUS
<1>3. scores = PairsWith(B, r)
  BY DEF PairsWith, Risks
<1>4. PICK C : C = B
  OBVIOUS
<1>5. PICK s : s = r
  OBVIOUS
<1>6. \A x : P!Cardinality({q \in PairsWith(C, s) : q[2] <= x}) = Cardinality(UpTo(C, s, x))
  <2> SUFFICES ASSUME NEW x
               PROVE  P!Cardinality({q \in PairsWith(C, s) : q[2] <= x})
                        = Cardinality(UpTo(C, s, x))
    OBVIOUS
  <2> DEFINE Q == {q \in PairsWith(C, s) : q[2] <= x}
             g == [m \in UpTo(C, s, x) |-> <<m, s[m]>>]
  <2>1. \A m \in UpTo(C, s, x) : <<m, s[m]>> \in Q
    BY DEF UpTo, PairsWith
  <2>2. \A q \in Q : \E m \in UpTo(C, s, x) : <<m, s[m]>> = q
    BY DEF UpTo, PairsWith
  <2>3. IsFiniteSet(UpTo(C, s, x))
    <3>1. UpTo(C, s, x) \subseteq C
      BY DEF UpTo
    <3> QED
      BY <1>4, <3>1, FS_Subset
  <2> HIDE DEF Q
  <2>4. g \in Injection(UpTo(C, s, x), Q)
    BY <2>1 DEF Injection, IsInjective
  <2>5. g \in Surjection(UpTo(C, s, x), Q)
    BY <2>1, <2>2 DEF Surjection
  <2> HIDE DEF g
  <2>6. Cardinality(Q) = Cardinality(UpTo(C, s, x))
    BY <2>3, <2>4, <2>5, FS_Surjection
  <2>7. P!Cardinality(Q) = Cardinality(Q)
    BY DEF P!Cardinality, Cardinality
  <2> QED
    BY <2>6, <2>7 DEF Q
<1>7. P!Cardinality(PairsWith(C, s)) = Cardinality(C)
  <2> DEFINE g == [m \in C |-> <<m, s[m]>>]
             Q == PairsWith(C, s)
  <2>1. g \in Injection(C, Q)
    BY DEF Injection, IsInjective, PairsWith
  <2>2. g \in Surjection(C, Q)
    BY DEF Surjection, PairsWith
  <2> HIDE DEF g, Q
  <2>3. IsFiniteSet(C)
    BY <1>4
  <2>4. Cardinality(Q) = Cardinality(C)
    BY <2>1, <2>2, <2>3, FS_Surjection
  <2>5. P!Cardinality(Q) = Cardinality(Q)
    BY DEF P!Cardinality, Cardinality
  <2> QED
    BY <2>4, <2>5 DEF Q
<1>8. values = Ranked(C, s)
  <2>1. scores = PairsWith(C, s)
    BY <1>3, <1>4, <1>5
  <2> HIDE DEF scores
  <2>2. rank = (95 * Cardinality(C) + 99) \div 100
    BY <1>7, <2>1
  <2> HIDE DEF rank
  <2>3. \A p \in scores : p[2] \in {s[m] : m \in C}
    BY <2>1 DEF PairsWith
  <2>4. \A m \in C : <<m, s[m]>> \in scores
    BY <2>1 DEF PairsWith
  <2>5. \A x : P!Cardinality({q \in scores : q[2] <= x}) = Cardinality(UpTo(C, s, x))
    BY <1>6, <2>1
  <2>6. ASSUME NEW x \in values PROVE x \in Ranked(C, s)
    <3>1. PICK p \in scores : x = p[2] /\ P!Cardinality({q \in scores : q[2] <= p[2]}) >= rank
      OBVIOUS
    <3>2. Cardinality(UpTo(C, s, x)) >= rank
      BY <2>5, <3>1
    <3> QED
      BY <2>2, <2>3, <3>1, <3>2 DEF Ranked
  <2>7. ASSUME NEW x \in Ranked(C, s) PROVE x \in values
    <3>1. PICK m \in C : x = s[m] /\ Cardinality(UpTo(C, s, x)) >= rank
      BY <2>2 DEF Ranked
    <3>2. P!Cardinality({q \in scores : q[2] <= x}) >= rank
      BY <2>5, <3>1
    <3>3. PICK p \in scores : p = <<m, s[m]>>
      BY <2>4
    <3>4. p[2] = x
      BY <3>1, <3>3
    <3> QED
      BY <3>2, <3>4
  <2> HIDE DEF values
  <2> QED
    BY <2>6, <2>7
<1> HIDE DEF values, scores
<1>9. values = Ranked(B, r)
  BY <1>4, <1>5, <1>8
<1> QED
  BY <1>1, <1>2, <1>9

(* The score and level of every module of a graph that was not hidden.     *)
NoneHidden(old, new) ==
  \A m \in DOMAIN old : ~MediumHidesUnknown(old[m].vulns, new[m].vulns)

LEMMA RisksGrow ==
  ASSUME NEW old, NEW new, AllWorse(old, new), NoneHidden(old, new),
         NEW B, B \subseteq DOMAIN old
  PROVE  /\ Risks(old, B) \in [B -> 0..100] /\ Risks(new, B) \in [B -> 0..100]
         /\ \A m \in B : Risks(old, B)[m] <= Risks(new, B)[m]
<1>1. ASSUME NEW m \in B
      PROVE  /\ P!RiskScore(old[m], TRUE) \in 0..100 /\ P!RiskScore(new[m], TRUE) \in 0..100
             /\ P!RiskScore(old[m], TRUE) <= P!RiskScore(new[m], TRUE)
  <2>1. Worsened(old[m], new[m]) /\ ~MediumHidesUnknown(old[m].vulns, new[m].vulns)
    BY DEF AllWorse, NoneHidden
  <2> QED
    BY <2>1, RiskGrows, Zenon
<1> QED
  BY <1>1 DEF Risks

(* The percentile.                                                         *)
LEMMA PercentileGrows ==
  ASSUME NEW old, NEW new, AllWorse(old, new), NoneHidden(old, new)
  PROVE  P!P95(old, TRUE) \in 0..100 /\ P!P95(new, TRUE) \in 0..100
         /\ P!P95(old, TRUE) <= P!P95(new, TRUE)
<1>1. PICK B : /\ B = P!Built(old) /\ B = P!Built(new)
               /\ IsFiniteSet(B) /\ B \subseteq DOMAIN old
  BY WorseGraphs
<1>2. PICK r, q : r = Risks(old, B) /\ q = Risks(new, B)
  OBVIOUS
<1>3. r \in [B -> 0..100] /\ q \in [B -> 0..100] /\ \A m \in B : r[m] <= q[m]
  BY <1>1, <1>2, RisksGrow
<1>4. P!P95(old, TRUE) = IF B = {} THEN 0 ELSE P!Min(Ranked(B, r))
  BY <1>1, <1>2, PercentileOfScores
<1>5. P!P95(new, TRUE) = IF B = {} THEN 0 ELSE P!Min(Ranked(B, q))
  BY <1>1, <1>2, PercentileOfScores
<1>6. CASE B = {}
  <2>1. P!P95(old, TRUE) = 0 /\ P!P95(new, TRUE) = 0
    BY <1>4, <1>5, <1>6, Zenon
  <2>2. \A x, y : x = 0 /\ y = 0 => x \in 0..100 /\ y \in 0..100 /\ x <= y
    OBVIOUS
  <2> QED
    BY <2>1, <2>2, Zenon
<1>7. CASE B # {}
  <2>1. /\ P!Min(Ranked(B, r)) \in 0..100 /\ P!Min(Ranked(B, q)) \in 0..100
        /\ P!Min(Ranked(B, r)) <= P!Min(Ranked(B, q))
    BY <1>1, <1>3, <1>7, PercentilesGrow
  <2> QED
    BY <1>4, <1>5, <1>7, <2>1
<1> QED
  BY <1>6, <1>7

(* The headline is the highest of the candidates.                          *)
LEMMA HeadlineIsHighest ==
  ASSUME NEW cs, DOMAIN cs = 1..5, \A i \in 1..5 : cs[i].score \in 0..100
  PROVE  /\ \E i \in 1..5 : P!SelectHeadline(cs).score = cs[i].score
         /\ \A i \in 1..5 : cs[i].score <= P!SelectHeadline(cs).score
<1> DEFINE S == {cs[i].score : i \in 1..5}
           best == {i \in DOMAIN cs : \A j \in DOMAIN cs : cs[j].score <= cs[i].score}
<1>1. PICK h \in Nat : h = 100
  OBVIOUS
<1>2. S # {} /\ \A x \in S : x \in Nat /\ x <= h
  BY <1>1
<1>3. \A i \in 1..5 : cs[i].score \in S
  OBVIOUS
<1>4. PICK k \in 1..5 : \A x \in S : x <= cs[k].score
  <2> HIDE DEF S
  <2>1. P!Max(S) \in S /\ \A x \in S : x <= P!Max(S)
    BY <1>2, Greatest
  <2> USE DEF S
  <2>2. PICK i \in 1..5 : P!Max(S) = cs[i].score
    BY <2>1
  <2> HIDE DEF S
  <2> QED
    BY <2>1, <2>2
<1>5. k \in best
  BY <1>3, <1>4
<1>6. \A x \in best : x \in Nat
  OBVIOUS
<1>7. best # {}
  BY <1>5
<1> HIDE DEF best
<1>8. P!Min(best) \in best
  BY <1>6, <1>7, LeastIsMin
<1>9. P!SelectHeadline(cs) = cs[P!Min(best)]
  BY DEF P!SelectHeadline, best
<1>10. P!Min(best) \in 1..5 /\ \A j \in 1..5 : cs[j].score <= cs[P!Min(best)].score
  BY <1>8 DEF best
<1> QED
  BY <1>9, <1>10

(* So the headline is no lower when no candidate is.                       *)
LEMMA OverallGrows ==
  ASSUME NEW old, NEW new, AllWorse(old, new), NoneHidden(old, new)
  PROVE  P!Overall(old, TRUE, FALSE) \in 0..100 /\ P!Overall(new, TRUE, FALSE) \in 0..100
         /\ P!Overall(old, TRUE, FALSE) <= P!Overall(new, TRUE, FALSE)
<1> DEFINE cs == P!Candidates(old, TRUE, FALSE)
           ds == P!Candidates(new, TRUE, FALSE)
<1>1. DOMAIN cs = 1..5 /\ DOMAIN ds = 1..5
  BY DEF P!Candidates
<1>2. /\ cs[1].score = P!SeverityAdjusted(old) /\ cs[2].score = P!P95(old, TRUE)
      /\ cs[3].score = P!ArchivedFloor(old) /\ cs[4].score = P!CVEFloor(old)
      /\ cs[5].score = P!IntegrityFloor(old, FALSE)
  BY DEF P!Candidates
<1>3. /\ ds[1].score = P!SeverityAdjusted(new) /\ ds[2].score = P!P95(new, TRUE)
      /\ ds[3].score = P!ArchivedFloor(new) /\ ds[4].score = P!CVEFloor(new)
      /\ ds[5].score = P!IntegrityFloor(new, FALSE)
  BY DEF P!Candidates
<1> HIDE DEF cs, ds
<1>4. /\ cs[1].score \in 0..100 /\ ds[1].score \in 0..100 /\ cs[1].score <= ds[1].score
  BY <1>2, <1>3, SeverityGrows
<1>5. /\ cs[2].score \in 0..100 /\ ds[2].score \in 0..100 /\ cs[2].score <= ds[2].score
  BY <1>2, <1>3, PercentileGrows
<1>6. /\ cs[3].score \in 0..100 /\ ds[3].score \in 0..100 /\ cs[3].score <= ds[3].score
  BY <1>2, <1>3, ArchivedGrows, DirectFloorIsBounded DEF P!ArchivedFloor
<1>7. /\ cs[4].score \in 0..100 /\ ds[4].score \in 0..100 /\ cs[4].score <= ds[4].score
  BY <1>2, <1>3, CVEGrows
<1>8. /\ cs[5].score \in 0..100 /\ ds[5].score \in 0..100 /\ cs[5].score <= ds[5].score
  <2>1. cs[5].score <= ds[5].score
    BY <1>2, <1>3, IntegrityStays, Zenon
  <2>2. cs[5].score \in 0..100 /\ ds[5].score \in 0..100
    <3>1. \A deps : P!IntegrityFloor(deps, FALSE) \in 0..100
      BY DirectFloorIsBounded, Zenon DEF P!IntegrityFloor
    <3> QED
      BY <1>2, <1>3, <3>1, Zenon
  <2> QED
    BY <2>1, <2>2, Zenon
<1>9. \A i \in 1..5 : /\ cs[i].score \in 0..100 /\ ds[i].score \in 0..100
                      /\ cs[i].score <= ds[i].score
  BY <1>4, <1>5, <1>6, <1>7, <1>8
<1>10. /\ P!Overall(old, TRUE, FALSE) = P!SelectHeadline(cs).score
       /\ P!Overall(new, TRUE, FALSE) = P!SelectHeadline(ds).score
  BY Zenon DEF P!Overall, cs, ds
<1>11. PICK i \in 1..5 : P!SelectHeadline(cs).score = cs[i].score
  BY <1>1, <1>9, HeadlineIsHighest
<1>12. PICK j \in 1..5 : P!SelectHeadline(ds).score = ds[j].score
  BY <1>1, <1>9, HeadlineIsHighest
<1>13. ds[i].score <= P!SelectHeadline(ds).score
  BY <1>1, <1>9, HeadlineIsHighest
<1>14. /\ P!SelectHeadline(cs).score \in 0..100 /\ P!SelectHeadline(ds).score \in 0..100
       /\ P!SelectHeadline(cs).score <= P!SelectHeadline(ds).score
  <2>1. PICK s, t : s = P!SelectHeadline(cs).score /\ t = P!SelectHeadline(ds).score
    OBVIOUS
  <2>2. s = cs[i].score /\ t = ds[j].score /\ ds[i].score <= t
    BY <1>11, <1>12, <1>13, <2>1, Zenon
  <2>3. s \in 0..100 /\ t \in 0..100 /\ cs[i].score <= ds[i].score
    BY <1>9, <2>2
  <2>4. \A x, y, z : x \in 0..100 /\ z \in Int /\ y \in Int /\ x <= z /\ z <= y => x <= y
    OBVIOUS
  <2>5. ds[i].score \in Int /\ t \in Int
    BY <1>9, <2>2
  <2>6. s <= t
    BY <2>2, <2>3, <2>4, <2>5, Zenon
  <2> QED
    BY <2>1, <2>3, <2>6, Zenon
<1> QED
  BY <1>10, <1>14, Zenon

(* Nor is its level.                                                       *)
LEMMA OverallLevelGrows ==
  ASSUME NEW old, NEW new, AllWorse(old, new), NoneHidden(old, new)
  PROVE  P!OverallLevel(old, TRUE, FALSE) <= P!OverallLevel(new, TRUE, FALSE)
<1>1. /\ P!OverallLevel(old, TRUE, FALSE) = P!LevelFromScore(P!Overall(old, TRUE, FALSE))
      /\ P!OverallLevel(new, TRUE, FALSE) = P!LevelFromScore(P!Overall(new, TRUE, FALSE))
  BY Zenon DEF P!OverallLevel
<1>2. /\ P!Overall(old, TRUE, FALSE) \in 0..100 /\ P!Overall(new, TRUE, FALSE) \in 0..100
      /\ P!Overall(old, TRUE, FALSE) <= P!Overall(new, TRUE, FALSE)
  BY OverallGrows
<1>3. P!LevelFromScore(P!Overall(old, TRUE, FALSE)) <= P!LevelFromScore(P!Overall(new, TRUE, FALSE))
  BY <1>2, LevelGrows, Zenon
<1> QED
  BY <1>1, <1>3, Zenon

(* The mean of the graph.                                                  *)
Linked(deps) == \E m \in DOMAIN deps : \E v \in deps[m].vulns : v.reach # "required"

(* The mean as MeanRisk computes it.                                       *)
LEMMA MeanByCases ==
  ASSUME NEW deps
  PROVE  P!MeanRisk(deps, TRUE) =
           IF DOMAIN deps = {} THEN 0
           ELSE IF Linked(deps) THEN P!Larger(MeanOf(DOMAIN deps, Risks(deps, DOMAIN deps)), 26)
           ELSE MeanOf(DOMAIN deps, Risks(deps, DOMAIN deps))
<1> DEFINE scores == {<<m, P!RiskScore(deps[m], TRUE)>> : m \in DOMAIN deps}
<1>1. scores = PairsWith(DOMAIN deps, Risks(deps, DOMAIN deps))
  BY DEF PairsWith, Risks
<1> HIDE DEF scores
<1>2. MeanOf(DOMAIN deps, Risks(deps, DOMAIN deps)) =
        (2 * P!MapThenSumSet(LAMBDA p : p[2] * (100 + p[2]), scores)
           + P!MapThenSumSet(LAMBDA p : 100 + p[2], scores))
          \div (2 * P!MapThenSumSet(LAMBDA p : 100 + p[2], scores))
  BY <1>1, Zenon DEF MeanOf
<1> QED
  BY <1>2, Zenon DEF P!MeanRisk, Linked, scores

(* It is no lower.                                                         *)
LEMMA MeanRiskGrows ==
  ASSUME NEW old, NEW new, AllWorse(old, new), NoneHidden(old, new)
  PROVE  P!MeanRisk(old, TRUE) <= P!MeanRisk(new, TRUE)
<1>1. PICK D : /\ D = DOMAIN old /\ D = DOMAIN new /\ IsFiniteSet(D) /\ D \subseteq DOMAIN old
  BY WorseGraphs
<1>2. PICK r, q : r = Risks(old, D) /\ q = Risks(new, D)
  OBVIOUS
<1>3. r \in [D -> 0..100] /\ q \in [D -> 0..100] /\ \A m \in D : r[m] <= q[m]
  BY <1>1, <1>2, RisksGrow
<1>4. Linked(old) => Linked(new)
  <2> SUFFICES ASSUME Linked(old) PROVE Linked(new)
    OBVIOUS
  <2>1. PICK m \in DOMAIN old : \E v \in old[m].vulns : v.reach # "required"
    BY DEF Linked
  <2>2. PICK v \in old[m].vulns : v.reach # "required"
    BY <2>1
  <2>3. m \in DOMAIN new /\ Grown(old[m].vulns, new[m].vulns)
    BY WorseGraphs
  <2>4. PICK w \in new[m].vulns : Worse(v, w)
    BY <2>3, GrownAndFound
  <2> QED
    BY <2>2, <2>3, <2>4 DEF Linked, Worse
<1>5. PICK a, b : a = MeanOf(D, r) /\ b = MeanOf(D, q)
  OBVIOUS
<1>6. P!MeanRisk(old, TRUE) = IF D = {} THEN 0 ELSE IF Linked(old) THEN P!Larger(a, 26) ELSE a
  BY <1>1, <1>2, <1>5, MeanByCases, Zenon
<1>7. P!MeanRisk(new, TRUE) = IF D = {} THEN 0 ELSE IF Linked(new) THEN P!Larger(b, 26) ELSE b
  BY <1>1, <1>2, <1>5, MeanByCases, Zenon
<1>8. CASE D = {}
  <2>1. P!MeanRisk(old, TRUE) = 0 /\ P!MeanRisk(new, TRUE) = 0
    BY <1>6, <1>7, <1>8, Zenon
  <2>2. \A x, y : x = 0 /\ y = 0 => x <= y
    OBVIOUS
  <2> QED
    BY <2>1, <2>2, Zenon
<1>9. CASE D # {}
  <2>1. a \in Int /\ b \in Int /\ a <= b
    BY <1>1, <1>3, <1>5, <1>9, MeanGrows
  <2>2. /\ P!Larger(a, 26) \in Int /\ P!Larger(b, 26) \in Int
        /\ P!Larger(a, 26) <= P!Larger(b, 26) /\ a <= P!Larger(b, 26)
    BY <2>1 DEF P!Larger
  <2>3. (IF Linked(old) THEN P!Larger(a, 26) ELSE a) <= (IF Linked(new) THEN P!Larger(b, 26) ELSE b)
    BY <1>4, <2>1, <2>2
  <2> QED
    BY <1>6, <1>7, <1>9, <2>3, Zenon
<1> QED
  BY <1>8, <1>9

(* A policy that was broken still is.                                      *)
LEMMA PoliciesStayBroken ==
  ASSUME NEW old, NEW new, AllWorse(old, new), NEW p
  PROVE  P!Pass(p, Evaluated(new)) => P!Pass(p, Evaluated(old))
<1> DEFINE before == Evaluated(old)
           after == Evaluated(new)
<1>1. before.deps = old /\ after.deps = new /\ before.typosquats = after.typosquats
  BY DEF Evaluated
<1> HIDE DEF before, after
<1>2. DOMAIN new = DOMAIN old
  BY DEF AllWorse
<1>3. \A m \in DOMAIN old : P!Breaks(p, before, m) \subseteq P!Breaks(p, after, m)
  <2> SUFFICES ASSUME NEW m \in DOMAIN old
               PROVE  P!Breaks(p, before, m) \subseteq P!Breaks(p, after, m)
    OBVIOUS
  <2> DEFINE d == old[m]
             e == new[m]
  <2>1. Worsened(d, e)
    BY DEF AllWorse
  <2>2. before.deps[m] = d /\ after.deps[m] = e
    BY <1>1
  <2>3. /\ P!TestOnlyConfirmed(e) <=> P!TestOnlyConfirmed(d)
        /\ P!OutsideBuildConfirmed(e) <=> P!OutsideBuildConfirmed(d)
        /\ P!Archived(d) => P!Archived(e)
    BY WorseGraphs
  <2> HIDE DEF d, e
  <2>4. \A v \in d.vulns : \E w \in e.vulns : w.sev = v.sev
    BY <2>1, GrownAndFound DEF Worsened, Worse
  <2>5. /\ e.direct = d.direct /\ e.maintainer = d.maintainer /\ e.pseudo = d.pseudo
    BY <2>1, WorsenedFields
  <2>6. /\ P!MaintKnown(e) /\ ~d.maint.deprecated
        /\ P!MonthsInactive(d) = 1 /\ P!MonthsInactive(e) = 1
    BY <2>1, WorsenedFields, Zenon
  <2> QED
    BY <1>1, <2>2, <2>3, <2>4, <2>5, <2>6 DEF P!Breaks
<1>4. P!Evaluate(p, before) \subseteq P!Evaluate(p, after)
  BY <1>2, <1>3, BreaksDecide DEF before, after
<1> QED
  BY <1>4 DEF P!Pass, before, after

-----------------------------------------------------------------------------
(* News makes a graph worse.                                               *)

(* A vulnerability is listed once under each module.                       *)
NamedOnce == \A m \in Modules : \A v, w \in vulns[m] : v.cve = w.cve => v = w

(* To be listed or likelier to be exploited is worse.                      *)
LEMMA ExploitedIsWorse ==
  ASSUME NEW v \in Findable,
         NEW w \in {[v EXCEPT !.kev = TRUE], [v EXCEPT !.epss = P!Larger(@, 9)]}
  PROVE  Worse(v, w) /\ w.cve = v.cve
<1>1. v.epss \in Int
  BY DEF Findable
<1>2. v.epss <= P!Larger(v.epss, 9)
  BY <1>1 DEF P!Larger
<1>3. CASE w = [v EXCEPT !.kev = TRUE]
  <2>1. w.kev = TRUE
    BY <1>3 DEF Findable
  <2>2. /\ w.sev = v.sev /\ w.reach = v.reach /\ w.noSev = v.noSev /\ w.fixAge = v.fixAge
        /\ w.age = v.age /\ w.cve = v.cve /\ w.epss = v.epss
    BY <1>3 DEF Findable
  <2> QED
    BY <1>1, <2>1, <2>2 DEF Worse
<1>4. CASE w = [v EXCEPT !.epss = P!Larger(@, 9)]
  <2>1. w.epss = P!Larger(v.epss, 9)
    BY <1>4 DEF Findable
  <2>2. /\ w.sev = v.sev /\ w.reach = v.reach /\ w.noSev = v.noSev /\ w.fixAge = v.fixAge
        /\ w.age = v.age /\ w.cve = v.cve /\ w.kev = v.kev
    BY <1>4 DEF Findable
  <2> QED
    BY <1>2, <2>1, <2>2 DEF Worse
<1> QED
  BY <1>3, <1>4

(* More findings.                                                          *)
LEMMA GrownWith ==
  ASSUME NEW vs, vs \subseteq Findable, NEW ws, vs \subseteq ws
  PROVE  Grown(vs, ws)
<1> DEFINE h == [v \in vs |-> v]
<1>1. h \in Injection(vs, ws)
  BY DEF Injection, IsInjective
<1>2. \A v \in vs : Worse(v, h[v])
  BY WorseThanItself
<1> QED
  BY <1>1, <1>2 DEF Grown

(* A worse finding in the place of one.                                    *)
LEMMA GrownInPlace ==
  ASSUME NEW vs, vs \subseteq Findable, \A u, v \in vs : u.cve = v.cve => u = v,
         NEW v \in vs, NEW w, Worse(v, w), w.cve = v.cve
  PROVE  /\ Grown(vs, (vs \ {v}) \union {w})
         /\ \A x, y \in (vs \ {v}) \union {w} : x.cve = y.cve => x = y
<1> DEFINE ws == (vs \ {v}) \union {w}
           h == [u \in vs |-> IF u = v THEN w ELSE u]
<1>1. \A x, y \in ws : x.cve = y.cve => x = y
  OBVIOUS
<1>2. \A u \in vs : h[u] \in ws /\ h[u].cve = u.cve
  OBVIOUS
<1>3. h \in [vs -> ws]
  BY <1>2
<1>4. \A u \in vs : Worse(u, h[u])
  BY WorseThanItself
<1> HIDE DEF h
<1>5. h \in Injection(vs, ws)
  BY <1>2, <1>3 DEF Injection, IsInjective
<1> QED
  BY <1>1, <1>4, <1>5 DEF Grown

(* Every step leaves the findings as they were or worse, named once.       *)
LEMMA NewsIsWorse ==
  ASSUME FindingsInv, NamedOnce, [Next]_vars
  PROVE  /\ \A m \in Modules : Grown(vulns[m], vulns'[m])
         /\ archived \subseteq archived'
         /\ NamedOnce'
<1>1. \A m \in Modules : vulns[m] \subseteq Findable /\ IsFiniteSet(vulns[m])
  BY DEF FindingsInv
<1>2. CASE vulns' = vulns /\ archived \subseteq archived'
  BY <1>1, <1>2, GrownWith DEF NamedOnce
<1>3. CASE News
  <2>1. PICK m \in DOMAIN graph.deps : \/ \E v \in Findings : Publish(m, v)
                                       \/ \E v \in vulns[m] : Exploited(m, v)
                                       \/ Archive(m)
    BY <1>3 DEF News
  <2>2. m \in Modules /\ vulns \in [Modules -> SUBSET Findable]
    BY DEF FindingsInv
  <2>3. ASSUME NEW ws, vulns' = [vulns EXCEPT ![m] = ws], archived' = archived,
               Grown(vulns[m], ws), \A v, w \in ws : v.cve = w.cve => v = w
        PROVE  /\ \A n \in Modules : Grown(vulns[n], vulns'[n])
               /\ archived \subseteq archived'
               /\ NamedOnce'
    <3>1. vulns'[m] = ws /\ \A n \in Modules \ {m} : vulns'[n] = vulns[n]
      BY <2>2, <2>3
    <3>2. \A n \in Modules : Grown(vulns[n], vulns'[n])
      BY <1>1, <2>3, <3>1, GrownWith
    <3>3. NamedOnce'
      BY <2>3, <3>1 DEF NamedOnce
    <3> QED
      BY <2>3, <3>2, <3>3
  <2>4. ASSUME NEW v \in Findings, Publish(m, v)
        PROVE  /\ \A n \in Modules : Grown(vulns[n], vulns'[n])
               /\ archived \subseteq archived'
               /\ NamedOnce'
    <3>1. /\ vulns' = [vulns EXCEPT ![m] = vulns[m] \union {v}] /\ archived' = archived
          /\ v.cve \notin {w.cve : w \in vulns[m]}
      BY <2>4 DEF Publish
    <3>2. \A u, w \in vulns[m] \union {v} : u.cve = w.cve => u = w
      BY <2>2, <3>1 DEF NamedOnce
    <3>3. Grown(vulns[m], vulns[m] \union {v})
      BY <1>1, <2>2, GrownWith
    <3> QED
      BY <2>3, <3>1, <3>2, <3>3
  <2>5. ASSUME NEW v \in vulns[m], Exploited(m, v)
        PROVE  /\ \A n \in Modules : Grown(vulns[n], vulns'[n])
               /\ archived \subseteq archived'
               /\ NamedOnce'
    <3>1. PICK w \in {[v EXCEPT !.kev = TRUE], [v EXCEPT !.epss = P!Larger(@, 9)]} :
            vulns' = [vulns EXCEPT ![m] = (vulns[m] \ {v}) \union {w}] /\ archived' = archived
      BY <2>5 DEF Exploited
    <3>2. Worse(v, w) /\ w.cve = v.cve
      BY <1>1, <2>2, ExploitedIsWorse
    <3>3. \A u, x \in vulns[m] : u.cve = x.cve => u = x
      BY <2>2 DEF NamedOnce
    <3>4. /\ Grown(vulns[m], (vulns[m] \ {v}) \union {w})
          /\ \A x, y \in (vulns[m] \ {v}) \union {w} : x.cve = y.cve => x = y
      BY <1>1, <2>2, <3>2, <3>3, GrownInPlace
    <3> QED
      BY <2>3, <3>1, <3>4
  <2>6. Archive(m) => vulns' = vulns /\ archived \subseteq archived'
    BY DEF Archive
  <2> QED
    BY <1>2, <2>1, <2>4, <2>5, <2>6
<1> QED
  BY <1>2, <1>3 DEF Next, Resolving, vars

(* Two readings of a comparison.                                           *)
LEMMA GreaterIsNotLess == \A x, y : x <= y => y >= x
OBVIOUS

(* Nothing is hidden where nothing is new.                                 *)
LEMMA NothingHidesItself == \A vs : ~MediumHidesUnknown(vs, vs)
BY DEF MediumHidesUnknown

(* What was found out by the time of a later report.                       *)
LEMMA ReportsWorsen ==
  ASSUME ResolverInv, FindingsInv, NamedOnce, [Next]_vars
  PROVE  AllWorse(Deps(vulns, archived), Deps(vulns', archived'))
<1> DEFINE old == Deps(vulns, archived)
           new == Deps(vulns', archived')
<1>1. /\ DOMAIN old = DOMAIN graph.deps /\ DOMAIN new = DOMAIN graph.deps
      /\ \A m \in DOMAIN graph.deps :
           /\ old[m] = Scored(graph.deps[m], vulns[m], m \in archived)
           /\ new[m] = Scored(graph.deps[m], vulns'[m], m \in archived')
  BY DEF Deps
<1>2. ASSUME NEW m \in DOMAIN graph.deps PROVE Worsened(old[m], new[m])
  <2>1. PICK x, vs, ws : x = graph.deps[m] /\ vs = vulns[m] /\ ws = vulns'[m]
    OBVIOUS
  <2> DEFINE arch == m \in archived
             brch == m \in archived'
  <2>2. arch \in BOOLEAN /\ brch \in BOOLEAN
    OBVIOUS
  <2>3. PICK depth \in Int : x.depth = depth
    <3>1. IsDependency(graph.deps[m])
      BY DEF FindingsInv
    <3> QED
      BY <2>1, <3>1 DEF IsDependency
  <2>4. /\ vs \subseteq Findable /\ IsFiniteSet(vs) /\ ws \subseteq Findable /\ IsFiniteSet(ws)
    BY <2>1, JudgementStep DEF FindingsInv
  <2>5. Grown(vs, ws) /\ (arch => brch)
    BY <2>1, NewsIsWorse DEF FindingsInv
  <2>6. PICK d, e : d = old[m] /\ e = new[m]
    OBVIOUS
  <2>7. d = Scored(x, vs, arch) /\ e = Scored(x, ws, brch)
    BY <1>1, <2>1, <2>6
  <2> HIDE DEF arch, brch
  <2>8. d.vulns = vs /\ e.vulns = ws
    BY <2>7 DEF Scored
  <2>9. IsScored(d) /\ IsScored(e)
    BY <2>3, <2>4, <2>7, <2>8, Zenon DEF IsScored
  <2>10. Worsened(d, e)
    BY <2>2, <2>3, <2>5, <2>7, <2>8, <2>9, Zenon DEF Worsened
  <2> QED
    BY <2>6, <2>10
<1>3. DOMAIN graph.deps \subseteq Modules
  BY DEF FindingsInv
<1> HIDE DEF old, new
<1>4. AllWorse(old, new)
  BY <1>1, <1>2, <1>3 DEF AllWorse
<1> QED
  BY <1>4 DEF old, new

(* In every behaviour.                                                     *)
LEMMA NamesStayUnique == Spec => []NamedOnce
<1>1. Init => NamedOnce
  BY DEF Init, NamedOnce
<1>2. ResolverInv /\ FindingsInv /\ NamedOnce /\ [Next]_vars => NamedOnce'
  BY NewsIsWorse
<1> QED
  BY <1>1, <1>2, JudgementInvariant, PTL DEF Spec

(* Bad news, a published or an exploited finding or an archived module,    *)
(* never lowers the score or the level of a module, the headline and its   *)
(* level, or the mean, and never lets a policy pass that failed, unless a  *)
(* medium finding hides one of unknown severity in severityFloor           *)
(* (CalculateRiskScore, ScoreProject, the weighted mean and Evaluate).     *)
THEOREM WorseNeverLowersHolds == Spec => WorseNeverLowers
<1>1. ResolverInv /\ FindingsInv /\ NamedOnce /\ [Next]_vars => NoLower
  <2> SUFFICES ASSUME ResolverInv, FindingsInv, NamedOnce, [Next]_vars PROVE NoLower
    OBVIOUS
  <2> DEFINE old == Deps(vulns, archived)
             new == Deps(vulns', archived')
             touched == {m \in DOMAIN old : new[m] # old[m]}
             hidden == {m \in touched : MediumHidesUnknown(vulns[m], vulns'[m])}
  <2>1. AllWorse(old, new)
    BY ReportsWorsen
  <2>2. \A m \in DOMAIN old : old[m].vulns = vulns[m] /\ new[m].vulns = vulns'[m]
    BY DEF Deps, Scored
  <2> HIDE DEF old, new
  <2>3. ASSUME NEW m \in touched \ hidden
        PROVE  /\ P!RiskScore(new[m], TRUE) >= P!RiskScore(old[m], TRUE)
               /\ P!RiskLevel(new[m], TRUE) >= P!RiskLevel(old[m], TRUE)
    <3>1. Worsened(old[m], new[m]) /\ ~MediumHidesUnknown(old[m].vulns, new[m].vulns)
      BY <2>1, <2>2 DEF AllWorse
    <3>2. /\ P!RiskScore(old[m], TRUE) <= P!RiskScore(new[m], TRUE)
          /\ P!RiskLevel(old[m], TRUE) <= P!RiskLevel(new[m], TRUE)
      BY <3>1, RiskGrows, Zenon
    <3> QED
      BY <3>2, GreaterIsNotLess, Zenon
  <2>4. ASSUME hidden = {}
        PROVE  /\ P!Overall(new, TRUE, FALSE) >= P!Overall(old, TRUE, FALSE)
               /\ P!OverallLevel(new, TRUE, FALSE) >= P!OverallLevel(old, TRUE, FALSE)
               /\ P!MeanRisk(new, TRUE) >= P!MeanRisk(old, TRUE)
    <3>1. \A m \in touched : ~MediumHidesUnknown(old[m].vulns, new[m].vulns)
      BY <2>2, <2>4
    <3>2. \A m \in DOMAIN old \ touched : ~MediumHidesUnknown(old[m].vulns, new[m].vulns)
      BY NothingHidesItself
    <3>3. NoneHidden(old, new)
      BY <3>1, <3>2 DEF NoneHidden
    <3>4. P!Overall(old, TRUE, FALSE) <= P!Overall(new, TRUE, FALSE)
      BY <2>1, <3>3, OverallGrows, Zenon
    <3>5. P!OverallLevel(old, TRUE, FALSE) <= P!OverallLevel(new, TRUE, FALSE)
      BY <2>1, <3>3, OverallLevelGrows, Zenon
    <3>6. P!MeanRisk(old, TRUE) <= P!MeanRisk(new, TRUE)
      BY <2>1, <3>3, MeanRiskGrows, Zenon
    <3> QED
      BY <3>4, <3>5, <3>6, GreaterIsNotLess, Zenon
  <2>5. \A p \in Policies : P!Pass(p, Evaluated(new)) => P!Pass(p, Evaluated(old))
    BY <2>1, PoliciesStayBroken
  <2> QED
    BY <2>3, <2>4, <2>5 DEF NoLower, old, new
<1> QED
  BY <1>1, JudgementInvariant, NamesStayUnique, PTL DEF Spec, WorseNeverLowers
=============================================================================
