------------------------- MODULE GovulncheckStream -------------------------
(***************************************************************************)
(* The parser of govulncheck's JSON stream (pkg/scanner/vuln.go).           *)
(*                                                                         *)
(* The stream holds advisories and findings.  A finding has a trace, its    *)
(* innermost frame first; several findings of one advisory in one module    *)
(* become one vulnerability, whose reachability, call path, called symbols  *)
(* and condition are chosen among them.  govulncheck emits the findings in  *)
(* no stable order, so the choice must not depend on it.                    *)
(*                                                                         *)
(* A name in the code is a string; here a package and a function are        *)
(* numbers, 0 for an empty name, and a number's order is the string's.  The *)
(* line of a frame stands for its file, line and column, 0 for no position. *)
(***************************************************************************)
EXTENDS Integers, FiniteSets, Sequences, SequencesExt

CONSTANTS
  Advisories,       \* the advisories' affected modules: id -> sequence of [module, fixed]
  StreamFindings,         \* the findings a stream may hold
  Roots,            \* the packages of the project ("roots" of the SBOM message)
  Formatters,       \* the frames that only format: packages fmt and log, methods Error and String
  MaxFrames,        \* maxCallPathFrames
  MaxSymbols        \* maxCalledSymbols

ASSUME BoundsAssumption == MaxFrames \in Nat /\ MaxFrames >= 3 /\ MaxSymbols \in Nat \ {0}

TraceEntry == [module : STRING, package : Nat, function : Nat, line : Nat]
ASSUME TracesAssumption == \A finding \in StreamFindings : finding.trace \in Seq(TraceEntry)

VARIABLES
  stream,           \* the findings of this stream
  unread,           \* those the loop has not come to
  merged            \* <<module, advisory>> -> the vulnerability made of its findings so far

streamVars == <<stream, unread, merged>>

Stdlib == "stdlib"
Reachabilities == <<"required", "imported", "called">>
ReachRank(level) == CHOOSE i \in 1..3 : Reachabilities[i] = level

ClassifyReachability(trace) ==
  IF trace = <<>> THEN "required"
  ELSE IF (\E i \in DOMAIN trace : trace[i].line # 0) \/ trace[1].function # 0 THEN "called"
  ELSE IF trace[1].package # 0 THEN "imported"
  ELSE "required"

-----------------------------------------------------------------------------
(* The condensed call path.                                                *)

FrameName(frame) == <<frame.package, frame.function>>
CallFrame(frame) == [name |-> FrameName(frame), line |-> frame.line]
Elided == [name |-> <<0, 0>>, line |-> 0]

\* The elements at the given places, in their order.
PickedFrom(seq, places) ==
  [k \in 1..Cardinality(places) |->
     seq[CHOOSE i \in places : Cardinality({j \in places : j <= i}) = k]]

Outermost(trace) == Reverse(PickedFrom(trace, {i \in DOMAIN trace : trace[i].function # 0}))

Condense(trace) ==
  LET frames == Outermost(trace)
      last == Len(frames)
      handsOver(i) == i = 1 \/ i = last \/ frames[i + 1].package # frames[i].package
      path == PickedFrom([i \in 1..last |-> CallFrame(frames[i])],
                         {i \in 1..last : handsOver(i)})
  IN IF Len(path) <= MaxFrames THEN path
     ELSE <<path[1], Elided>> \o SubSeq(path, Len(path) - (MaxFrames - 3), Len(path))

(* The order of two lists of numbers, the first difference deciding.       *)
Before(a, b) ==
  \E i \in DOMAIN a \cap DOMAIN b :
     a[i] < b[i] /\ \A j \in 1..(i - 1) : a[j] = b[j]

\* Each name gives its two numbers.
NamesOf(path) == [i \in 1..(2 * Len(path)) |-> path[(i + 1) \div 2].name[2 - (i % 2)]]
LinesOf(path) == [i \in DOMAIN path |-> path[i].line]

PreferPath(candidate, current) ==
  /\ candidate # <<>>
  /\ \/ current = <<>>
     \/ Len(candidate) < Len(current)
     \/ /\ Len(candidate) = Len(current)
        /\ Before(NamesOf(candidate), NamesOf(current))

(* Mutant: paths of one name are told apart by nothing.                     *)
PreferCandidateByName(candidate, current) == PreferPath(candidate, current)

PreferCandidate(candidate, current) ==
  \/ PreferPath(candidate, current)
  \/ /\ ~PreferPath(current, candidate)
     /\ Before(LinesOf(candidate), LinesOf(current))

FormatsMessage(trace) == \E i \in DOMAIN trace : FrameName(trace[i]) \in Formatters

PreferCalled(trace, chosen) ==
  LET candidate == Condense(trace)
      current == Condense(chosen)
  IN /\ candidate # <<>>
     /\ \/ current = <<>>
        \/ FormatsMessage(chosen) /\ ~FormatsMessage(trace)
        \/ /\ FormatsMessage(chosen) = FormatsMessage(trace)
           /\ PreferCandidate(candidate, current)

(* The first frame after the project's own that is neither the project's    *)
(* nor the standard library's, else the standard library's first.           *)
NoCondition == <<0, 0>>
CallCondition(trace) ==
  LET frames == Outermost(trace)
      project(i) == frames[i].package \in Roots
      after == {i \in DOMAIN frames : ~project(i) /\ \E j \in 1..(i - 1) : project(j)}
      foreign == {i \in after : frames[i].module # Stdlib}
      First(S) == CHOOSE i \in S : \A j \in S : i <= j
  IN IF frames = <<>> \/ ~project(1) THEN NoCondition
     ELSE IF foreign # {} THEN FrameName(frames[First(foreign)])
     ELSE IF after # {} THEN FrameName(frames[First(after)])
     ELSE NoCondition

CalledSink(trace) ==
  IF trace = <<>> \/ trace[1].function = 0 THEN {} ELSE {FrameName(trace[1])}

(* Sorted, without repeats, and cut.                                        *)
CapCalledSymbols(sinks) ==
  {s \in sinks : Cardinality({t \in sinks : Before(t, s)}) < MaxSymbols}

-----------------------------------------------------------------------------
(* One finding.                                                            *)

ModuleNamed(finding) ==
  LET named == SelectSeq(finding.trace, LAMBDA t : t.module # "")
  IN IF named = <<>> THEN "" ELSE named[1].module

Known(finding) == finding.osv \in DOMAIN Advisories /\ ModuleNamed(finding) # ""
KeyOf(finding) == <<ModuleNamed(finding), finding.osv>>
Keys == {KeyOf(f) : f \in {g \in StreamFindings : Known(g)}}

FixedVersionFromOSV(osv, module) ==
  LET affected == SelectSeq(Advisories[osv],
                            LAMBDA a : a.module \in {module, Stdlib} /\ a.fixed # 0)
  IN IF affected = <<>> THEN 0 ELSE affected[1].fixed

FixedVersion(finding) ==
  IF finding.fixed # 0 THEN finding.fixed
  ELSE FixedVersionFromOSV(finding.osv, ModuleNamed(finding))

NoVuln == [reach |-> "none"]

Vuln(finding) ==
  LET reach == ClassifyReachability(finding.trace)
  IN [reach |-> reach, fixed |-> FixedVersion(finding),
      chosen |-> IF reach = "called" THEN finding.trace ELSE <<>>,
      sinks |-> IF reach = "called" THEN CalledSink(finding.trace) ELSE {}]

Upgraded(vuln, finding) ==
  LET reach == ClassifyReachability(finding.trace)
      called == reach = "called"
  IN [vuln EXCEPT
        !.reach = IF ReachRank(reach) > ReachRank(vuln.reach) THEN reach ELSE @,
        !.chosen = IF called /\ PreferCalled(finding.trace, @) THEN finding.trace ELSE @,
        !.sinks = IF called THEN @ \cup CalledSink(finding.trace) ELSE @]

StreamInit ==
  /\ stream \in SUBSET StreamFindings
  /\ unread = stream
  /\ merged = [key \in Keys |-> NoVuln]

Skip(finding) == ~Known(finding) /\ UNCHANGED merged

Add(finding) ==
  /\ Known(finding)
  /\ merged[KeyOf(finding)] = NoVuln
  /\ merged' = [merged EXCEPT ![KeyOf(finding)] = Vuln(finding)]

Merge(finding) ==
  /\ Known(finding)
  /\ merged[KeyOf(finding)] # NoVuln
  /\ merged' = [merged EXCEPT ![KeyOf(finding)] = Upgraded(@, finding)]

ParseGovulncheckJSON ==
  \E finding \in unread :
     /\ Skip(finding) \/ Add(finding) \/ Merge(finding)
     /\ unread' = unread \ {finding}
     /\ UNCHANGED stream

StreamNext == ParseGovulncheckJSON

StreamSpec == StreamInit /\ [][StreamNext]_streamVars

(* What the report says of a vulnerability once the stream is read.         *)
Reported(vuln) ==
  [reach |-> vuln.reach, fixed |-> vuln.fixed, path |-> Condense(vuln.chosen),
   symbols |-> CapCalledSymbols(vuln.sinks), condition |-> CallCondition(vuln.chosen)]

-----------------------------------------------------------------------------
(* Properties.                                                             *)

(* What the report must say, read off the set of findings without an order: *)
(* the most severe reachability, the best of the called paths that name a   *)
(* frame (one that does more than format a message, then the shortest, then *)
(* the first by names and positions), the first symbols, and the condition  *)
(* of that path.                                                            *)
CalledTraces(findings) ==
  {f.trace : f \in {g \in findings : ClassifyReachability(g.trace) = "called"}}
PathTraces(findings) == {t \in CalledTraces(findings) : Condense(t) # <<>>}

Contenders(findings) ==
  LET paths == PathTraces(findings)
      meant == {t \in paths : ~FormatsMessage(t)}
  IN IF meant # {} THEN meant ELSE paths

Better(t, u) ==
  LET whole(path) == <<Len(path)>> \o NamesOf(path) \o LinesOf(path)
  IN Before(whole(Condense(t)), whole(Condense(u)))

Wanted(findings) ==
  LET levels == {ClassifyReachability(f.trace) : f \in findings}
      contenders == Contenders(findings)
      best == CHOOSE t \in contenders : \A u \in contenders : ~Better(u, t)
      fixes == {FixedVersion(f) : f \in findings}
  IN [reach |-> CHOOSE l \in levels : \A k \in levels : ReachRank(k) <= ReachRank(l),
      fixed |-> CHOOSE v \in fixes : TRUE,
      path |-> IF contenders = {} THEN <<>> ELSE Condense(best),
      symbols |-> CapCalledSymbols(UNION {CalledSink(t) : t \in CalledTraces(findings)}),
      condition |-> IF contenders = {} THEN NoCondition ELSE CallCondition(best)]

(* The first finding gives the version that fixes the advisory in the       *)
(* module, and of two traces with the same path and positions the first     *)
(* gives the condition, which may name a frame that the path drops.  What   *)
(* govulncheck prints determines both: an advisory has one fix in a module, *)
(* and there is one called finding per vulnerable symbol, whose frame the   *)
(* path keeps.                                                              *)
Determined ==
  \A f, g \in StreamFindings :
    Known(f) /\ Known(g) /\ KeyOf(f) = KeyOf(g) =>
      /\ FixedVersion(f) = FixedVersion(g)
      /\ Condense(f.trace) = Condense(g.trace)
           => CallCondition(f.trace) = CallCondition(g.trace)

(* The order of the findings is forgotten: once the stream is read, each     *)
(* vulnerability is the one its set of findings determines (preferCalled,    *)
(* appendCalledSink and the upgrade of the reachability in vuln.go).         *)
OrderIsForgotten ==
  unread = {} =>
    \A key \in Keys :
       LET findings == {f \in stream : Known(f) /\ KeyOf(f) = key}
       IN IF findings = {} THEN merged[key] = NoVuln
          ELSE Reported(merged[key]) = Wanted(findings)
=============================================================================
