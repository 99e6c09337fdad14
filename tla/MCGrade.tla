------------------------------- MODULE MCGrade -------------------------------
(* The grading rules while checks are missing, over three scenes, and,     *)
(* beside them, over every small tree of findings when none is.  The two   *)
(* have no state in common: a behaviour is one of the one or of the other. *)
(*                                                                         *)
(* The first scene is a module, a dependency and a test-only dependency,   *)
(* with an advisory on each dependency; whatever may be open, up to three  *)
(* checks at a time.  The second is two dependencies with six advisories   *)
(* between them, two of which are one vulnerability, and an advisory of the*)
(* module itself: the whole-tree rules, the bonus for further advisories,  *)
(* the merge and the skipped called pass; only findings and the passes over*)
(* them may be open, two at a time.  The third is a dependency or a        *)
(* test-only one whose advisory is listed by two databases that disagree,  *)
(* beside another dependency's advisory: what the rules overlook.          *)
EXTENDS GradeKnowledge, GradeShapes, Sequences

CONSTANTS MaxOpenPair, MaxOpenTree, About

VARIABLE about

OpenUpTo(n, checks) == {o \in SUBSET checks : Cardinality(o) <= n}

-----------------------------------------------------------------------------
Pairs(sevs, exploited, mismatch) ==
  {[deps |-> {"lib", "dev"}, testOnly |-> {"dev"}, notBuilt |-> {},
    moduleOf |-> <<"lib", "dev">>, vulnOf |-> <<1, 2>>, cve |-> {1},
    sev |-> s, reach |-> t, exploited |-> x, mismatch |-> mismatch,
    archived |-> u[1], deprecated |-> u[2]] :
     s \in sevs, t \in {"called", "imported", "required"} \X {"called"}, x \in exploited,
     u \in {<<{}, {}>>, <<{"app"}, {}>>, <<{"lib"}, {}>>, <<{"dev"}, {}>>,
            <<{"lib", "dev"}, {}>>, <<{}, {"lib"}>>, <<{"dev"}, {"lib"}>>}}

PairWorlds ==
  Pairs(Severities \X {"LOW", "HIGH"}, {{}, {1}}, FALSE)
  \cup Pairs({<<"LOW", "LOW">>}, {{}}, TRUE)

PairChecks(w) == Checks(w) \ {<<"called pass", "all">>, <<"own advisories", "all">>}
SomeWorld == CHOOSE w \in PairWorlds : TRUE
Pair == [worlds |-> PairWorlds, opens |-> OpenUpTo(MaxOpenPair, PairChecks(SomeWorld))]

-----------------------------------------------------------------------------
(* The severities and reachabilities of the findings, over a common ground; *)
(* the two databases agree on the vulnerability that both list.             *)
TreeFindings == 1..7
Over(sevs, reaches) ==
  {[deps |-> {"a", "b"}, testOnly |-> {}, notBuilt |-> {},
    moduleOf |-> <<"a", "a", "a", "b", "b", "b", "app">>,
    vulnOf |-> <<1, 2, 2, 4, 5, 6, 7>>, cve |-> {},
    sev |-> [f \in TreeFindings |-> IF f \in DOMAIN s THEN s[f] ELSE
                                    IF f = 3 /\ 2 \in DOMAIN s THEN s[2] ELSE
                                    IF f = 7 THEN "LOW" ELSE "HIGH"],
    reach |-> [f \in TreeFindings |-> IF f \in DOMAIN t THEN t[f] ELSE
                                      IF f = 7 THEN "none" ELSE "imported"],
    exploited |-> {}, mismatch |-> FALSE, archived |-> {}, deprecated |-> {}] :
     s \in sevs, t \in reaches}

TreeWorlds ==
  Over([{1, 2, 4} -> {"MEDIUM", "HIGH"}], [{1, 2, 4} -> {"called", "imported"}])
  \cup Over([{1, 2, 4, 5, 6} -> {"LOW", "MEDIUM"}], [{1, 4} -> {"called", "imported"}])
  \cup Over([{1, 2, 4, 5, 6} -> {"MEDIUM", "HIGH"}], [{1} -> {"called"}])
  \cup Over([{1, 2, 7} -> Severities \cup {"NONE"}], 
               {"called", "required", "none"} \X {"called", "required"})

TreeChecks ==
  ({"severity"} \X TreeFindings) \cup ({"published"} \X {1, 2})
  \cup {<<"called pass", "all">>, <<"own advisories", "all">>}
Tree == [worlds |-> TreeWorlds, opens |-> OpenUpTo(MaxOpenTree, TreeChecks)]

-----------------------------------------------------------------------------
NamesWorlds ==
  {[deps |-> {"a", "d"}, testOnly |-> {"d"}, notBuilt |-> {},
    moduleOf |-> <<m, m, "a">>, vulnOf |-> <<1, 1, 3>>, cve |-> c,
    sev |-> s \o <<"LOW">>, reach |-> t \o <<"imported">>, exploited |-> x, mismatch |-> FALSE,
    archived |-> {}, deprecated |-> {}] :
     m \in {"a", "d"}, c \in {{1}, {1, 2}}, x \in {{}, {1}},
     s \in {"LOW", "HIGH"} \X {"LOW", "HIGH"},
     t \in {"called", "imported", "required"} \X {"called", "imported", "required"}}

NamesChecks == ({"severity"} \X {1, 2}) \cup {<<"catalog", "all">>, <<"called pass", "all">>}
Names == [worlds |-> NamesWorlds, opens |-> OpenUpTo(MaxOpenTree, NamesChecks)]

MCScenes == {Pair, Tree, Names}

-----------------------------------------------------------------------------
(* A dependency and a test-only dependency, up to four findings of six     *)
(* kinds between them.                                                     *)
Kind(s, t, x) == [severity |-> s, reach |-> t, exploited |-> x]
MCKindAt == <<Kind("LOW", "called", FALSE), Kind("LOW", "called", TRUE),
              Kind("MEDIUM", "imported", FALSE), Kind("HIGH", "imported", FALSE),
              Kind("HIGH", "none", FALSE), Kind("CRITICAL", "called", FALSE)>>

-----------------------------------------------------------------------------
Init ==
  /\ about \in About
  /\ IF about = "knowledge" THEN KnowledgeInit
     ELSE world = SomeWorld /\ open = {} /\ report = Grade(InputOf(world, open))
  /\ ShapesInit
Next ==
  /\ UNCHANGED about
  /\ \/ about = "knowledge" /\ KnowledgeNext /\ UNCHANGED shapesVars
     \/ about = "shapes" /\ ShapesNext /\ UNCHANGED knowledgeVars
Spec == Init /\ [][Next]_<<about, knowledgeVars, shapesVars>>
=============================================================================
