---------------------------- MODULE MCKeptAnswers ----------------------------
(* The answers that are kept on disk for other scans.  The caches have no  *)
(* state in common: a behaviour is one of the severities, of the catalog   *)
(* (two scans share each of these, whose files are written in place) or of *)
(* the module proxy's answers (scans one after the other).                 *)
EXTENDS SeverityLookup, KEVCatalog, UpkeepLookup, TLC

CONSTANTS Caches

VARIABLE cache

MCGHSAs == <<"G1">>
MCCVEs == <<"C1">>
Symmetric == Permutations(Scans)

SomeModule == [notice |-> "none", default |-> "main", holds |-> {"main"}, archived |-> FALSE,
               token |-> FALSE]
Plain == {[SomeModule EXCEPT !.notice = notice] : notice \in Notices}
         \union {[SomeModule EXCEPT !.archived = TRUE, !.token = token] : token \in Tokens}

Init ==
  /\ cache \in Caches
  /\ SeverityInit /\ KEVInit /\ UpkeepInit
  /\ cache # "proxy" => world = SomeModule /\ newest = 0
  \* What is noticed, what is archived and what is active have only the disk in common.
  \* The branches main and master differ in the order in which they are tried, and no more.
  /\ world.default # "master"
  /\ world \notin Plain => newest = 0
  /\ world.notice # "none" \/ world.archived => world \in Plain

Next ==
  /\ UNCHANGED cache
  /\ \/ cache = "severity" /\ SeverityNext /\ UNCHANGED <<kevVars, upkeepVars>>
     \/ cache = "KEV" /\ KEVNext /\ UNCHANGED <<severityVars, upkeepVars>>
     \/ cache = "proxy" /\ UpkeepNext /\ UNCHANGED <<severityVars, kevVars>>

Spec == Init /\ [][Next]_<<severityVars, kevVars, upkeepVars, cache>>
=============================================================================
