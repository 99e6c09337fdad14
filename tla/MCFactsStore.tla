---------------------------- MODULE MCFactsStore ----------------------------
(* What keeps a stored analysis up to date.  The two have no state in      *)
(* common: a behaviour is one of the facts store or of the advisory index. *)
(*                                                                         *)
(* Facts: two analyses made at any time, graded by two calls of Grade, one *)
(* after the other or overlapping, for any date up to now; a fact is fresh *)
(* for one tick.                                                           *)
(*                                                                         *)
(* Index: an advisory of the build list and one of another module, a few   *)
(* publications, any number of polls and the analyses that are made.       *)
EXTENDS FactsStore, AdvisoryIndex, TLC

CONSTANTS a1, a2, g1, g2, Keepers

VARIABLE keeps

(* Graders are interchangeable, as are analyses, and no property tells     *)
(* them apart.                                                             *)
Symmetric == {p @@ q : p \in Permutations({a1, a2}), q \in Permutations({g1, g2})}

StoredInit ==
  /\ keeps \in Keepers /\ Init /\ IndexInit
  /\ keeps = "facts" => \A a \in Advisories : ~Listed(a)
StoredNext ==
  /\ UNCHANGED keeps
  /\ \/ keeps = "facts" /\ Next /\ UNCHANGED indexVars
     \/ keeps = "index" /\ IndexNext /\ UNCHANGED vars
StoredSpec == StoredInit /\ [][StoredNext]_<<vars, indexVars, keeps>>
=============================================================================
