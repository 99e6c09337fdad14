------------------------------ MODULE MCFanOuts ------------------------------
(* The fan-outs of a scan.  They have no state in common: a behaviour is   *)
(* one of the maintainer scan, of the resilience scan or of the response   *)
(* history.                                                                *)
(*                                                                         *)
(* Maintainers: three modules of two spellings of one renamed repository,  *)
(* and two modules whose archived flag is read, one by the old name (a     *)
(* github.com path), one by the new one (a vanity path).                   *)
EXTENDS MaintainerScan, ResilienceScan, ResponseHistory, TLC

CONSTANTS a1, a2, a3, r1, r2, d1, d2, FanOuts

VARIABLE fanOut

MCJobs == {a1, a2, a3, r1, r2}
MCPhaseOf == [j \in MCJobs |-> IF j \in {r1, r2} THEN "archived" ELSE "maintainers"]
MCNames == {"Old", "old", "new"}
MCNameOf == [j \in MCJobs |-> CASE j \in {a1, a2} -> "old" [] j = a3 -> "Old"
                               [] j = r1 -> "old" [] j = r2 -> "new"]
MCKeys == {"old", "new"}
MCLowerOf == [n \in MCNames |-> IF n = "new" THEN "new" ELSE "old"]
MCCanonical == [k \in MCKeys |-> "new"]

(* Response history: four releases, of which three are read.  The fixes of *)
(* d1 are more than are examined and some are older than the sample; d2    *)
(* has more pages than are read.  In the second project a release is older *)
(* than the version before it; in the third the module was faster than the *)
(* fix's own release, and no release requires d2.                          *)
Requires(s1, s2) == [r \in 1..4 |-> d1 :> s1[r] @@ d2 :> s2[r]]

MCProject ==
  [time |-> <<1, 5, 9, 14>>, requires |-> Requires(<<1, 2, 2, 4>>, <<0, 0, 3, 3>>),
   pages |-> d1 :> <<{1, 2, 3}, {4}>> @@ d2 :> <<{1}, {2, 3}, {4}>>,
   fixed |-> d1 :> <<2, 6, 7, 10>> @@ d2 :> <<4, 6, 8, 11>>]

MCProjects ==
  {MCProject,
   [MCProject EXCEPT !.time = <<1, 5, 20, 14>>],
   [MCProject EXCEPT !.requires = Requires(<<1, 3, 4, 4>>, <<0, 0, 0, 0>>)]}

-----------------------------------------------------------------------------
FanOutsInit ==
  /\ fanOut \in FanOuts /\ Init /\ ResilienceInit /\ HistoryInit
  /\ fanOut # "history" => project = MCProject

FanOutsNext ==
  /\ UNCHANGED fanOut
  /\ \/ fanOut = "maintainers" /\ Next /\ UNCHANGED <<resilienceVars, historyVars>>
     \/ fanOut = "resilience" /\ ResilienceNext /\ UNCHANGED <<vars, historyVars>>
     \/ fanOut = "history" /\ HistoryNext /\ UNCHANGED <<vars, resilienceVars>>

FanOutsSpec ==
  /\ FanOutsInit /\ [][FanOutsNext]_<<vars, resilienceVars, historyVars, fanOut>>
  /\ \A j \in Jobs : WF_vars(fanOut = "maintainers" /\ Worker(j))
  /\ WF_vars(fanOut = "maintainers" /\ WaitAndRepanic)
  /\ WF_resilienceVars(fanOut = "resilience" /\ ResilienceNext)
  /\ WF_historyVars(fanOut = "history" /\ HistoryNext)

(* The fan-outs that were started end: the maintainer scan unless a lookup *)
(* panicked under another worker's eyes, the resilience scan and the       *)
(* response history always, with a spent budget and after a panic too.     *)
FanOutEndsIfLookupsDo == <>(fanOut # "maintainers" \/ Ended \/ LookupAbandoned)
ScanEnds == <>CASE fanOut = "maintainers" -> TRUE
                [] fanOut = "resilience" -> ResilienceEnded
                [] fanOut = "history" -> HistoryEnded

(* The fan-outs of the maintainer scan end, whatever panics.               *)
FanOutEnds == <>(fanOut # "maintainers" \/ Ended)
=============================================================================
