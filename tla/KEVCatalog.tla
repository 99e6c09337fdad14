------------------------------ MODULE KEVCatalog ------------------------------
(***************************************************************************)
(* pkg/scanner/threatintel.go and the passes of vulnscan.go that read it:  *)
(* the list of known-exploited vulnerabilities, from a copy on disk that   *)
(* is fresh, from a download, or from an older copy when the download      *)
(* fails.  A scan of two passes reads it in each; the findings of the last *)
(* pass are its result, while the date of an old copy is written into the  *)
(* ScanInfo that both share.                                               *)
(*                                                                         *)
(* The catalog is one bit: whether it lists the vulnerability of the scan. *)
(* The EPSS scores, read before it, are left out.                          *)
(***************************************************************************)
EXTENDS CacheFiles

CONSTANTS KEVScans,
          MaxStale         \* KEVMaxStaleAge

ASSUME KEVAssumption == MaxStale \in Nat /\ CacheTTL < MaxStale /\ MaxStale + MaxLookup < Old

VARIABLES listed,          \* whether the catalog lists the vulnerability, and for how long
          catalogFile,
          pass             \* [KEVScans -> at, age, nr, hold, used, mark]
kevVars == <<listed, catalogFile, pass>>

Unmarked == -1

\* What a pass used: no catalog, a fresh one or one of this age.
NoCatalog == [kind |-> "none", in |-> FALSE, age |-> 0]
FreshCatalog(in) == [kind |-> "fresh", in |-> in, age |-> 0]
StaleCatalog(file) == [kind |-> "stale", in |-> file.is, age |-> file.age]

Ended == [at |-> "idle", age |-> 0, nr |-> 0, hold |-> FALSE, used |-> NoCatalog, mark |-> Unmarked]

KEVInit ==
  /\ listed = [in |-> FALSE, age |-> Old]
  /\ catalogFile = Missing
  /\ pass = [q \in KEVScans |-> Ended]

In(q, l) == pass[q].at = l
Put(q, f) == pass' = [pass EXCEPT ![q] = f]
UseOf(q, catalog) == [pass[q] EXCEPT !.at = "mark", !.used = catalog]

\* A pass of govulncheck has found a vulnerability with a CVE and comes to the catalog.
BeginPass(q) ==
  /\ \/ In(q, "idle")
     \/ In(q, "passed") /\ pass[q].nr = 1
  /\ Put(q, [pass[q] EXCEPT !.at = "load", !.nr = @ + 1, !.age = 0])
  /\ UNCHANGED <<listed, catalogFile>>

\* loadKEVCache
LoadKEVCache(q) ==
  /\ In(q, "load")
  /\ Put(q, IF Within(catalogFile, CacheTTL) THEN UseOf(q, FreshCatalog(catalogFile.is))
            ELSE [pass[q] EXCEPT !.at = "fetch"])
  /\ UNCHANGED <<listed, catalogFile>>

\* fetchKEV
Download(q) ==
  /\ In(q, "fetch")
  /\ Put(q, [pass[q] EXCEPT !.at = "save", !.hold = listed.in])
  /\ UNCHANGED <<listed, catalogFile>>
DownloadFails(q) ==
  /\ In(q, "fetch")
  /\ Put(q, [pass[q] EXCEPT !.at = "stale"])
  /\ UNCHANGED <<listed, catalogFile>>

\* The file is read again, whatever its age.  Mutant: without the limit of thirty days.
UsableHoweverOld(file) == file.whole
Usable(file) == Within(file, MaxStale)
LoadStaleKEVCache(q) ==
  /\ In(q, "stale")
  /\ Put(q, UseOf(q, IF Usable(catalogFile) THEN StaleCatalog(catalogFile) ELSE NoCatalog))
  /\ UNCHANGED <<listed, catalogFile>>

\* saveKEVCache, in place.
TruncateCatalog(q) ==
  /\ In(q, "save")
  /\ catalogFile' = Torn
  /\ Put(q, [pass[q] EXCEPT !.at = "write"])
  /\ UNCHANGED listed
WriteCatalog(q) ==
  /\ \/ /\ In(q, "write")
        /\ catalogFile' \in Written(FileEntry(pass[q].hold))
     \/ /\ In(q, "save")
        /\ UNCHANGED catalogFile
  /\ Put(q, UseOf(q, FreshCatalog(pass[q].hold)))
  /\ UNCHANGED listed

\* The end of the pass: the date of an old copy goes into the ScanInfo.
Marked(q) == IF pass[q].used.kind = "stale" THEN pass[q].used.age ELSE pass[q].mark
MarkStale(q) ==
  /\ In(q, "mark")
  /\ Put(q, [pass[q] EXCEPT !.at = "passed", !.mark = Marked(q), !.hold = FALSE])
  /\ UNCHANGED <<listed, catalogFile>>

\* The findings of the pass are the result of the scan; or the process is killed before.
EndScan(q) ==
  /\ ~In(q, "idle")
  /\ Put(q, Ended)
  /\ UNCHANGED <<listed, catalogFile>>

\* CISA adds the vulnerability; it removes none.
List ==
  /\ ~listed.in
  /\ listed' = [in |-> TRUE, age |-> 0]
  /\ UNCHANGED <<catalogFile, pass>>

\* Time passes, but for a file that is being written and a result that is being noted.
AgedPass(q) ==
  [pass[q] EXCEPT !.age = IF In(q, "idle") \/ In(q, "passed") THEN @ ELSE @ + 1,
                  !.used.age = IF pass[q].used.kind = "stale" THEN Older(@) ELSE @,
                  !.mark = IF @ = Unmarked THEN @ ELSE Older(@)]
KEVTick ==
  /\ \A q \in KEVScans : pass[q].age < MaxLookup /\ pass[q].at \notin {"write", "mark"}
  /\ listed' = IF listed.in THEN [listed EXCEPT !.age = Older(@)] ELSE listed
  /\ catalogFile' = OlderFile(catalogFile, MaxStale)
  /\ pass' = [q \in KEVScans |-> AgedPass(q)]

KEVStep(q) ==
  \/ BeginPass(q) \/ LoadKEVCache(q) \/ Download(q) \/ DownloadFails(q) \/ LoadStaleKEVCache(q)
  \/ TruncateCatalog(q) \/ WriteCatalog(q) \/ MarkStale(q) \/ EndScan(q)
KEVNext == (\E q \in KEVScans : KEVStep(q)) \/ List \/ KEVTick
KEVSpec == KEVInit /\ [][KEVNext]_kevVars

-----------------------------------------------------------------------------
Used(q, kind) == In(q, "mark") /\ pass[q].used.kind = kind

\* A vulnerability that a scan says is not known to be exploited ("checked, not listed") was not in
\* the catalog, or has been for as long only as the copy may be old that was used: a day, and thirty
\* when the scan says that the copy is stale.  No catalog at all is never read as one without the
\* vulnerability (threatintel.go 244-247).
KnownExploitedIsSeen ==
  \A q \in KEVScans :
    /\ Used(q, "fresh") /\ ~pass[q].used.in /\ listed.in => listed.age <= CacheTTL + MaxLookup
    /\ Used(q, "stale") /\ ~pass[q].used.in /\ listed.in => listed.age <= MaxStale + MaxLookup
=============================================================================
