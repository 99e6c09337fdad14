----------------------------- MODULE AdvisoryIndex -----------------------------
(***************************************************************************)
(* The index of the vulnerability database (pkg/vulndb) as its two readers *)
(* use it while it changes: the caller that polls ChangedModules to learn  *)
(* which stored analyses to make again, and Analyse (pkg/runner), which    *)
(* puts the fingerprint of the index into the identity of an analysis.     *)
(*                                                                         *)
(* The database is two files, read by two requests: the list of the        *)
(* advisories, each with the time it was modified, and the time at which   *)
(* the database itself was.  An advisory stands for its module, and a time *)
(* is the number of the publication.  Bound: every publication has a time  *)
(* of its own, and both files are read as they are, from no cache.         *)
(***************************************************************************)
EXTENDS Naturals

CONSTANTS
  Advisories,      \* the advisories the database may list
  BuildList,       \* those for modules of the analysed module's build list
  Scans,           \* the analyses of the module
  MaxPublished     \* bound: the publications

ASSUME IndexAssumption == BuildList \subseteq Advisories /\ MaxPublished \in Nat \ {0}

VARIABLES
  published,   \* index/db.json: when the database was modified
  indexed,     \* index/modules.json.gz: [Advisories -> modified, 0 if not listed]
  poll,        \* the call of ChangedModules
  since,       \* the caller's timestamp: the last database time it was told
  reported,    \* [Advisories -> the modification it was told of last]
  raced,       \* whether an index was dated by a db.json newer than itself
  scan         \* [Scans -> the analysis]

indexVars == <<published, indexed, poll, since, reported, raced, scan>>

Listed(a) == indexed[a] # 0

NoPoll == [at |-> "idle", fellBack |-> FALSE, dated |-> 0, index |-> [a \in Advisories |-> 0]]

(* The fingerprint that is not computed: the index could not be read.       *)
NoPrint == <<>>

NoAnalysis == [at |-> "begun", found |-> [a \in BuildList |-> 0], print |-> NoPrint]

IndexInit ==
  /\ published = 1 /\ indexed \in [Advisories -> {0, 1}]
  /\ poll = NoPoll /\ since = 0
  /\ reported = [a \in Advisories |-> 0]
  /\ raced = FALSE
  /\ scan = [s \in Scans |-> NoAnalysis]

-----------------------------------------------------------------------------
(* The database is published: an advisory is added, changed or withdrawn,   *)
(* all of them modifications, or is removed from the index.                 *)
Publish(a) ==
  /\ published < MaxPublished /\ published' = published + 1
  /\ \E modified \in {0, published'} :
       /\ modified # indexed[a]
       /\ indexed' = [indexed EXCEPT ![a] = modified]
  /\ UNCHANGED <<poll, since, reported, raced, scan>>

-----------------------------------------------------------------------------
(* ChangedModules.                                                          *)

Polled(p) == poll' = p /\ UNCHANGED <<published, indexed, scan>>
Told == UNCHANGED <<since, reported, raced>>

BeginPoll == poll.at = "idle" /\ Polled([NoPoll EXCEPT !.at = "db.json"]) /\ Told

(* db.json is read first: the list is not asked for when nothing changed.   *)
DBModified ==
  /\ poll.at = "db.json" /\ Told
  /\ \/ published <= since /\ Polled(NoPoll)
     \/ published > since /\ Polled([poll EXCEPT !.at = "modules", !.dated = published])
     \/ Polled([poll EXCEPT !.at = "modules", !.fellBack = TRUE])

(* Mutant: the list is always read with FetchIndex, which dates it anew.    *)
DatesAnewAlways(p) == TRUE

(* Without a time of the database the list is read with FetchIndex.         *)
DatesAnew(p) == p.fellBack

FetchModules ==
  /\ poll.at = "modules" /\ Told
  /\ \/ Polled([poll EXCEPT !.at = IF DatesAnew(poll) THEN "date" ELSE "told",
                            !.index = indexed])
     \/ Polled(NoPoll)

(* FetchIndex reads db.json after the list; no time is no failure.          *)
FetchIndex ==
  /\ poll.at = "date"
  /\ \/ /\ Polled([poll EXCEPT !.at = "told", !.dated = published])
        /\ raced' = (raced \/ (poll.fellBack /\ poll.index # indexed))
        /\ UNCHANGED <<since, reported>>
     \/ Polled([poll EXCEPT !.at = "told"]) /\ Told

ChangesSince(index, t) == {a \in Advisories : index[a] > t}

(* The caller keeps the time it was told for the next poll.                 *)
KeptTime(dated) == IF dated = 0 THEN since ELSE dated

ChangedModules ==
  /\ poll.at = "told"
  /\ reported' = [a \in Advisories |-> IF a \in ChangesSince(poll.index, since)
                                       THEN poll.index[a] ELSE reported[a]]
  /\ since' = KeptTime(poll.dated)
  /\ Polled(NoPoll) /\ UNCHANGED raced

-----------------------------------------------------------------------------
(* Analyse: govulncheck reads the database, and when all is done identityOf *)
(* reads the index for the fingerprint.                                     *)

Fingerprint(index) == [a \in BuildList |-> index[a]]

Advances(s, analysis) ==
  scan' = [scan EXCEPT ![s] = analysis] /\ UNCHANGED <<published, indexed, poll>> /\ Told

Govulncheck(s) ==
  /\ scan[s].at = "begun"
  /\ Advances(s, [scan[s] EXCEPT !.at = "scanned", !.found = [a \in BuildList |-> indexed[a]]])

IdentityOf(s) ==
  /\ scan[s].at = "scanned"
  /\ \E print \in {<<Fingerprint(indexed)>>, NoPrint} :
       Advances(s, [scan[s] EXCEPT !.at = "stored", !.print = print])

-----------------------------------------------------------------------------
IndexNext ==
  \/ \E a \in Advisories : Publish(a)
  \/ BeginPoll \/ DBModified \/ FetchModules \/ FetchIndex \/ ChangedModules
  \/ \E s \in Scans : Govulncheck(s) \/ IdentityOf(s)

IndexSpec == IndexInit /\ [][IndexNext]_indexVars

-----------------------------------------------------------------------------
(* Properties.                                                             *)

(* A change is never lost between two polls: whatever the database says has *)
(* changed up to the caller's timestamp was reported to it, however the     *)
(* publications fall between the requests.  It holds because db.json is     *)
(* read before the list; in the fallback, where FetchIndex reads it after   *)
(* the list, a publication in between is dated but not reported.            *)
ChangesAreReported ==
  ~raced => \A a \in Advisories :
    Listed(a) /\ indexed[a] <= since => reported[a] = indexed[a]

(* "Two analyses with the same key are interchangeable" (Identity.Key); all *)
(* else being equal, the key is the fingerprint.                            *)
SameKeySameAnalysis ==
  \A x, y \in Scans :
    /\ scan[x].at = "stored" /\ scan[y].at = "stored"
    /\ scan[x].print # NoPrint /\ scan[x].print = scan[y].print
    => scan[x].found = scan[y].found
=============================================================================
