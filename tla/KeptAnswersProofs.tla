-------------------------- MODULE KeptAnswersProofs --------------------------
(***************************************************************************)
(* Proofs about the answers that are kept.                                 *)
(*                                                                         *)
(* On disk, for any number of scans that share it, any time to live and    *)
(* any length of a behaviour:                                              *)
(*   - KEVCatalog: a vulnerability that a scan says is not known to be     *)
(*     exploited has been listed for no longer than a kept copy may serve; *)
(*   - UpkeepLookup: a failure is never read as "nothing to tell", and the *)
(*     activity that is told is recent;                                    *)
(*   - SeverityLookup: an advisory is said to have no score, or its lookup *)
(*     to have failed, from requests no older than a kept answer may be,   *)
(*     and the record of the CVE is asked for however many aliases there   *)
(*     are.                                                                *)
(*                                                                         *)
(* With a stored analysis (FactsStore), for every set of analyses and      *)
(* graders, every maximal age and every bound:                             *)
(*   - the state keeps its types;                                          *)
(*   - while analyses learn everything, overlapping grades never use a     *)
(*     reading older than their analysis's own;                            *)
(*   - while grades do not overlap, facts only get newer and no reading is *)
(*     forgotten;                                                          *)
(*   - a status taken from the store was complete, and recent enough.      *)
(***************************************************************************)
EXTENDS KEVCatalog, UpkeepLookup, SeverityLookup, FactsStore, TLAPS

-----------------------------------------------------------------------------
(* The catalog of exploited vulnerabilities.                               *)

WholeFiles == [age : Nat, whole : {TRUE}, is : BOOLEAN]
Uses == [kind : {"none", "fresh", "stale"}, in : BOOLEAN, age : Nat]
Passes == [at : {"idle", "load", "fetch", "stale", "save", "write", "mark", "passed"},
           age : 0..MaxLookup, nr : Nat, hold : BOOLEAN, used : Uses,
           mark : Nat \cup {Unmarked}]

(* Who does not have the vulnerability missed it for no longer than this.  *)
MissedFor(in, age) == ~in /\ listed.in => listed.age <= age

HonestCopy(file) ==
  /\ file \in WholeFiles \/ file = Missing \/ file = Torn
  /\ file.whole /\ file.age <= MaxStale => MissedFor(file.is, file.age + MaxLookup)

(* A pass that holds a download began it within the pass; what it used is  *)
(* no older than it says.                                                  *)
HonestPass(r) ==
  /\ r \in Passes
  /\ r.at \in {"save", "write"} => MissedFor(r.hold, r.age)
  /\ r.at = "mark" /\ r.used.kind = "fresh" => MissedFor(r.used.in, CacheTTL + MaxLookup)
  /\ r.at = "mark" /\ r.used.kind = "stale" => MissedFor(r.used.in, MaxStale + MaxLookup)

KEVInv ==
  /\ listed \in [in : BOOLEAN, age : Nat]
  /\ HonestCopy(catalogFile)
  /\ DOMAIN pass = KEVScans /\ pass = [q \in KEVScans |-> pass[q]]
  /\ \A q \in KEVScans : HonestPass(pass[q])

(* The times to live are numbers, and a stale copy may be older.            *)
LEMMA TimesToLive == /\ CacheTTL \in Nat /\ MaxLookup \in Nat /\ Old \in Nat
                     /\ MaxStale \in Nat /\ CacheTTL < MaxStale
BY CacheAssumption, KEVAssumption

(* No catalog at all is neither a fresh nor a stale one.                    *)
LEMMA NothingRead == NoCatalog \in Uses /\ NoCatalog.kind = "none"
BY DEF NoCatalog, Uses

(* A pass that has ended claims nothing.                                    *)
LEMMA NoPassIsHonest == HonestPass(Ended)
BY TimesToLive, NothingRead DEF Ended, HonestPass, Passes, Unmarked

(* An empty disk and scans that have not begun are honest.                  *)
LEMMA InitKEV == KEVInit => KEVInv
BY TimesToLive, NoPassIsHonest DEF KEVInit, KEVInv, HonestCopy, Missing

(* A step of a scan that leaves an honest copy and is honest itself.       *)
LEMMA HonestStep ==
  ASSUME KEVInv, NEW q \in KEVScans, NEW r, Put(q, r), HonestPass(r),
         HonestCopy(catalogFile'), UNCHANGED listed
  PROVE  KEVInv'
BY DEF KEVInv, Put, HonestPass, HonestCopy, MissedFor

(* A scan's own steps.                                                     *)
LEMMA KEVScanStep ==
  ASSUME KEVInv, NEW q \in KEVScans, KEVStep(q) PROVE KEVInv'
<1> DEFINE r == pass[q]
<1>1. /\ HonestPass(r) /\ r \in Passes /\ r.used \in Uses
      /\ listed \in [in : BOOLEAN, age : Nat]
      /\ HonestCopy(catalogFile)
  BY DEF KEVInv, HonestPass, Passes
<1>2. catalogFile.whole => catalogFile \in WholeFiles
  BY <1>1 DEF HonestCopy, Missing, Torn
<1> USE TimesToLive DEF In, Passes, Unmarked
<1>3. ASSUME NEW u \in Uses,
             u.kind = "fresh" => MissedFor(u.in, CacheTTL + MaxLookup),
             u.kind = "stale" => MissedFor(u.in, MaxStale + MaxLookup)
      PROVE  HonestPass(UseOf(q, u))
  BY <1>1, <1>3 DEF UseOf, HonestPass
<1>4. CASE BeginPass(q)
  <2>1. HonestPass([r EXCEPT !.at = "load", !.nr = @ + 1, !.age = 0])
    <3>1. r.nr + 1 \in Nat /\ 0 \in 0..MaxLookup
      BY <1>1
    <3> QED
      BY <1>1, <3>1 DEF HonestPass
  <2> QED
    BY <1>1, <1>4, <2>1, HonestStep DEF BeginPass
<1>5. CASE LoadKEVCache(q)
  <2>1. CASE Within(catalogFile, CacheTTL)
    <3>1. /\ FreshCatalog(catalogFile.is) \in Uses
          /\ MissedFor(catalogFile.is, CacheTTL + MaxLookup)
      BY <1>1, <1>2, <2>1 DEF Within, FreshCatalog, Uses, WholeFiles, HonestCopy, MissedFor
    <3>2. HonestPass(UseOf(q, FreshCatalog(catalogFile.is)))
      BY <1>3, <3>1 DEF FreshCatalog
    <3> QED
      BY <1>1, <1>5, <2>1, <3>2, HonestStep DEF LoadKEVCache
  <2>2. CASE ~Within(catalogFile, CacheTTL)
    <3>1. HonestPass([r EXCEPT !.at = "fetch"])
      BY <1>1 DEF HonestPass
    <3> QED
      BY <1>1, <1>5, <2>2, <3>1, HonestStep DEF LoadKEVCache
  <2> QED
    BY <2>1, <2>2
<1>6. CASE Download(q)
  <2>1. HonestPass([r EXCEPT !.at = "save", !.hold = listed.in])
    BY <1>1 DEF HonestPass, MissedFor
  <2> QED
    BY <1>1, <1>6, <2>1, HonestStep DEF Download
<1>7. CASE DownloadFails(q)
  <2>1. HonestPass([r EXCEPT !.at = "stale"])
    BY <1>1 DEF HonestPass
  <2> QED
    BY <1>1, <1>7, <2>1, HonestStep DEF DownloadFails
<1>8. CASE LoadStaleKEVCache(q)
  <2>1. CASE Usable(catalogFile)
    <3>1. /\ StaleCatalog(catalogFile) \in Uses
          /\ MissedFor(catalogFile.is, MaxStale + MaxLookup)
      BY <1>1, <1>2, <2>1 DEF Usable, Within, StaleCatalog, Uses, WholeFiles, HonestCopy,
         MissedFor
    <3>2. HonestPass(UseOf(q, StaleCatalog(catalogFile)))
      BY <1>3, <3>1 DEF StaleCatalog
    <3> QED
      BY <1>1, <1>8, <2>1, <3>2, HonestStep DEF LoadStaleKEVCache
  <2>2. CASE ~Usable(catalogFile)
    <3>1. HonestPass(UseOf(q, NoCatalog))
      BY <1>3, NothingRead
    <3> QED
      BY <1>1, <1>8, <2>2, <3>1, HonestStep DEF LoadStaleKEVCache
  <2> QED
    BY <2>1, <2>2
<1>9. CASE TruncateCatalog(q)
  <2>1. HonestPass([r EXCEPT !.at = "write"])
    BY <1>1, <1>9 DEF HonestPass, TruncateCatalog
  <2>2. HonestCopy(Torn)
    BY DEF HonestCopy, Torn
  <2> QED
    BY <1>9, <2>1, <2>2, HonestStep DEF TruncateCatalog
<1>10. CASE WriteCatalog(q)
  <2>1. MissedFor(r.hold, MaxLookup) /\ r.hold \in BOOLEAN
    BY <1>1, <1>10 DEF WriteCatalog, HonestPass, MissedFor
  <2>2. HonestPass(UseOf(q, FreshCatalog(r.hold)))
    <3>1. /\ FreshCatalog(r.hold) \in Uses /\ FreshCatalog(r.hold).kind = "fresh"
          /\ MissedFor(FreshCatalog(r.hold).in, CacheTTL + MaxLookup)
      BY <1>1, <2>1 DEF FreshCatalog, Uses, MissedFor
    <3> QED
      BY <1>3, <3>1
  <2>3. HonestCopy(Torn) /\ HonestCopy(FileEntry(r.hold))
    BY <2>1 DEF HonestCopy, Torn, FileEntry, WholeFiles, MissedFor
  <2>4. HonestCopy(catalogFile')
    BY <1>1, <1>10, <2>3 DEF WriteCatalog, Written
  <2> QED
    BY <1>10, <2>2, <2>4, HonestStep DEF WriteCatalog
<1>11. CASE MarkStale(q)
  <2>1. Marked(q) \in Nat \cup {Unmarked}
    BY <1>1 DEF Marked, Uses
  <2>2. HonestPass([r EXCEPT !.at = "passed", !.mark = Marked(q), !.hold = FALSE])
    BY <1>1, <2>1 DEF HonestPass
  <2> QED
    BY <1>1, <1>11, <2>2, HonestStep DEF MarkStale
<1>12. CASE EndScan(q)
  BY <1>1, <1>12, NoPassIsHonest, HonestStep DEF EndScan
<1> QED
  BY <1>4, <1>5, <1>6, <1>7, <1>8, <1>9, <1>10, <1>11, <1>12 DEF KEVStep

(* Time passes for the catalog, the copy and the passes alike.             *)
LEMMA KEVTickStep == ASSUME KEVInv, KEVTick PROVE KEVInv'
<1> USE TimesToLive
<1>1. /\ listed \in [in : BOOLEAN, age : Nat] /\ HonestCopy(catalogFile)
      /\ \A q \in KEVScans : HonestPass(pass[q])
  BY DEF KEVInv
<1>2. listed' \in [in : BOOLEAN, age : Nat]
  BY <1>1 DEF KEVTick, Older
<1>3. listed'.in = listed.in /\ (listed.in => listed'.age <= listed.age + 1)
  BY <1>1 DEF KEVTick, Older
<1>4. HonestCopy(catalogFile)'
  <2>1. CASE catalogFile.whole
    <3>1. catalogFile \in WholeFiles
      BY <1>1, <2>1 DEF HonestCopy, Missing, Torn
    <3>2. /\ catalogFile' \in WholeFiles
          /\ catalogFile'.is = catalogFile.is
          /\ catalogFile'.age <= MaxStale => /\ catalogFile.age <= MaxStale
                                             /\ catalogFile'.age = catalogFile.age + 1
      <4> DEFINE age == IF catalogFile.age <= MaxStale THEN catalogFile.age + 1
                        ELSE catalogFile.age
      <4>1. catalogFile' = [catalogFile EXCEPT !.age = age]
        BY <2>1 DEF KEVTick, OlderFile
      <4>2. age \in Nat /\ (age <= MaxStale => age = catalogFile.age + 1 /\ catalogFile.age <= MaxStale)
        BY <3>1 DEF WholeFiles
      <4> HIDE DEF age
      <4> QED
        BY <3>1, <4>1, <4>2 DEF WholeFiles
    <3>3. /\ catalogFile.age \in Nat /\ catalogFile.is \in BOOLEAN
          /\ catalogFile'.age \in Nat /\ catalogFile'.is \in BOOLEAN
      BY <3>1, <3>2 DEF WholeFiles
    <3> QED
      BY <1>1, <1>2, <1>3, <2>1, <3>2, <3>3 DEF HonestCopy, MissedFor
  <2>2. CASE ~catalogFile.whole
    BY <1>1, <2>2 DEF KEVTick, OlderFile, HonestCopy, Missing, Torn, WholeFiles
  <2> QED
    BY <2>1, <2>2
<1>5. ASSUME NEW q \in KEVScans PROVE HonestPass(AgedPass(q)) /\ HonestPass(pass[q])'
  <2> DEFINE r == pass[q]
  <2>1. r \in Passes /\ r.at # "mark" /\ r.at # "write" /\ r.age < MaxLookup
    BY <1>1 DEF KEVTick, HonestPass
  <2>2. /\ r.age \in 0..MaxLookup /\ r.hold \in BOOLEAN /\ r.used \in Uses
        /\ r.mark \in Nat \cup {Unmarked}
    BY <2>1 DEF Passes
  <2>3. /\ Older(r.used.age) \in Nat
        /\ r.mark # Unmarked => Older(r.mark) \in Nat
    BY <2>2 DEF Older, Uses, Unmarked
  <2>4. AgedPass(q) \in Passes
    <3> DEFINE age == IF In(q, "idle") \/ In(q, "passed") THEN r.age ELSE r.age + 1
               usedAge == IF r.used.kind = "stale" THEN Older(r.used.age) ELSE r.used.age
               mark == IF r.mark = Unmarked THEN r.mark ELSE Older(r.mark)
    <3>1. /\ age \in 0..MaxLookup /\ usedAge \in Nat /\ mark \in Nat \cup {Unmarked}
      BY <2>1, <2>2, <2>3 DEF Uses
    <3>2. [r.used EXCEPT !.age = usedAge] \in Uses
      BY <2>2, <3>1 DEF Uses
    <3>3. AgedPass(q) = [r EXCEPT !.age = age, !.used = [r.used EXCEPT !.age = usedAge],
                                  !.mark = mark]
      BY <2>1 DEF AgedPass, Passes
    <3> HIDE DEF age, usedAge, mark
    <3> QED
      BY <2>1, <3>1, <3>2, <3>3 DEF Passes
  <2>5. /\ AgedPass(q).at = r.at /\ AgedPass(q).hold = r.hold
        /\ r.at = "save" => AgedPass(q).age = r.age + 1
    BY <2>1, <2>2 DEF AgedPass, Passes, In
  <2>6. pass'[q] = AgedPass(q)
    BY DEF KEVTick
  <2> QED
    BY <1>1, <1>2, <1>3, <2>1, <2>2, <2>4, <2>5, <2>6 DEF HonestPass, MissedFor
<1>6. DOMAIN pass' = KEVScans /\ pass' = [q \in KEVScans |-> pass'[q]]
  BY DEF KEVTick
<1> QED
  BY <1>2, <1>4, <1>5, <1>6 DEF KEVInv

(* A vulnerability that a scan says is not known to be exploited was not   *)
(* in the catalog when the copy it used was downloaded, and that was a day *)
(* before at most, or thirty when the scan says that the copy is stale;    *)
(* torn files, crashes and lookups that overlap change nothing of it       *)
(* (threatintel.go 244-247).                                               *)
THEOREM ExploitedIsSeen == KEVSpec => []KnownExploitedIsSeen
<1>1. KEVInv /\ [KEVNext]_kevVars => KEVInv'
  <2> SUFFICES ASSUME KEVInv, [KEVNext]_kevVars PROVE KEVInv'
    OBVIOUS
  <2>1. CASE List
    <3>1. /\ listed' = [in |-> TRUE, age |-> 0]
          /\ catalogFile' = catalogFile /\ pass' = pass
      BY <2>1 DEF List
    <3>2. \A in, age : age \in Nat => MissedFor(in, age)'
      BY <3>1 DEF MissedFor
    <3>3. HonestCopy(catalogFile)'
      <4>1. catalogFile.whole => catalogFile.age + MaxLookup \in Nat
        <5>1. catalogFile.whole => catalogFile \in WholeFiles
          BY DEF KEVInv, HonestCopy, Missing, Torn
        <5> QED
          BY <5>1, TimesToLive DEF WholeFiles
      <4> QED
        BY <3>1, <3>2, <4>1 DEF KEVInv, HonestCopy
    <3>4. ASSUME NEW q \in KEVScans PROVE HonestPass(pass[q])'
      <4>1. /\ pass[q] \in Passes /\ pass[q].age \in Nat
            /\ CacheTTL + MaxLookup \in Nat /\ MaxStale + MaxLookup \in Nat
        BY TimesToLive DEF KEVInv, HonestPass, Passes
      <4> QED
        BY <3>1, <3>2, <4>1 DEF HonestPass
    <3> QED
      BY <3>1, <3>3, <3>4 DEF KEVInv
  <2>2. CASE UNCHANGED kevVars
    BY <2>2 DEF kevVars, KEVInv, HonestCopy, HonestPass, MissedFor
  <2> QED
    BY <2>1, <2>2, KEVScanStep, KEVTickStep DEF KEVNext
<1>2. KEVInv => KnownExploitedIsSeen
  BY DEF KEVInv, KnownExploitedIsSeen, HonestPass, MissedFor, Used, In
<1> QED
  BY <1>1, <1>2, InitKEV, PTL DEF KEVSpec

---------------------------------------------------------------------------
(* The upkeep of a module.                                                 *)

Infos == [pinned : BOOLEAN, latest : 0..2, deprecated : BOOLEAN, retracted : BOOLEAN,
          modCheckFailed : BOOLEAN, activity : Int, via : {"none", "proxy", "github"},
          floor : Int, counted : BOOLEAN, unlisted : BOOLEAN]
Noticing == {"remove", "rename", "activity", "branch", "fall back", "unasked", "done"}
Upkeeps == [at : {"idle", "version", "latest", "notices", "no data"} \cup Noticing,
            began : 0..2, info : Infos, left : Seq(Branches),
            put : UpkeepFiles \cup {"none"}, then : {"idle", "activity", "done"}]
DiskFiles == [age : Nat, there : BOOLEAN, is : Int]

(* Whoever has no notice and no failed check has read one, unless the proxy*)
(* may give up on @latest.                                                 *)
CleanSoFar(r) ==
  "latest" \notin FailedFetches =>
    /\ r.at = "notices" => r.info.latest = 0 \/ r.info.latest >= r.began
    /\ r.at \in Noticing /\ ~r.info.deprecated /\ ~r.info.retracted
         /\ ~r.info.modCheckFailed =>
         /\ r.info.latest >= r.began /\ r.info.latest # 0
         /\ NoticeOf(r.info.latest) = "none"

(* The branches that are still to be asked for: all of them, or those after*)
(* one that does not hold the module, or whose repository was not listed.  *)
LeftToAsk(left, unlisted) ==
  \/ left = <<"main", "master">>
  \/ left = <<"master">> /\ ("main" \notin world.holds \/ unlisted)
  \/ left = <<world.default>> /\ UsableBranchQuery(world.default)

NoActivityReason ==
  \/ world.archived
  \/ \A b \in {"main", "master"} : b \notin world.holds
  \/ UsableBranchQuery(world.default) /\ world.default \notin world.holds
  \/ ~UsableBranchQuery(world.default) /\ ~world.token

SilentSoFar(r) ==
  /\ r.at = "branch" => LeftToAsk(r.left, r.info.unlisted)
  /\ r.at = "unasked" => ~UsableBranchQuery(world.default)
  /\ r.at \in {"remove", "rename"} =>
       /\ r.then # "idle"
       /\ r.then = "done" => r.info.via = "proxy"
  /\ r.at = "done" /\ r.info.via = "none" /\ ~r.info.counted =>
       NoActivityReason \/ r.info.unlisted

(* An answer is written on the day it was given.                           *)
RecentSoFar(r) ==
  /\ r.info.via = "proxy" => r.info.activity >= r.info.floor
  /\ r.at \in {"remove", "rename"} /\ r.put \in {"main", "master"} =>
       r.info.activity >= midnights[1]

Right(r) == r \in Upkeeps /\ r.began <= newest
              /\ CleanSoFar(r) /\ SilentSoFar(r) /\ RecentSoFar(r)

(* A branch's answer on the disk is that of its head on the day it was     *)
(* written.                                                                *)
DiskIsRecent ==
  /\ disk \in [UpkeepFiles -> DiskFiles]
  /\ \A f \in {"main", "master"} : disk[f].there =>
       /\ disk[f].age = 0 => disk[f].is >= midnights[1]
       /\ disk[f].age <= 1 => disk[f].is >= midnights[2]

WorldTypeOK ==
  /\ world \in [notice : Notices, default : Branches, holds : SUBSET {"main", "master"},
                archived : BOOLEAN, token : BOOLEAN]
  /\ newest \in 0..2
  /\ today \in Nat /\ head \in Nat /\ midnights \in Nat \X Nat
  /\ midnights[2] <= midnights[1] /\ midnights[1] <= head /\ head <= today

UpkeepInv ==
  /\ WorldTypeOK /\ DiskIsRecent
  /\ upkeep = [s \in UpkeepScans |-> upkeep[s]]
  /\ \A s \in UpkeepScans : Right(upkeep[s])

(* Nothing known of a module has the type of what is.                       *)
LEMMA NoInfoTyped == NoInfo \in Infos /\ NoInfo.via = "none"
BY DEF NoInfo, Infos

(* A scan that has not begun has its type.                                  *)
LEMMA NotScanningTyped ==
  /\ NotScanning \in Upkeeps
  /\ NotScanning.at = "idle" /\ NotScanning.began = 0 /\ NotScanning.info = NoInfo
BY NoInfoTyped DEF NotScanning, Upkeeps

(* A scan that has not begun has said nothing wrong.                        *)
LEMMA NotScanningIsRight == ASSUME WorldTypeOK PROVE Right(NotScanning)
BY NotScanningTyped, NoInfoTyped
DEF Right, CleanSoFar, SilentSoFar, RecentSoFar, WorldTypeOK, Noticing

(* An empty disk and scans that have not begun are right.                   *)
LEMMA InitUpkeep == UpkeepInit => UpkeepInv
<1> SUFFICES ASSUME UpkeepInit PROVE UpkeepInv
  OBVIOUS
<1>1. WorldTypeOK
  BY TokensAssumption DEF UpkeepInit, WorldTypeOK
<1>2. DiskIsRecent
  BY DEF UpkeepInit, DiskIsRecent, UpkeepFiles, NoFile, DiskFiles
<1> QED
  BY <1>1, <1>2, NotScanningIsRight DEF UpkeepInit, UpkeepInv

(* A step of a scan that leaves the disk right and is right itself.        *)
LEMMA RightStep ==
  ASSUME UpkeepInv, NEW s \in UpkeepScans, NEW r, Becomes(s, r), Right(r),
         DiskIsRecent', UNCHANGED <<world, newest, today, head, midnights>>
  PROVE  UpkeepInv'
<1>1. WorldTypeOK'
  BY DEF UpkeepInv, WorldTypeOK
<1>2. \A q : Right(q) => Right(q)'
  BY DEF Right, CleanSoFar, SilentSoFar, RecentSoFar, NoticeOf, LeftToAsk, NoActivityReason
<1>3. \A t \in UpkeepScans : upkeep'[t] = IF t = s THEN r ELSE upkeep[t]
  BY DEF UpkeepInv, Becomes
<1>4. upkeep' = [t \in UpkeepScans |-> upkeep'[t]]
  BY DEF UpkeepInv, Becomes
<1>5. \A t \in UpkeepScans : Right(upkeep'[t])
  BY <1>3 DEF UpkeepInv
<1>6. \A t \in UpkeepScans : Right(upkeep[t])'
  BY <1>2, <1>5
<1> QED
  BY <1>1, <1>4, <1>6 DEF UpkeepInv

(* What is known of a scan before its step.                                *)
LEMMA ScanFacts ==
  ASSUME UpkeepInv, NEW s \in UpkeepScans
  PROVE  /\ Right(upkeep[s]) /\ upkeep[s] \in Upkeeps
         /\ upkeep[s].info \in Infos /\ upkeep[s].left \in Seq(Branches)
         /\ upkeep[s].began \in 0..2 /\ upkeep[s].began <= newest
         /\ WorldTypeOK /\ DiskIsRecent
         /\ Info(s) = upkeep[s].info
BY DEF UpkeepInv, Right, Upkeeps, Info

(* checkModule, up to the activity.                                        *)
LEMMA NoticesStep ==
  ASSUME UpkeepInv, NEW s \in UpkeepScans, Elsewhere,
         \/ BeginUpkeep(s) \/ FetchVersionInfo(s) \/ FetchLatestInfo(s)
         \/ CheckGoModDeprecation(s)
  PROVE  UpkeepInv'
<1> DEFINE r == upkeep[s]
           i == upkeep[s].info
<1>1. /\ Right(r) /\ r \in Upkeeps /\ i \in Infos /\ WorldTypeOK /\ DiskIsRecent
      /\ r.began \in 0..2 /\ Info(s) = i
  BY ScanFacts
<1>2. DiskIsRecent'
  BY <1>1 DEF DiskIsRecent, Elsewhere
<1>3. ASSUME NEW q, Right(q), Becomes(s, q) PROVE UpkeepInv'
  BY <1>2, <1>3, RightStep DEF Elsewhere
<1> USE DEF AtPlace, Noticing
<1>4. CASE BeginUpkeep(s)
  <2> DEFINE q == [NotScanning EXCEPT !.at = "version", !.began = newest]
  <2>1. /\ q \in Upkeeps /\ q.at = "version" /\ q.began = newest /\ q.info = NoInfo
    BY <1>1, NotScanningTyped DEF Upkeeps, WorldTypeOK
  <2> HIDE DEF q
  <2>2. newest <= newest
    BY <1>1 DEF WorldTypeOK
  <2>3. Right(q)
    BY <2>1, <2>2, NoInfoTyped DEF Right, CleanSoFar, SilentSoFar, RecentSoFar
  <2> QED
    BY <1>3, <1>4, <2>3 DEF BeginUpkeep, q
<1>5. CASE FetchVersionInfo(s)
  <2>1. PICK answered \in BOOLEAN :
          Goes(s, "latest", [NoInfo EXCEPT !.pinned = answered])
    BY <1>5 DEF FetchVersionInfo
  <2> DEFINE n == [NoInfo EXCEPT !.pinned = answered]
             q == [r EXCEPT !.at = "latest", !.info = n]
  <2>2. n \in Infos /\ n.via = "none"
    BY NoInfoTyped DEF Infos
  <2> HIDE DEF n
  <2>3. q \in Upkeeps /\ q.at = "latest" /\ q.began = r.began /\ q.info = n
    BY <1>1, <2>2 DEF Upkeeps
  <2>4. Right(q)
    BY <1>1, <2>2, <2>3 DEF Right, CleanSoFar, SilentSoFar, RecentSoFar
  <2> QED
    BY <1>3, <2>1, <2>4 DEF Goes, n
<1>6. CASE FetchLatestInfo(s)
  <2>1. PICK outcome \in LatestInfo(s) :
          LET latest == IF outcome = "answered" THEN newest
                        ELSE IF StandsIn(outcome, i.pinned) THEN 1 ELSE 0
          IN IF ~i.pinned /\ latest = 0
             THEN Goes(s, "no data", i)
             ELSE Goes(s, "notices", [i EXCEPT !.latest = latest])
    BY <1>1, <1>6 DEF FetchLatestInfo
  <2> DEFINE latest == IF outcome = "answered" THEN newest
                       ELSE IF StandsIn(outcome, i.pinned) THEN 1 ELSE 0
             n == [i EXCEPT !.latest = latest]
  <2>2. latest \in 0..2
    BY <1>1 DEF WorldTypeOK
  <2>3. "latest" \notin FailedFetches => latest = 0 \/ latest >= r.began
    <3>1. newest \in 0..2 /\ r.began <= newest
      BY <1>1 DEF WorldTypeOK, Right
    <3>2. CASE newest = 0
      BY <1>1, <3>1, <3>2
    <3>3. CASE newest # 0 /\ "latest" \notin FailedFetches
      <4>1. outcome \in {"answered", "failed"}
        BY <3>3 DEF LatestInfo
      <4> QED
        BY <3>1, <4>1 DEF StandsIn
    <3> QED
      BY <3>2, <3>3
  <2>4. r.at = "latest"
    BY <1>6 DEF FetchLatestInfo
  <2> HIDE DEF latest
  <2>5. n \in Infos /\ n.latest = latest /\ n.via = i.via /\ n.floor = i.floor
          /\ n.activity = i.activity
    BY <1>1, <2>2 DEF Infos
  <2>6. CASE Goes(s, "no data", i)
    <3> DEFINE q == [r EXCEPT !.at = "no data", !.info = i]
    <3>1. q \in Upkeeps /\ q.at = "no data" /\ q.began = r.began /\ q.info = i
      BY <1>1 DEF Upkeeps
    <3>2. Right(q)
      BY <1>1, <3>1 DEF Right, CleanSoFar, SilentSoFar, RecentSoFar
    <3> QED
      BY <1>3, <2>6, <3>2 DEF Goes
  <2>7. CASE Goes(s, "notices", n)
    <3> DEFINE q == [r EXCEPT !.at = "notices", !.info = n]
    <3>1. q \in Upkeeps /\ q.at = "notices" /\ q.began = r.began /\ q.info = n
      BY <1>1, <2>5 DEF Upkeeps
    <3>2. Right(q)
      BY <1>1, <2>3, <2>5, <3>1 DEF Right, CleanSoFar, SilentSoFar, RecentSoFar
    <3> QED
      BY <1>3, <2>7, <3>2 DEF Goes
  <2> QED
    BY <2>1, <2>6, <2>7 DEF latest
<1>7. CASE CheckGoModDeprecation(s)
  <2> DEFINE unread == [i EXCEPT !.modCheckFailed = TRUE]
             file == ModFile(i.latest)
             n == Noticed(i)
  <2>1. \/ Goes(s, "activity", unread)
        \/ i.latest # 0 /\ Goes(s, "activity", n)
        \/ i.latest # 0 /\ Keeps(s, file, "activity", n)
    BY <1>1, <1>7 DEF CheckGoModDeprecation
  <2>2. r.at = "notices"
    BY <1>7 DEF CheckGoModDeprecation
  <2>3. /\ unread \in Infos /\ unread.modCheckFailed
        /\ unread.via = i.via /\ unread.floor = i.floor /\ unread.activity = i.activity
    BY <1>1 DEF Infos
  <2>4. /\ n \in Infos /\ n.latest = i.latest
        /\ n.via = i.via /\ n.floor = i.floor /\ n.activity = i.activity
        /\ n.deprecated = (NoticeOf(i.latest) = "deprecated")
        /\ n.retracted = (NoticeOf(i.latest) = "retracted")
    BY <1>1 DEF Infos, Noticed
  <2>5. NoticeOf(i.latest) \in {"none", "deprecated", "retracted"}
    BY <1>1 DEF NoticeOf, WorldTypeOK, Notices
  <2>6. file \in {"mod1", "mod2"}
    BY DEF ModFile
  <2>7. i.via = "proxy" => i.activity >= i.floor
    BY <1>1 DEF Right, RecentSoFar
  <2>8. i.latest # 0 /\ "latest" \notin FailedFetches => i.latest >= r.began
    BY <1>1, <2>2 DEF Right, CleanSoFar
  <2> HIDE DEF unread, n, file
  <2>9. CASE Goes(s, "activity", unread)
    <3> DEFINE q == [r EXCEPT !.at = "activity", !.info = unread]
    <3>1. q \in Upkeeps /\ q.at = "activity" /\ q.began = r.began /\ q.info = unread
      BY <1>1, <2>3 DEF Upkeeps
    <3>2. Right(q)
      BY <1>1, <2>3, <2>7, <3>1 DEF Right, CleanSoFar, SilentSoFar, RecentSoFar
    <3> QED
      BY <1>3, <2>9, <3>2 DEF Goes
  <2>10. CASE i.latest # 0 /\ Goes(s, "activity", n)
    <3> DEFINE q == [r EXCEPT !.at = "activity", !.info = n]
    <3>1. q \in Upkeeps /\ q.at = "activity" /\ q.began = r.began /\ q.info = n
      BY <1>1, <2>4 DEF Upkeeps
    <3>2. Right(q)
      BY <1>1, <2>4, <2>5, <2>7, <2>8, <2>10, <3>1
      DEF Right, CleanSoFar, SilentSoFar, RecentSoFar
    <3> QED
      BY <1>3, <2>10, <3>2 DEF Goes
  <2>11. CASE i.latest # 0 /\ Keeps(s, file, "activity", n)
    <3> DEFINE q == [r EXCEPT !.at = "remove", !.put = file, !.then = "activity",
                              !.info = n]
    <3>1. /\ q \in Upkeeps /\ q.at = "remove" /\ q.began = r.began /\ q.info = n
          /\ q.put = file /\ q.then = "activity"
      <4>1. n \in Infos /\ file \in UpkeepFiles /\ r \in Upkeeps
        BY <1>1, <2>4, <2>6 DEF UpkeepFiles
      <4> HIDE DEF r, i
      <4> QED
        BY <4>1 DEF Upkeeps
    <3>2. Becomes(s, q)
      BY <2>11 DEF Keeps
    <3> HIDE DEF q
    <3>3. Right(q)
      <4>1. SilentSoFar(q) /\ RecentSoFar(q)
        BY <2>4, <2>6, <2>7, <3>1 DEF SilentSoFar, RecentSoFar
      <4>2. CleanSoFar(q)
        BY <2>4, <2>5, <2>8, <2>11, <3>1 DEF CleanSoFar
      <4> QED
        BY <1>1, <3>1, <4>1, <4>2 DEF Right
    <3> QED
      BY <1>3, <3>3, <3>2
  <2> QED
    BY <2>1, <2>9, <2>10, <2>11
<1> QED
  BY <1>4, <1>5, <1>6, <1>7

(* maintainerCache.Put.                                                    *)
LEMMA PutStep ==
  ASSUME UpkeepInv, NEW s \in UpkeepScans, Remove(s) \/ Rename(s)
  PROVE  UpkeepInv'
<1> DEFINE r == upkeep[s]
           over == [r EXCEPT !.at = r.then, !.put = "none"]
<1>1. /\ Right(r) /\ r \in Upkeeps /\ WorldTypeOK /\ DiskIsRecent /\ Info(s) = r.info
      /\ r.info \in Infos
  BY ScanFacts
<1>2. /\ r.at \in {"remove", "rename"} /\ r.then \in {"activity", "done"}
      /\ UNCHANGED <<world, newest, today, head, midnights>>
  BY <1>1 DEF Remove, Rename, AtPlace, Right, SilentSoFar, Upkeeps
<1>3. ASSUME NEW q, Right(q), Becomes(s, q), DiskIsRecent' PROVE UpkeepInv'
  BY <1>2, <1>3, RightStep
<1>4. Right(over)
  <2>1. /\ over \in Upkeeps /\ over.at = r.then /\ over.info = r.info
        /\ over.began = r.began /\ over.put = "none"
    BY <1>1, <1>2 DEF Upkeeps, Noticing
  <2> HIDE DEF over
  <2> QED
    BY <1>1, <1>2, <2>1 DEF Right, CleanSoFar, SilentSoFar, RecentSoFar, Noticing
<1>5. UNCHANGED disk => DiskIsRecent'
  BY <1>1, <1>2 DEF DiskIsRecent
<1>6. CASE Remove(s)
  <2>1. CASE disk' = [disk EXCEPT ![r.put] = NoFile]
                /\ Becomes(s, [r EXCEPT !.at = "rename"])
    <3> DEFINE q == [r EXCEPT !.at = "rename"]
    <3>1. /\ q \in Upkeeps /\ q.at = "rename" /\ q.info = r.info /\ q.began = r.began
          /\ q.put = r.put /\ q.then = r.then
      BY <1>1 DEF Upkeeps, Noticing
    <3> HIDE DEF q
    <3>2. Right(q)
      BY <1>1, <1>2, <3>1 DEF Right, CleanSoFar, SilentSoFar, RecentSoFar, Noticing
    <3>3. NoFile \in DiskFiles /\ ~NoFile.there
      BY DEF NoFile, DiskFiles
    <3>4. DiskIsRecent'
      BY <1>1, <1>2, <2>1, <3>3 DEF DiskIsRecent, UpkeepFiles
    <3> QED
      BY <1>3, <2>1, <3>2, <3>4 DEF q
  <2>2. CASE UNCHANGED disk /\ Becomes(s, over)
    BY <1>3, <1>4, <1>5, <2>2
  <2> QED
    BY <1>6, <2>1, <2>2 DEF Remove
<1>7. CASE Rename(s)
  <2> DEFINE new == [age |-> 0, there |-> TRUE, is |-> r.info.activity]
  <2>1. /\ \/ UNCHANGED disk
           \/ disk' = [disk EXCEPT ![r.put] = new]
        /\ Becomes(s, over)
    BY <1>1, <1>7 DEF Rename
  <2>2. CASE UNCHANGED disk
    BY <1>3, <1>4, <1>5, <2>1, <2>2
  <2>3. CASE disk' = [disk EXCEPT ![r.put] = new]
    <3>1. /\ new \in DiskFiles /\ new.is = r.info.activity
          /\ new.is \in Int
      BY <1>1 DEF Infos, DiskFiles
    <3>2. /\ r.put \in {"main", "master"} => new.is >= midnights[1]
          /\ midnights[1] \in Int /\ midnights[2] \in Int /\ midnights[2] <= midnights[1]
      BY <1>1, <1>2, <3>1 DEF Right, RecentSoFar, WorldTypeOK
    <3> HIDE DEF new
    <3>4. /\ disk \in [UpkeepFiles -> DiskFiles]
          /\ \A f \in UpkeepFiles : disk'[f] = IF f = r.put THEN new ELSE disk[f]
          /\ disk' \in [UpkeepFiles -> DiskFiles]
      BY <1>1, <2>3, <3>1 DEF DiskIsRecent
    <3>5. ASSUME NEW f \in {"main", "master"}, disk'[f].there
          PROVE  /\ disk'[f].age = 0 => disk'[f].is >= midnights[1]
                 /\ disk'[f].age <= 1 => disk'[f].is >= midnights[2]
      <4>1. f \in UpkeepFiles
        BY DEF UpkeepFiles
      <4>2. CASE f = r.put
        BY <3>1, <3>2, <3>4, <4>1, <4>2
      <4>3. CASE f # r.put
        BY <1>1, <3>4, <3>5, <4>1, <4>3 DEF DiskIsRecent
      <4> QED
        BY <4>2, <4>3
    <3>3. DiskIsRecent'
      BY <1>2, <3>4, <3>5 DEF DiskIsRecent
    <3> QED
      BY <1>3, <1>4, <2>1, <3>3
  <2> QED
    BY <2>1, <2>2, <2>3
<1> QED
  BY <1>6, <1>7

(* What the activity scan adds to a scan's record keeps its type.           *)
LEMMA ActivityTyped ==
  ASSUME NEW i \in Infos, NEW day \in Int, NEW via \in {"none", "proxy", "github"},
         NEW floor \in Int
  PROVE  LET n == WithActivity(i, day, via, floor)
         IN /\ n \in Infos /\ n.latest = i.latest
            /\ n.deprecated = i.deprecated /\ n.retracted = i.retracted
            /\ n.modCheckFailed = i.modCheckFailed
            /\ n.via = via /\ n.activity = day /\ n.floor = floor
BY DEF Infos, WithActivity

(* ScanActivity, the commit lookup and the end of the scan.                *)
LEMMA ActivityStep ==
  ASSUME UpkeepInv, NEW s \in UpkeepScans, Elsewhere,
         StartActivity(s) \/ FetchBranchTime(s) \/ LatestCommit(s) \/ EndUpkeep(s)
  PROVE  UpkeepInv'
<1> DEFINE r == upkeep[s]
           i == upkeep[s].info
<1>1. /\ Right(r) /\ r \in Upkeeps /\ i \in Infos /\ WorldTypeOK /\ DiskIsRecent
      /\ r.left \in Seq(Branches) /\ Info(s) = i
  BY ScanFacts
<1>2. DiskIsRecent'
  BY <1>1 DEF DiskIsRecent, Elsewhere
<1>3. ASSUME NEW q, Right(q), Becomes(s, q) PROVE UpkeepInv'
  BY <1>2, <1>3, RightStep DEF Elsewhere
<1>4. i.via = "proxy" => i.activity >= i.floor
  BY <1>1 DEF Right, RecentSoFar
<1>5. /\ head \in Nat /\ midnights[1] \in Nat /\ midnights[2] \in Nat
      /\ midnights[2] <= midnights[1] /\ midnights[1] <= head
  BY <1>1 DEF WorldTypeOK
\* Where a scan goes with the notices it has.
<1>6. ASSUME NEW place \in {"done", "fall back", "unasked", "branch"},
             NEW n \in Infos, NEW left \in Seq(Branches),
             r.at \in Noticing,
             n.latest = i.latest, n.deprecated = i.deprecated, n.retracted = i.retracted,
             n.modCheckFailed = i.modCheckFailed,
             n.via = "proxy" => n.activity >= n.floor,
             place = "branch" => LeftToAsk(left, n.unlisted),
             place = "unasked" => ~UsableBranchQuery(world.default),
             place = "done" /\ n.via = "none" /\ ~n.counted =>
               NoActivityReason \/ n.unlisted
      PROVE  Right([r EXCEPT !.at = place, !.info = n, !.left = left])
  <2> DEFINE q == [r EXCEPT !.at = place, !.info = n, !.left = left]
  <2>1. /\ q \in Upkeeps /\ q.at = place /\ q.info = n /\ q.began = r.began
        /\ q.left = left
    BY <1>1 DEF Upkeeps, Noticing
  <2> HIDE DEF q
  <2>2. Right(q)
    BY <1>1, <1>6, <2>1 DEF Right, CleanSoFar, SilentSoFar, RecentSoFar, Noticing
  <2> QED
    BY <2>2 DEF q
<1>7. /\ [r EXCEPT !.info = i] = r
      /\ \A place : [r EXCEPT !.at = place, !.info = i, !.left = r.left] = [r EXCEPT !.at = place]
  BY <1>1 DEF Upkeeps
<1> USE DEF AtPlace
<1>8. CASE StartActivity(s)
  <2>1. PICK known \in BOOLEAN :
          IF known /\ world.archived THEN Goes(s, "done", i)
          ELSE LET left == CandidateBranches(known)
               IN Becomes(s, [r EXCEPT !.at = IF left = <<>> THEN "unasked" ELSE "branch",
                                       !.left = left])
    BY <1>1, <1>8 DEF StartActivity
  <2>2. r.at \in Noticing
    BY <1>8 DEF StartActivity, Noticing
  <2>3. CASE world.archived /\ Goes(s, "done", i)
    <3>1. Right([r EXCEPT !.at = "done", !.info = i, !.left = r.left])
      BY <1>1, <1>4, <1>6, <2>2, <2>3 DEF NoActivityReason
    <3>2. Right([r EXCEPT !.at = "done", !.info = i])
      BY <1>7, <3>1
    <3> QED
      BY <1>3, <2>3, <3>2 DEF Goes
  <2>4. CASE ~(known /\ world.archived)
    <3> DEFINE left == CandidateBranches(known)
               place == IF left = <<>> THEN "unasked" ELSE "branch"
    <3>1. /\ left \in Seq(Branches)
          /\ left # <<>> => LeftToAsk(left, i.unlisted)
          /\ left = <<>> => ~UsableBranchQuery(world.default)
      <4>1. CASE ~known
        <5>1. left = <<"main", "master">>
          BY <4>1 DEF CandidateBranches, FallbackBranches
        <5> QED
          BY <5>1 DEF LeftToAsk, Branches
      <4>2. CASE known /\ UsableBranchQuery(world.default)
        <5>1. left = <<world.default>> /\ world.default \in Branches
          BY <1>1, <4>2 DEF CandidateBranches, WorldTypeOK
        <5>2. \A b \in Branches : <<b>> \in Seq(Branches) /\ <<b>> # <<>>
          OBVIOUS
        <5> HIDE DEF left
        <5> QED
          BY <4>2, <5>1, <5>2 DEF LeftToAsk
      <4>3. CASE known /\ ~UsableBranchQuery(world.default)
        BY <4>3 DEF CandidateBranches
      <4> QED
        BY <4>1, <4>2, <4>3
    <3> HIDE DEF left
    <3>2. Right([r EXCEPT !.at = place, !.info = i, !.left = left])
      BY <1>1, <1>4, <1>6, <2>2, <3>1
    <3>3. [r EXCEPT !.at = place, !.info = i, !.left = left]
            = [r EXCEPT !.at = place, !.left = left]
      BY <1>1 DEF Upkeeps
    <3>4. Becomes(s, [r EXCEPT !.at = place, !.left = left])
      BY <2>1, <2>4 DEF left
    <3> QED
      BY <1>3, <3>2, <3>3, <3>4
  <2> QED
    BY <2>1, <2>3, <2>4
<1>9. CASE FetchBranchTime(s)
  <2> DEFINE branch == Head(r.left)
             Found(day) == WithActivity(i, day, "proxy", midnights[2])
  <2>1. r.at \in Noticing /\ r.at = "branch"
    BY <1>9 DEF FetchBranchTime, Noticing
  <2>2. LeftToAsk(r.left, i.unlisted)
    BY <1>1, <2>1 DEF Right, SilentSoFar
  <2>3. branch \in {"main", "master"}
    BY <1>1, <2>2 DEF LeftToAsk, WorldTypeOK, Branches, UsableBranchQuery
  <2>4. ASSUME NEW day \in Int, day >= midnights[2]
        PROVE  /\ Found(day) \in Infos /\ Found(day).latest = i.latest
               /\ Found(day).deprecated = i.deprecated
               /\ Found(day).retracted = i.retracted
               /\ Found(day).modCheckFailed = i.modCheckFailed
               /\ Found(day).via = "proxy" /\ Found(day).activity = day
               /\ Found(day).floor = midnights[2]
    <3> DEFINE floor == midnights[2]
               n == [i EXCEPT !.activity = day, !.via = "proxy", !.floor = floor]
    <3>1. i \in Infos /\ floor \in Int
      BY <1>1, <1>5
    <3>2. Found(day) = n
      BY DEF WithActivity
    <3> HIDE DEF i, floor, Found
    <3>3. /\ n \in Infos /\ n.latest = i.latest
          /\ n.deprecated = i.deprecated /\ n.retracted = i.retracted
          /\ n.modCheckFailed = i.modCheckFailed
          /\ n.via = "proxy" /\ n.activity = day /\ n.floor = floor
      BY <3>1 DEF Infos
    <3> HIDE DEF n
    <3> QED
      BY <3>2, <3>3 DEF floor
  <2>5. \/ FreshFile(disk[branch]) /\ Goes(s, "done", Found(disk[branch].is))
        \/ branch \in world.holds /\ Keeps(s, branch, "done", Found(head))
        \/ \E answer \in BranchAnswers(branch) :
             IsDefinitiveNotFound(answer) /\ NextBranch(s, answer)
        \/ Goes(s, "fall back", i)
    BY <1>1, <1>9 DEF FetchBranchTime, BranchAnswers
  <2> HIDE DEF Found, branch
  <2>6. CASE FreshFile(disk[branch]) /\ Goes(s, "done", Found(disk[branch].is))
    <3>1. disk[branch].is \in Int /\ disk[branch].is >= midnights[2]
      <4>1. disk[branch] \in DiskFiles
        BY <1>1, <2>3 DEF DiskIsRecent, UpkeepFiles
      <4> QED
        BY <1>1, <2>3, <2>6, <4>1 DEF DiskIsRecent, FreshFile, maintainerCacheTTL, DiskFiles
    <3> DEFINE n == Found(disk[branch].is)
    <3>2. /\ n \in Infos /\ n.latest = i.latest /\ n.deprecated = i.deprecated
          /\ n.retracted = i.retracted /\ n.modCheckFailed = i.modCheckFailed
          /\ n.via = "proxy" /\ n.activity >= n.floor
      BY <2>4, <3>1
    <3> HIDE DEF n
    <3>3. Right([r EXCEPT !.at = "done", !.info = n, !.left = r.left])
      BY <1>1, <1>6, <2>1, <3>2
    <3>4. [r EXCEPT !.at = "done", !.info = n, !.left = r.left]
            = [r EXCEPT !.at = "done", !.info = n]
      BY <1>1 DEF Upkeeps
    <3> QED
      BY <1>3, <2>6, <3>3, <3>4 DEF Goes, n
  <2>7. CASE Keeps(s, branch, "done", Found(head))
    <3> DEFINE n == Found(head)
               q == [r EXCEPT !.at = "remove", !.put = branch, !.then = "done", !.info = n]
    <3>1. head \in Int /\ head >= midnights[2] /\ head >= midnights[1]
      BY <1>5
    <3>2. /\ n \in Infos /\ n.latest = i.latest /\ n.deprecated = i.deprecated
          /\ n.retracted = i.retracted /\ n.modCheckFailed = i.modCheckFailed
          /\ n.via = "proxy" /\ n.activity >= n.floor /\ n.activity >= midnights[1]
      BY <2>4, <3>1
    <3> HIDE DEF n
    <3>3. /\ q \in Upkeeps /\ q.at = "remove" /\ q.began = r.began /\ q.info = n
          /\ q.put = branch /\ q.then = "done"
      BY <1>1, <2>3, <3>2 DEF Upkeeps, UpkeepFiles, Noticing
    <3>4. Becomes(s, q)
      BY <2>7 DEF Keeps, n
    <3> HIDE DEF q
    <3>5. Right(q)
      BY <1>1, <2>1, <3>2, <3>3
      DEF Right, CleanSoFar, SilentSoFar, RecentSoFar, Noticing
    <3> QED
      BY <1>3, <3>4, <3>5
  <2>8. ASSUME NEW answer \in BranchAnswers(branch),
               IsDefinitiveNotFound(answer), NextBranch(s, answer)
        PROVE  UpkeepInv'
    <3> DEFINE left == Tail(r.left)
               place == IF Len(r.left) = 1 THEN "done" ELSE "branch"
               n == [i EXCEPT !.unlisted = @ \/ answer = "not listed"]
    <3>1. /\ n \in Infos /\ n.unlisted = (i.unlisted \/ answer = "not listed")
          /\ n.latest = i.latest /\ n.deprecated = i.deprecated
          /\ n.retracted = i.retracted /\ n.modCheckFailed = i.modCheckFailed
          /\ n.via = i.via /\ n.activity = i.activity /\ n.floor = i.floor
      BY <1>1 DEF Infos
    <3>2. left \in Seq(Branches)
      <4>1. r.left \in Seq(Branches)
        BY <1>1 DEF Upkeeps
      <4>2. \A a, b : <<a, b>> # <<>> /\ <<a>> # <<>>
        OBVIOUS
      <4>3. r.left # <<>>
        BY <2>2, <4>2, Zenon DEF LeftToAsk
      <4>4. \A q \in Seq(Branches) : q # <<>> => Tail(q) \in Seq(Branches)
        OBVIOUS
      <4> QED
        BY <4>1, <4>3, <4>4, Zenon
    <3>3. /\ place = "branch" => LeftToAsk(left, n.unlisted)
          /\ place = "done" => NoActivityReason \/ n.unlisted
      <4>1. Head(r.left) \notin world.holds \/ n.unlisted
        BY <2>8, <3>1 DEF IsDefinitiveNotFound, BranchAnswers, branch
      <4>2. CASE r.left = <<"main", "master">>
        <5>1. Head(r.left) = "main" /\ left = <<"master">> /\ place = "branch"
          BY <4>2
        <5> QED
          BY <4>1, <5>1 DEF LeftToAsk
      <4>3. CASE r.left = <<"master">> /\ ("main" \notin world.holds \/ i.unlisted)
        <5>1. Head(r.left) = "master" /\ place = "done"
          BY <4>3
        <5>2. i.unlisted => n.unlisted
          BY <3>1
        <5> HIDE DEF n, left, place
        <5> QED
          BY <4>1, <4>3, <5>1, <5>2 DEF NoActivityReason
      <4>4. CASE r.left = <<world.default>> /\ UsableBranchQuery(world.default)
        <5>1. Head(r.left) = world.default /\ place = "done"
          BY <4>4
        <5> HIDE DEF n, left, place
        <5> QED
          BY <4>1, <4>4, <5>1 DEF NoActivityReason
      <4> QED
        BY <2>2, <4>2, <4>3, <4>4 DEF LeftToAsk
    <3>4. Becomes(s, [r EXCEPT !.at = place, !.info = n, !.left = left])
      <4>1. [r EXCEPT !.at = place, !.info = n, !.left = left]
              = [r EXCEPT !.left = left, !.at = place,
                          !.info.unlisted = @ \/ answer = "not listed"]
        BY <1>1 DEF Upkeeps, Infos
      <4> QED
        BY <2>8, <4>1 DEF NextBranch
    <3> HIDE DEF left, n
    <3>5. Right([r EXCEPT !.at = place, !.info = n, !.left = left])
      BY <1>1, <1>4, <1>6, <2>1, <3>2, <3>3, <3>1
    <3> QED
      BY <1>3, <3>4, <3>5
  <2>9. CASE Goes(s, "fall back", i)
    <3>1. Right([r EXCEPT !.at = "fall back", !.info = i, !.left = r.left])
      BY <1>1, <1>4, <1>6, <2>1
    <3>2. Right([r EXCEPT !.at = "fall back", !.info = i])
      BY <1>7, <3>1
    <3> QED
      BY <1>3, <2>9, <3>2 DEF Goes
  <2> QED
    BY <2>5, <2>6, <2>7, <2>8, <2>9
<1>10. CASE LatestCommit(s)
  <2>1. /\ r.at \in Noticing
        /\ r.at = "fall back" \/ (r.at = "unasked" /\ ~UsableBranchQuery(world.default))
    BY <1>1, <1>10 DEF LatestCommit, Noticing, Right, SilentSoFar
  <2>2. ASSUME NEW n \in Infos, Goes(s, "done", n),
               n.latest = i.latest, n.deprecated = i.deprecated,
               n.retracted = i.retracted, n.modCheckFailed = i.modCheckFailed,
               n.via = "proxy" => n.activity >= n.floor,
               n.via = "none" /\ ~n.counted => NoActivityReason
        PROVE  UpkeepInv'
    <3>1. Right([r EXCEPT !.at = "done", !.info = n, !.left = r.left])
      BY <1>1, <1>6, <2>1, <2>2
    <3>2. [r EXCEPT !.at = "done", !.info = n, !.left = r.left]
            = [r EXCEPT !.at = "done", !.info = n]
      BY <1>1 DEF Upkeeps
    <3> QED
      BY <1>3, <2>2, <3>1, <3>2 DEF Goes
  <2> DEFINE committed == WithActivity(i, head, "github", -1)
             told(counted) == [i EXCEPT !.counted = counted]
  <2>3. \/ Goes(s, "done", committed)
        \/ Goes(s, "done", told(TRUE))
        \/ ~world.token /\ Goes(s, "done", told(r.at = "fall back"))
    BY <1>1, <1>10 DEF LatestCommit
  <2>4. CASE Goes(s, "done", committed)
    <3>1. /\ committed \in Infos /\ committed.via = "github"
          /\ committed.latest = i.latest
          /\ committed.deprecated = i.deprecated /\ committed.retracted = i.retracted
          /\ committed.modCheckFailed = i.modCheckFailed
      <4>1. /\ i \in Infos /\ head \in Int /\ -1 \in Int
            /\ "github" \in {"none", "proxy", "github"}
        BY <1>1, <1>5
      <4> HIDE DEF i
      <4> QED
        BY <4>1, ActivityTyped
    <3> HIDE DEF committed
    <3> QED
      BY <2>2, <2>4, <3>1
  <2>5. ASSUME NEW counted \in BOOLEAN, Goes(s, "done", told(counted)),
               ~counted => NoActivityReason
        PROVE  UpkeepInv'
    <3> DEFINE n == told(counted)
    <3>1. /\ n \in Infos /\ n.latest = i.latest
          /\ n.deprecated = i.deprecated /\ n.retracted = i.retracted
          /\ n.modCheckFailed = i.modCheckFailed
          /\ n.via = i.via /\ n.activity = i.activity /\ n.floor = i.floor
          /\ n.counted = counted
      BY <1>1 DEF Infos
    <3>2. Goes(s, "done", n)
      BY <2>5
    <3> HIDE DEF n
    <3> QED
      BY <1>4, <2>2, <2>5, <3>1, <3>2
  <2>6. CASE Goes(s, "done", told(TRUE))
    BY <2>5, <2>6
  <2>7. CASE ~world.token /\ Goes(s, "done", told(r.at = "fall back"))
    <3>1. r.at # "fall back" => NoActivityReason
      BY <2>1, <2>7 DEF NoActivityReason
    <3> QED
      BY <2>5, <2>7, <3>1
  <2> QED
    BY <2>3, <2>4, <2>6, <2>7
<1>11. CASE EndUpkeep(s)
  BY <1>1, <1>3, <1>11, NotScanningIsRight DEF EndUpkeep
<1> QED
  BY <1>8, <1>9, <1>10, <1>11

(* The world goes on.                                                      *)
LEMMA WorldStep == ASSUME UpkeepInv, Tag \/ Commit PROVE UpkeepInv'
<1>1. WorldTypeOK'
  BY DEF UpkeepInv, WorldTypeOK, Tag, Commit
<1>2. DiskIsRecent'
  BY DEF UpkeepInv, DiskIsRecent, Tag, Commit
<1>3. newest <= newest'
  BY DEF UpkeepInv, WorldTypeOK, Tag, Commit
<1>4. ASSUME NEW s \in UpkeepScans PROVE Right(upkeep[s])'
  <2>1. Right(upkeep[s]) /\ upkeep[s].began \in 0..2
    BY ScanFacts
  <2>2. upkeep[s].began <= newest'
    BY <1>1, <1>3, <2>1 DEF UpkeepInv, WorldTypeOK, Right
  <2>3. UNCHANGED <<world, midnights, upkeep>>
    BY DEF Tag, Commit
  <2> QED
    BY <2>1, <2>2, <2>3
    DEF Right, CleanSoFar, SilentSoFar, RecentSoFar, NoticeOf, LeftToAsk, NoActivityReason
<1> QED
  BY <1>1, <1>2, <1>4 DEF UpkeepInv, Tag, Commit

(* A file that a midnight leaves fresh was written yesterday at the latest. *)
LEMMA MidnightStep == ASSUME UpkeepInv, Midnight PROVE UpkeepInv'
<1>1. /\ midnights \in Nat \X Nat /\ head \in Nat /\ today \in Nat
      /\ midnights' = <<head, midnights[1]>> /\ head' = head /\ today' = today + 1
      /\ midnights[1] <= head /\ head <= today
  BY DEF UpkeepInv, WorldTypeOK, Midnight
<1>2. midnights'[1] = head /\ midnights'[2] = midnights[1] /\ midnights[1] \in Nat
  BY <1>1
<1>3. WorldTypeOK'
  BY <1>1, <1>2 DEF UpkeepInv, WorldTypeOK, Midnight
<1>4. DiskIsRecent'
  <2>1. /\ disk \in [UpkeepFiles -> DiskFiles]
        /\ disk' = [f \in UpkeepFiles |-> AgedFile(disk[f])]
    BY DEF UpkeepInv, DiskIsRecent, Midnight
  <2>2. ASSUME NEW f \in UpkeepFiles
        PROVE  /\ disk'[f] \in DiskFiles /\ disk'[f].is = disk[f].is
               /\ disk'[f].there = disk[f].there
               /\ disk'[f].age = IF disk[f].there /\ disk[f].age <= 1
                                   THEN disk[f].age + 1 ELSE disk[f].age
    <3>1. disk[f] \in DiskFiles /\ disk'[f] = AgedFile(disk[f])
      BY <2>1
    <3> QED
      BY <3>1 DEF AgedFile, DiskFiles, maintainerCacheTTL
  <2>3. ASSUME NEW f \in {"main", "master"}, disk'[f].there
        PROVE  /\ disk'[f].age = 0 => disk'[f].is >= midnights'[1]
               /\ disk'[f].age <= 1 => disk'[f].is >= midnights'[2]
    <3>1. f \in UpkeepFiles
      BY DEF UpkeepFiles
    <3>2. disk[f].age \in Nat /\ disk[f].is \in Int
      BY <2>1, <3>1 DEF DiskFiles
    <3>3. disk[f].age = 0 => disk[f].is >= midnights[1]
      BY <2>2, <2>3, <3>1 DEF UpkeepInv, DiskIsRecent
    <3> QED
      BY <1>2, <2>2, <2>3, <3>1, <3>2, <3>3
  <2>4. disk' \in [UpkeepFiles -> DiskFiles]
    BY <2>1, <2>2
  <2> QED
    BY <2>3, <2>4 DEF DiskIsRecent
<1>5. ASSUME NEW s \in UpkeepScans PROVE Right(upkeep[s])'
  <2>1. /\ Right(upkeep[s]) /\ upkeep[s].at \notin {"remove", "rename"}
        /\ UNCHANGED <<world, newest, upkeep>>
    BY ScanFacts DEF Midnight, AtPlace
  <2> QED
    BY <2>1
    DEF Right, CleanSoFar, SilentSoFar, RecentSoFar, NoticeOf, LeftToAsk, NoActivityReason
<1> QED
  BY <1>3, <1>4, <1>5 DEF UpkeepInv, Midnight

(* What a scan knows so far, and what the disk holds, is right.            *)
LEMMA UpkeepInvariant == UpkeepSpec => []UpkeepInv
<1>1. UpkeepInit => UpkeepInv
  BY InitUpkeep
<1>2. UpkeepInv /\ [UpkeepNext]_upkeepVars => UpkeepInv'
  <2> SUFFICES ASSUME UpkeepInv, [UpkeepNext]_upkeepVars PROVE UpkeepInv'
    OBVIOUS
  <2>1. CASE UNCHANGED upkeepVars
    BY <2>1
    DEF upkeepVars, UpkeepInv, WorldTypeOK, DiskIsRecent, Right, CleanSoFar, SilentSoFar,
        RecentSoFar, NoticeOf, LeftToAsk, NoActivityReason
  <2>2. ASSUME NEW s \in UpkeepScans, UpkeepStep(s) PROVE UpkeepInv'
    <3>1. CASE Elsewhere /\ (\/ BeginUpkeep(s) \/ FetchVersionInfo(s)
                            \/ FetchLatestInfo(s) \/ CheckGoModDeprecation(s))
      BY <3>1, NoticesStep
    <3>2. CASE Elsewhere /\ (\/ StartActivity(s) \/ FetchBranchTime(s)
                            \/ LatestCommit(s) \/ EndUpkeep(s))
      BY <3>2, ActivityStep
    <3>3. CASE Remove(s) \/ Rename(s)
      BY <3>3, PutStep
    <3> QED
      BY <2>2, <3>1, <3>2, <3>3 DEF UpkeepStep
  <2>3. CASE Tag \/ Commit
    BY <2>3, WorldStep
  <2>4. CASE Midnight
    BY <2>4, MidnightStep
  <2> QED
    BY <2>1, <2>2, <2>3, <2>4 DEF UpkeepNext
<1> QED
  BY <1>1, <1>2, PTL DEF UpkeepSpec

(* "Not checked" is never read as "not deprecated": a scan that shows no   *)
(* notice and no failed check has read the go.mod of a version as new as   *)
(* the newest when it began, if @latest never answers a fetch the proxy    *)
(* gave up on with a 404 (with such a timeout a run of the model violates  *)
(* it).                                                                    *)
THEOREM CleanIsRead == "latest" \notin FailedFetches => (UpkeepSpec => []CleanMeansRead)
<1> SUFFICES ASSUME "latest" \notin FailedFetches PROVE UpkeepSpec => []CleanMeansRead
  OBVIOUS
<1>1. UpkeepInv => CleanMeansRead
  <2> SUFFICES ASSUME UpkeepInv, NEW s \in UpkeepScans, AtPlace(s, "done")
      PROVE  LET i == Info(s)
             IN ~i.deprecated /\ ~i.retracted /\ ~i.modCheckFailed
                => /\ i.latest >= upkeep[s].began /\ i.latest # 0
                   /\ NoticeOf(i.latest) = "none"
    BY DEF CleanMeansRead
  <2> QED
    BY ScanFacts DEF AtPlace, Right, CleanSoFar, Noticing
<1> QED
  BY <1>1, UpkeepInvariant, PTL

(* Unknown activity that is not counted as a failed lookup has a reason in *)
(* the repository, or the proxy could not list the repository when it was  *)
(* asked for a branch, which isDefinitiveNotFound takes for the same.      *)
THEOREM SilenceIsNone == UpkeepSpec => []SilentMeansNone
<1>1. UpkeepInv => SilentMeansNone
  BY ScanFacts DEF SilentMeansNone, AtPlace, Right, SilentSoFar, NoActivityReason
<1> QED
  BY <1>1, UpkeepInvariant, PTL

(* The activity told from the proxy, or from the answer of another scan on *)
(* the disk, was that of the branch's head since the midnight before last. *)
THEOREM ActivityTold == UpkeepSpec => []ActivityIsRecent
<1>1. UpkeepInv => ActivityIsRecent
  BY ScanFacts DEF ActivityIsRecent, Right, RecentSoFar
<1> QED
  BY <1>1, UpkeepInvariant, PTL

-----------------------------------------------------------------------------
(* The severity of an advisory.                                            *)

Tiered == Tiers \cup {NoTier}
Kinds == {"scored", "unscored", "rate limited", "failed", ""}
Results == [kind : Kinds, tier : Tiered]
AliasSteps == {"ask alias", "save alias", "write alias"}
Lookups == [at : {"idle", "OSV", "alias", "NVD", "GitHub", "conclude", "save", "write", "done"}
                   \cup AliasSteps,
            age : 0..MaxLookup, alias : Nat, all : BOOLEAN, limited : BOOLEAN, hold : Results]
CacheEntries == [age : Nat, whole : {TRUE}, is : Results]
Failure(result) == \E limited \in BOOLEAN : result = Failed(limited)

(* What a kept answer of the advisory rests on is as old as it is, or that *)
(* and the time of its lookup.                                             *)
AdvisoryFileTrue(file) ==
  /\ file \in CacheEntries \/ file = Missing \/ file = Torn
  /\ file.whole /\ file.age <= FailTTL =>
       /\ file.is = Unscored => NoScore(file.age + MaxLookup)
       /\ Failure(file.is) => FailedWithin(file.age + MaxLookup)

AliasFileTrue(a, file) ==
  /\ file \in CacheEntries \/ file = Missing \/ file = Torn
  /\ file.whole => file.is.kind = "scored"
  /\ file.whole /\ file.age <= CacheTTL /\ file.is.tier = NoTier =>
       Recent(a, file.age + MaxLookup)

(* What a lookup has learnt by now: the sources that it has passed had no  *)
(* severity, unless one of them failed.                                    *)
Passed(r) ==
  (CASE r.at \in AliasSteps \cup {"alias"} ->
            {"OSV"} \cup {Candidates[i] : i \in 1..(r.alias - 1) \cap DOMAIN Candidates}
     [] r.at = "NVD" -> {"OSV"} \cup Asked
     [] r.at = "GitHub" -> {"OSV", "NVD"} \cup Asked
     [] r.at = "conclude" -> Sources
     [] OTHER -> {}) \cap Sources

LookupTrue(r) ==
  /\ r \in Lookups
  /\ r.at = "alias" => r.alias # 0
  /\ r.at \in AliasSteps => r.alias \in DOMAIN Candidates
  /\ r.at = "OSV" => r.alias = 0
  /\ r.at \in {"NVD", "GitHub"} => CVEs # <<>>
  /\ r.at \in {"save alias", "write alias"} =>
       /\ r.hold.kind = "scored"
       /\ r.hold.tier = NoTier => Recent(Candidates[r.alias], r.age)
  /\ r.at \notin {"idle", "done"} =>
       /\ r.limited => ~r.all
       /\ ~r.all => FailedWithin(r.age)
       /\ r.all => \A s \in Passed(r) : Recent(s, r.age + Wait(s))
  /\ r.at \in {"save", "write"} =>
       /\ r.hold = Unscored => NoScore(r.age)
       /\ Failure(r.hold) => FailedWithin(r.age)

SeverityInv ==
  /\ published \in [Sources -> [tier : Tiered, age : Nat]]
  /\ outage \in Nat
  /\ AdvisoryFileTrue(advisoryFile)
  /\ DOMAIN aliasFile = Asked /\ aliasFile = [a \in Asked |-> aliasFile[a]]
  /\ \A a \in Asked : AliasFileTrue(a, aliasFile[a])
  /\ scan = [p \in Scans |-> scan[p]]
  /\ \A p \in Scans : LookupTrue(scan[p])

(* The aliases that are looked up are a sequence of names.                  *)
LEMMA CandidatesAreStrings ==
  /\ Candidates \in Seq(STRING) /\ Len(Candidates) \in Nat
  /\ DOMAIN Candidates = 1..Len(Candidates)
<1>1. \A s \in Seq(STRING), n \in Nat : UpTo(s, n) \in Seq(STRING)
  BY DEF UpTo
<1>2. MaxAliasLookups \in Nat /\ MaxAliasLookups - 1 \in Nat
  BY SeverityAssumption
<1>3. GHSAs \in Seq(STRING) /\ CVEs \in Seq(STRING)
  BY SeverityAssumption
<1> DEFINE first == IF CVEs # <<>> THEN UpTo(GHSAs, MaxAliasLookups - 1) ELSE GHSAs
<1>4. first \in Seq(STRING)
  BY <1>1, <1>2, <1>3
<1> HIDE DEF first
<1>5. first \o CVEs \in Seq(STRING)
  BY <1>3, <1>4
<1>6. Candidates = UpTo(first \o CVEs, MaxAliasLookups)
  BY DEF Candidates, first
<1>7. Candidates \in Seq(STRING)
  BY <1>1, <1>2, <1>5, <1>6
<1> QED
  BY <1>7

(* One slot of the alias lookups is kept for a CVE: the record of the first *)
(* one is asked for however many GHSA aliases come before it               *)
(* (aliasCandidates).                                                      *)
THEOREM CVEIsLookedUp == CVEs # <<>> => CVEs[1] \in Asked
<1> SUFFICES ASSUME CVEs # <<>> PROVE CVEs[1] \in Asked
  OBVIOUS
<1> DEFINE first == UpTo(GHSAs, MaxAliasLookups - 1)
           all == first \o CVEs
<1>1. /\ GHSAs \in Seq(STRING) /\ CVEs \in Seq(STRING)
      /\ MaxAliasLookups \in Nat \ {0} /\ Len(CVEs) > 0
  BY SeverityAssumption
<1>2. first \in Seq(STRING) /\ Len(first) <= MaxAliasLookups - 1
  BY <1>1 DEF UpTo
<1> HIDE DEF first
<1>3. /\ all \in Seq(STRING) /\ Len(all) = Len(first) + Len(CVEs)
      /\ all[Len(first) + 1] = CVEs[1]
  BY <1>1, <1>2
<1>4. Candidates = UpTo(all, MaxAliasLookups)
  BY DEF Candidates, first
<1> HIDE DEF all
<1>5. /\ Len(first) + 1 \in DOMAIN UpTo(all, MaxAliasLookups)
      /\ UpTo(all, MaxAliasLookups)[Len(first) + 1] = all[Len(first) + 1]
  BY <1>1, <1>2, <1>3 DEF UpTo
<1> QED
  BY <1>3, <1>4, <1>5 DEF Asked

(* The times to live are numbers, in the order that the code gives them.    *)
LEMMA LookupTimes ==
  /\ CacheTTL \in Nat /\ MaxLookup \in Nat /\ Old \in Nat /\ FailTTL \in Nat
  /\ RateLimitTTL \in Nat /\ RateLimitTTL <= FailTTL /\ FailTTL <= CacheTTL
  /\ FailTTL + MaxLookup < Old /\ 0 # Old /\ 0 \in 0..MaxLookup
BY CacheAssumption, SeverityAssumption

(* A severity, no severity and a failure are told apart.                    *)
LEMMA ResultsDiffer ==
  /\ Unscored \in Results /\ Nothing \in Results
  /\ ~Failure(Unscored) /\ ~Failure(Nothing) /\ Nothing # Unscored
  /\ \A limited \in BOOLEAN : Failed(limited) \in Results /\ Failed(limited) # Unscored
  /\ \A tier \in Tiered : Scored(tier) \in Results
  /\ \A result \in Results : result.kind = "scored" => result # Unscored /\ ~Failure(result)
<1>1. /\ Unscored \in Results /\ Nothing \in Results
      /\ Unscored.kind = "unscored" /\ Nothing.kind = ""
  BY DEF Unscored, Nothing, Results, Kinds, Tiered
<1>2. \A limited \in BOOLEAN : /\ Failed(limited) \in Results
                                /\ Failed(limited).kind \in {"rate limited", "failed"}
  BY DEF Failed, Results, Kinds, Tiered
<1>3. \A tier \in Tiered : Scored(tier) \in Results
  BY DEF Scored, Results, Kinds
<1>4. \A result : Failure(result) => result.kind \in {"rate limited", "failed"}
  BY <1>2 DEF Failure
<1> QED
  BY <1>1, <1>2, <1>3, <1>4

(* A scan between two lookups has its type.                                 *)
LEMMA IdleTyped ==
  /\ Idle \in Lookups /\ Idle.at = "idle" /\ Idle.age = 0 /\ Idle.alias = 0
  /\ Idle.all /\ ~Idle.limited
BY LookupTimes, ResultsDiffer DEF Idle, Lookups

(* A scan between two lookups has learnt nothing.                           *)
LEMMA IdleIsTrue == LookupTrue(Idle)
BY LookupTimes, ResultsDiffer DEF Idle, LookupTrue, Lookups, AliasSteps

(* A lookup on its way holds no result.                                    *)
LEMMA OnItsWay ==
  ASSUME NEW q \in Lookups, q.at \in {"alias", "ask alias", "NVD", "GitHub", "conclude"},
         q.at = "alias" => q.alias # 0,
         q.at = "ask alias" => q.alias \in DOMAIN Candidates,
         q.at \in {"NVD", "GitHub"} => CVEs # <<>>,
         q.limited => ~q.all,
         ~q.all => FailedWithin(q.age),
         q.all => \A s \in Passed(q) : Recent(s, q.age + Wait(s))
  PROVE  LookupTrue(q)
<1>1. /\ q.at \notin {"idle", "done", "OSV", "save", "write", "save alias", "write alias"}
      /\ q.at \in AliasSteps => q.at = "ask alias"
  BY DEF AliasSteps
<1> QED
  BY <1>1 DEF LookupTrue

(* An empty disk and idle scans satisfy the invariant.                      *)
LEMMA InitSeverity == SeverityInit => SeverityInv
<1> SUFFICES ASSUME SeverityInit PROVE SeverityInv
  OBVIOUS
<1>1. published \in [Sources -> [tier : Tiered, age : Nat]] /\ outage \in Nat
  BY LookupTimes DEF SeverityInit, Tiered
<1>2. AdvisoryFileTrue(Missing) /\ \A a : AliasFileTrue(a, Missing)
  BY DEF Missing, AdvisoryFileTrue, AliasFileTrue
<1> QED
  BY <1>1, <1>2, IdleIsTrue DEF SeverityInit, SeverityInv

(* A failure now is a failure within any time.                             *)
LEMMA StaysTrue ==
  ASSUME SeverityInv, UNCHANGED published, outage' \in {0, outage}
  PROVE  /\ \A r : LookupTrue(r) => LookupTrue(r)'
         /\ \A file : AdvisoryFileTrue(file) => AdvisoryFileTrue(file)'
         /\ \A a, file : AliasFileTrue(a, file) => AliasFileTrue(a, file)'
<1>1. \A n \in Nat : FailedWithin(n) => FailedWithin(n)'
  BY LookupTimes DEF FailedWithin
<1>2. \A a, n : Recent(a, n) <=> Recent(a, n)'
  BY DEF Recent
<1>3. \A n : NoScore(n) <=> NoScore(n)'
  BY <1>2 DEF NoScore
<1>4. ASSUME NEW r, LookupTrue(r) PROVE LookupTrue(r)'
  <2>2. r \in Lookups
    BY <1>4 DEF LookupTrue
  <2>1. r.age \in Nat
    BY <2>2, LookupTimes DEF Lookups
  <2> QED
    BY <1>1, <1>2, <1>3, <1>4, <2>1 DEF LookupTrue
<1>5. ASSUME NEW file, AdvisoryFileTrue(file) PROVE AdvisoryFileTrue(file)'
  <2>1. file.whole => file.age + MaxLookup \in Nat
    <3>1. file.whole => file \in CacheEntries
      BY <1>5 DEF AdvisoryFileTrue, Missing, Torn
    <3> QED
      BY <3>1, LookupTimes DEF CacheEntries
  <2> QED
    BY <1>1, <1>3, <1>5, <2>1 DEF AdvisoryFileTrue
<1>6. ASSUME NEW a, NEW file, AliasFileTrue(a, file) PROVE AliasFileTrue(a, file)'
  BY <1>2, <1>6 DEF AliasFileTrue
<1> QED
  BY <1>4, <1>5, <1>6

(* A step of one lookup.                                                   *)
LEMMA LookupStep ==
  ASSUME SeverityInv, NEW p \in Scans, NEW q, Go(p, q), LookupTrue(q)',
         UNCHANGED published, outage' \in {0, outage},
         AdvisoryFileTrue(advisoryFile)',
         DOMAIN aliasFile' = Asked, aliasFile' = [a \in Asked |-> aliasFile'[a]],
         \A a \in Asked : AliasFileTrue(a, aliasFile[a])'
  PROVE  SeverityInv'
<1>1. /\ published' \in [Sources -> [tier : Tiered, age : Nat]]
      /\ outage' \in Nat
  BY DEF SeverityInv
<1>2. scan' = [t \in Scans |-> scan'[t]]
        /\ \A t \in Scans : scan'[t] = IF t = p THEN q ELSE scan[t]
  BY DEF SeverityInv, Go
<1>3. \A t \in Scans : LookupTrue(scan[t])'
  <2> SUFFICES ASSUME NEW t \in Scans PROVE LookupTrue(scan[t])'
    OBVIOUS
  <2>1. CASE t = p
    BY <1>2, <2>1 DEF LookupTrue
  <2>2. CASE t # p
    <3>1. LookupTrue(scan[t]) /\ scan'[t] = scan[t]
      BY <1>2, <2>2 DEF SeverityInv
    <3> DEFINE r == scan[t]
    <3>2. \A o : o = r /\ LookupTrue(o) => LookupTrue(o)'
      BY StaysTrue
    <3> QED
      BY <3>1, <3>2 DEF LookupTrue
  <2> QED
    BY <2>1, <2>2
<1> QED
  BY <1>1, <1>2, <1>3 DEF SeverityInv

(* A step of a lookup that publishes nothing and writes nothing.            *)
LEMMA QuietStep ==
  ASSUME SeverityInv, NEW p \in Scans, NEW q, Go(p, q), LookupTrue(q)',
         UNCHANGED <<published, Files>>, outage' \in {0, outage}
  PROVE  SeverityInv'
<1>1. AdvisoryFileTrue(advisoryFile)'
  BY StaysTrue DEF SeverityInv, Files, AdvisoryFileTrue
<1>2. \A a \in Asked : AliasFileTrue(a, aliasFile[a])'
  BY StaysTrue DEF SeverityInv, Files, AliasFileTrue
<1> QED
  BY <1>1, <1>2, LookupStep DEF SeverityInv, Files

(* What is known of a lookup before its step.                               *)
LEMMA LookupFacts ==
  ASSUME SeverityInv, NEW p \in Scans
  PROVE  /\ LookupTrue(scan[p]) /\ scan[p] \in Lookups
         /\ scan[p].age \in Nat /\ scan[p].age \in 0..MaxLookup
         /\ scan[p].alias \in Nat /\ scan[p].hold \in Results
<1>1. LookupTrue(scan[p])
  BY DEF SeverityInv
<1>2. scan[p] \in Lookups
  BY <1>1 DEF LookupTrue
<1> QED
  BY <1>1, <1>2, LookupTimes DEF Lookups

(* A result to save: a severity, or what the lookup concludes.             *)
LEMMA SaveIsTrue ==
  ASSUME SeverityInv, NEW p \in Scans, NEW result \in Results,
         result = Unscored => NoScore(scan[p].age),
         Failure(result) => FailedWithin(scan[p].age)
  PROVE  LookupTrue(Save(p, result))
<1> DEFINE q == Save(p, result)
<1>1. /\ q \in Lookups /\ q.at = "save" /\ q.age = scan[p].age /\ q.hold = result
      /\ q.all /\ ~q.limited
  BY LookupFacts, LookupTimes DEF Save, Idle, Lookups
<1> HIDE DEF q
<1>2. Passed(q) = {}
  BY <1>1 DEF Passed, AliasSteps
<1>3. LookupTrue(q)
  BY <1>1, <1>2 DEF LookupTrue, AliasSteps
<1> QED
  BY <1>3 DEF q

(* A lookup that turns to the next alias has its type.                      *)
LEMMA NextAliasTyped ==
  ASSUME NEW r \in Lookups, NEW n \in Nat \ {0}
  PROVE  LET q == [r EXCEPT !.at = "alias", !.alias = n, !.hold = Nothing]
         IN /\ q \in Lookups /\ q.at = "alias" /\ q.alias = n /\ q.alias # 0
            /\ q.age = r.age
            /\ q.all = r.all /\ q.limited = r.limited
<1>1. Nothing \in Results
  BY ResultsDiffer
<1> QED
  BY <1>1 DEF Lookups

(* What a lookup knows when it goes on from a source that had no severity, *)
(* or that failed.                                                         *)
LEMMA GoOnIsTrue ==
  ASSUME SeverityInv, NEW p \in Scans,
         NEW s \in {"OSV", "NVD", "GitHub"}, At(p, s)
  PROVE  /\ GoOn(p) \in Lookups /\ GoOn(p).age = scan[p].age
         /\ GoOn(p).all = scan[p].all /\ GoOn(p).limited = scan[p].limited
         /\ s = "OSV" => GoOn(p).at = "alias" /\ GoOn(p).alias # 0
         /\ s = "NVD" => GoOn(p).at = "GitHub"
         /\ s = "GitHub" => GoOn(p).at = "conclude"
         /\ s \in Sources /\ (GoOn(p).at = "GitHub" => CVEs # <<>>)
         /\ Passed(GoOn(p)) \subseteq Passed(scan[p]) \cup {s}
<1> DEFINE r == scan[p]
           q == GoOn(p)
<1>1. /\ LookupTrue(r) /\ r \in Lookups /\ r.at = s
  BY LookupFacts DEF At
<1>2. CASE s = "OSV"
  <2>1. r.alias = 0
    BY <1>1, <1>2 DEF LookupTrue
  <2>2. q = [r EXCEPT !.at = "alias", !.alias = 1, !.hold = Nothing]
    BY <1>1, <1>2, <2>1 DEF GoOn, NextAlias, At, Lookups
  <2> HIDE DEF r, q
  <2>3. /\ q \in Lookups /\ q.at = "alias" /\ q.alias = 1 /\ q.alias # 0 /\ q.age = r.age
        /\ q.all = r.all /\ q.limited = r.limited
    <3>1. 1 \in Nat \ {0}
      OBVIOUS
    <3> QED
      BY <1>1, <2>2, <3>1, NextAliasTyped
  <2>4. Passed(q) \subseteq {"OSV"}
    BY <2>3 DEF Passed
  <2> QED
    BY <1>2, <2>3, <2>4 DEF Sources, q, r
<1>3. CASE s = "NVD"
  <2>2. q = [r EXCEPT !.at = "GitHub"]
    BY <1>1, <1>3 DEF GoOn, At
  <2>3. /\ q \in Lookups /\ q.at = "GitHub" /\ q.age = r.age
        /\ q.all = r.all /\ q.limited = r.limited
    BY <1>1, <2>2 DEF Lookups
  <2> HIDE DEF q
  <2>4. Passed(q) \subseteq Passed(r) \cup {"NVD"}
    BY <1>1, <1>3, <2>3 DEF Passed, AliasSteps
  <2>5. CVEs # <<>>
    BY <1>1, <1>3 DEF LookupTrue
  <2> QED
    BY <1>3, <2>3, <2>4, <2>5 DEF Sources, q
<1>4. CASE s = "GitHub"
  <2>2. q = [r EXCEPT !.at = "conclude"]
    BY <1>1, <1>4 DEF GoOn, At
  <2>3. /\ q \in Lookups /\ q.at = "conclude" /\ q.age = r.age
        /\ q.all = r.all /\ q.limited = r.limited
    BY <1>1, <2>2 DEF Lookups
  <2> HIDE DEF q
  <2>4. Passed(q) \subseteq Passed(r) \cup {"GitHub"}
    BY <1>1, <1>4, <2>3, CVEIsLookedUp DEF Passed, AliasSteps, Sources
  <2>5. CVEs # <<>>
    BY <1>1, <1>4 DEF LookupTrue
  <2> QED
    BY <1>4, <2>3, <2>4, <2>5 DEF Sources, q
<1> QED
  BY <1>2, <1>3, <1>4

(* OSV, NVD or GitHub answers.                                              *)
LEMMA AnswersStep ==
  ASSUME SeverityInv, NEW p \in Scans, NEW s \in {"OSV", "NVD", "GitHub"}, Answers(p, s)
  PROVE  SeverityInv'
<1> DEFINE r == scan[p]
<1>1. /\ LookupTrue(r) /\ r \in Lookups /\ r.age \in Nat /\ r.at = s
  BY LookupFacts DEF Answers, At
<1>2. UNCHANGED <<published, outage, Files>>
  BY DEF Answers, World
<1>3. ASSUME NEW q, LookupTrue(q), Go(p, q) PROVE SeverityInv'
  BY <1>2, <1>3, StaysTrue, QuietStep
<1>4. s \in Sources /\ published[s].tier \in Tiered
  BY GoOnIsTrue DEF Answers, SeverityInv
<1>5. CASE published[s].tier = NoTier
  <2> DEFINE q == GoOn(p)
  <2>1. /\ q \in Lookups /\ q.age = r.age /\ q.all = r.all /\ q.limited = r.limited
        /\ q.at \in {"alias", "GitHub", "conclude"}
        /\ q.at = "alias" => q.alias # 0
        /\ q.at = "GitHub" => CVEs # <<>>
        /\ Passed(q) \subseteq Passed(r) \cup {s}
    BY GoOnIsTrue DEF Answers
  <2> HIDE DEF q
  <2>2. \A t \in Passed(r) \cup {s} : r.all => Recent(t, r.age + Wait(t))
    BY <1>1, <1>5 DEF LookupTrue, Recent
  <2>4. q.all => \A t \in Passed(q) : Recent(t, q.age + Wait(t))
    BY <2>1, <2>2
  <2>5. /\ q.limited => ~q.all
        /\ ~q.all => FailedWithin(q.age)
    BY <1>1, <2>1 DEF LookupTrue
  <2>3. LookupTrue(q)
    <3>1. /\ q \in Lookups /\ q.at \in {"alias", "ask alias", "NVD", "GitHub", "conclude"}
          /\ q.at = "alias" => q.alias # 0
          /\ q.at # "ask alias"
          /\ q.at \in {"NVD", "GitHub"} => CVEs # <<>>
      BY <2>1
    <3> QED
      BY <2>4, <2>5, <3>1, OnItsWay
  <2> QED
    BY <1>3, <1>5, <2>3 DEF Answers, q
<1>6. CASE published[s].tier # NoTier
  <2>1. /\ Scored(published[s].tier) \in Results
        /\ Scored(published[s].tier).kind = "scored"
    BY <1>4, ResultsDiffer DEF Scored
  <2>2. LookupTrue(Save(p, Scored(published[s].tier)))
    BY <2>1, ResultsDiffer, SaveIsTrue
  <2> QED
    BY <1>3, <1>6, <2>2 DEF Answers
<1> QED
  BY <1>5, <1>6

(* OSV, NVD or GitHub does not answer.                                      *)
LEMMA FailsStep ==
  ASSUME SeverityInv, NEW p \in Scans, NEW s \in {"OSV", "NVD", "GitHub"}, Fails(p, s)
  PROVE  SeverityInv'
<1> DEFINE r == scan[p]
<1>1. /\ LookupTrue(r) /\ r \in Lookups /\ r.age \in Nat /\ r.at = s
  BY LookupFacts DEF Fails, At
<1>2. UNCHANGED <<published, Files>> /\ outage' = 0
  BY DEF Fails, World
<1>3. PICK limited \in BOOLEAN :
        Go(p, [GoOn(p) EXCEPT !.all = FALSE, !.limited = @ \/ limited])
  BY DEF Fails
<1> DEFINE g == GoOn(p)
<1>4. /\ g \in Lookups /\ g.age = r.age /\ g.at \in {"alias", "GitHub", "conclude"}
      /\ g.at = "alias" => g.alias # 0
      /\ g.at = "GitHub" => CVEs # <<>>
  BY GoOnIsTrue DEF Fails
<1> HIDE DEF g
<1>5. PICK q : q = [g EXCEPT !.all = FALSE, !.limited = @ \/ limited]
  OBVIOUS
<1>6. Go(p, q)
  BY <1>3, <1>5 DEF g
<1>7. /\ q \in Lookups /\ q.age \in Nat /\ ~q.all
      /\ q.at \in {"alias", "GitHub", "conclude"}
      /\ q.at = "alias" => q.alias # 0
      /\ q.at = "GitHub" => CVEs # <<>>
  BY <1>1, <1>4, <1>5 DEF Lookups
<1>8. FailedWithin(q.age)'
  BY <1>2, <1>7, LookupTimes DEF FailedWithin
<1>9. LookupTrue(q)'
  <2>1. /\ q.at \notin {"idle", "done", "OSV", "NVD", "save", "write", "save alias",
                        "write alias"}
        /\ q.at \notin AliasSteps
        /\ q.at = "alias" => q.alias # 0
    BY <1>7 DEF AliasSteps
  <2> QED
    BY <1>7, <1>8, <2>1 DEF LookupTrue
<1> QED
  BY <1>2, <1>6, <1>9, QuietStep

(* The records of the aliases, in their order.                             *)
LEMMA NextAliasIsTrue ==
  ASSUME SeverityInv, NEW p \in Scans,
         scan[p].at \in AliasSteps \cup {"alias"}, scan[p].alias \in DOMAIN Candidates,
         scan[p].all => Recent(NextCandidate(p), scan[p].age + Wait(NextCandidate(p)))
  PROVE  LookupTrue(NextAlias(p))
<1> DEFINE r == scan[p]
           n == r.alias + 1
           q == NextAlias(p)
<1>1. /\ LookupTrue(r) /\ r \in Lookups /\ r.age \in Nat /\ r.alias \in Nat
  BY LookupFacts
<1>2. n \in Nat \ {0} /\ n - 1 = r.alias
  BY <1>1
<1>3. q = [r EXCEPT !.at = "alias", !.alias = n, !.hold = Nothing]
  BY <1>1 DEF NextAlias, Lookups
<1> HIDE DEF n, q
<1>4. /\ q \in Lookups /\ q.at = "alias" /\ q.alias = n /\ q.alias # 0 /\ q.age = r.age
      /\ q.all = r.all /\ q.limited = r.limited
  BY <1>1, <1>2, <1>3, NextAliasTyped
<1>5. Passed(q) \subseteq Passed(r) \cup {NextCandidate(p)}
  <2>1. Passed(r) = ({"OSV"} \cup {Candidates[i] : i \in 1..(r.alias - 1) \cap DOMAIN Candidates})
                      \cap Sources
    BY DEF Passed, AliasSteps
  <2>2. Passed(q) = ({"OSV"} \cup {Candidates[i] : i \in 1..r.alias \cap DOMAIN Candidates})
                      \cap Sources
    BY <1>2, <1>4 DEF Passed
  <2>3. \A i \in 1..r.alias : i \in 1..(r.alias - 1) \/ i = r.alias
    BY <1>1
  <2> QED
    <3>1. ASSUME NEW a \in Passed(q), a # NextCandidate(p) PROVE a \in Passed(r)
      <4>1. CASE a = "OSV"
        BY <2>1, <2>2, <3>1, <4>1
      <4>2. CASE a # "OSV"
        <5>1. PICK i \in 1..r.alias \cap DOMAIN Candidates : a = Candidates[i]
          BY <2>2, <3>1, <4>2
        <5>2. i \in 1..(r.alias - 1) /\ a \in Sources
          BY <2>2, <2>3, <3>1, <5>1 DEF NextCandidate
        <5> QED
          BY <2>1, <5>1, <5>2
      <4> QED
        BY <4>1, <4>2
    <3> QED
      BY <3>1
<1>6. /\ r.at \notin {"idle", "done"}
      /\ q.limited => ~q.all
      /\ ~q.all => FailedWithin(q.age)
      /\ r.all => \A s \in Passed(r) : Recent(s, r.age + Wait(s))
  BY <1>1, <1>4 DEF LookupTrue, AliasSteps
<1>7. q.all => \A s \in Passed(q) : Recent(s, q.age + Wait(s))
  BY <1>4, <1>5, <1>6
<1>8. LookupTrue(q)
  <2>1. /\ q.at \in {"alias", "ask alias", "NVD", "GitHub", "conclude"}
        /\ q.at # "ask alias" /\ q.at \notin {"NVD", "GitHub"}
        /\ q \in Lookups /\ q.alias # 0
        /\ q.limited => ~q.all
        /\ ~q.all => FailedWithin(q.age)
    BY <1>4, <1>6
  <2> QED
    BY <1>7, <2>1, OnItsWay
<1> QED
  BY <1>8 DEF q

(* The kept record of an alias is used, or the alias is asked for.          *)
LEMMA AliasLookupStep ==
  ASSUME SeverityInv, NEW p \in Scans,
         LoadAliasCache(p) \/ AliasAnswers(p) \/ AliasFails(p)
  PROVE  SeverityInv'
<1> DEFINE r == scan[p]
           a == NextCandidate(p)
<1>1. /\ LookupTrue(r) /\ r \in Lookups /\ r.age \in Nat /\ r.alias \in Nat
  BY LookupFacts
<1>2. UNCHANGED <<published, Files>>
  BY DEF LoadAliasCache, AliasAnswers, AliasFails, World
<1>3. ASSUME NEW q, LookupTrue(q), Go(p, q), UNCHANGED outage PROVE SeverityInv'
  BY <1>2, <1>3, StaysTrue, QuietStep
<1>4. /\ r.limited => ~r.all
      /\ ~r.all => FailedWithin(r.age)
      /\ r.all => \A s \in Passed(r) : Recent(s, r.age + Wait(s))
  BY <1>1 DEF LookupTrue, LoadAliasCache, AliasAnswers, AliasFails, At
<1>5. ASSUME r.alias \in DOMAIN Candidates
      PROVE  a \in Asked /\ a \in Sources /\ Wait(a) = CacheTTL + MaxLookup
  BY <1>5 DEF NextCandidate, Asked, Sources, Wait
<1>6. CASE LoadAliasCache(p)
  <2>1. /\ r.at = "alias" /\ r.alias # 0 /\ UNCHANGED outage
    BY <1>1, <1>6 DEF LoadAliasCache, At, LookupTrue
  <2>2. CASE r.alias > Len(Candidates)
    <3> DEFINE place == IF CVEs = <<>> THEN "conclude" ELSE "NVD"
               q == [r EXCEPT !.at = place]
    <3>1. /\ q \in Lookups /\ q.at = place /\ q.age = r.age /\ q.all = r.all
          /\ q.limited = r.limited
      BY <1>1 DEF Lookups
    <3>2. Go(p, q)
      BY <1>6, <2>2 DEF LoadAliasCache
    <3> HIDE DEF q
    <3>3. Passed(q) \subseteq {"OSV"} \cup Asked
      BY <3>1 DEF Passed, Sources, AliasSteps
    <3>4. Passed(q) \subseteq Sources
      BY <3>1 DEF Passed, AliasSteps
    <3>5. Asked = {Candidates[i] : i \in 1..(r.alias - 1) \cap DOMAIN Candidates}
      BY <1>1, <2>2, CandidatesAreStrings DEF Asked
    <3>6. Passed(q) \subseteq Passed(r)
      BY <2>1, <3>3, <3>4, <3>5 DEF Passed
    <3>7. /\ q.at \in {"alias", "ask alias", "NVD", "GitHub", "conclude"}
          /\ q.at # "ask alias" /\ q.at # "alias"
          /\ q.at \in {"NVD", "GitHub"} => CVEs # <<>>
          /\ q.limited => ~q.all
          /\ ~q.all => FailedWithin(q.age)
      BY <1>4, <3>1
    <3>8. q.all => \A s \in Passed(q) : Recent(s, q.age + Wait(s))
      BY <1>4, <3>1, <3>6
    <3>9. LookupTrue(q)
      BY <3>1, <3>7, <3>8, OnItsWay
    <3> QED
      BY <1>3, <2>1, <3>2, <3>9
  <2>3. CASE ~(r.alias > Len(Candidates))
    <3> DEFINE file == aliasFile[a]
    <3>1. r.alias \in DOMAIN Candidates
      BY <1>1, <2>1, <2>3, CandidatesAreStrings
    <3>2. AliasFileTrue(a, file)
      BY <1>5, <3>1 DEF SeverityInv
    <3>6. ASSUME AliasKnown(file)
          PROVE  /\ file.whole /\ file.age <= CacheTTL /\ file.age \in Nat
                 /\ file.is \in Results /\ file.is.kind = "scored"
      <4>1. file.whole /\ file.age <= CacheTTL
        BY <3>6 DEF AliasKnown, Within
      <4>2. file \in CacheEntries /\ file.is.kind = "scored"
        BY <3>2, <4>1 DEF AliasFileTrue, Missing, Torn
      <4> QED
        BY <4>1, <4>2 DEF CacheEntries
    <3>3. CASE AliasKnown(file) /\ file.is.tier = NoTier
      <4>1. Recent(a, file.age + MaxLookup) /\ file.age \in Nat /\ file.age <= CacheTTL
        BY <3>2, <3>3, <3>6 DEF AliasFileTrue
      <4>2. Recent(a, r.age + Wait(a))
        <5>1. a \in Sources /\ Wait(a) = CacheTTL + MaxLookup
          BY <1>5, <3>1
        <5>2. published[a].age \in Nat
          BY <5>1 DEF SeverityInv
        <5> QED
          BY <1>1, <4>1, <5>1, <5>2, LookupTimes DEF Recent
      <4>3. LookupTrue(NextAlias(p))
        BY <2>1, <3>1, <4>2, NextAliasIsTrue
      <4>4. Go(p, NextAlias(p))
        BY <1>6, <2>3, <3>3 DEF LoadAliasCache
      <4> QED
        BY <1>3, <2>1, <4>3, <4>4
    <3>4. CASE AliasKnown(file) /\ file.is.tier # NoTier
      <4>1. file.is \in Results /\ file.is.kind = "scored"
        BY <3>4, <3>6
      <4>2. file.is # Unscored /\ ~Failure(file.is)
        BY <4>1, ResultsDiffer
      <4>3. LookupTrue(Save(p, file.is))
        BY <4>1, <4>2, SaveIsTrue
      <4>4. Go(p, Save(p, file.is))
        BY <1>6, <2>3, <3>4 DEF LoadAliasCache
      <4> QED
        BY <1>3, <2>1, <4>3, <4>4
    <3>5. CASE ~AliasKnown(file)
      <4> DEFINE q == [r EXCEPT !.at = "ask alias"]
      <4>1. /\ q \in Lookups /\ q.at = "ask alias" /\ q.age = r.age /\ q.all = r.all
            /\ q.limited = r.limited /\ q.alias = r.alias
        BY <1>1 DEF Lookups, AliasSteps
      <4>2. Go(p, q)
        BY <1>6, <2>3, <3>5 DEF LoadAliasCache
      <4> HIDE DEF q
      <4>3. Passed(q) = Passed(r)
        BY <2>1, <4>1 DEF Passed, AliasSteps
      <4>4. /\ q.at \in {"alias", "ask alias", "NVD", "GitHub", "conclude"}
            /\ q.at # "alias" /\ q.at \notin {"NVD", "GitHub"}
            /\ q.alias \in DOMAIN Candidates
            /\ q.limited => ~q.all
            /\ ~q.all => FailedWithin(q.age)
        BY <1>4, <3>1, <4>1
      <4>5. q.all => \A s \in Passed(q) : Recent(s, q.age + Wait(s))
        BY <1>4, <4>1, <4>3
      <4>6. LookupTrue(q)
        BY <4>1, <4>4, <4>5, OnItsWay
      <4> QED
        BY <1>3, <2>1, <4>2, <4>6
    <3> QED
      BY <3>3, <3>4, <3>5
  <2> QED
    BY <2>2, <2>3
<1>7. CASE AliasAnswers(p)
  <2>1. r.at = "ask alias" /\ UNCHANGED outage
    BY <1>7 DEF AliasAnswers, At
  <2>2. r.alias \in DOMAIN Candidates
    BY <1>1, <2>1 DEF LookupTrue, AliasSteps
  <2>3. a \in Sources /\ published[a] \in [tier : Tiered, age : Nat]
    BY <1>5, <2>2 DEF SeverityInv
  <2> DEFINE result == Scored(published[a].tier)
             q == [r EXCEPT !.at = "save alias", !.hold = result]
  <2>4. /\ result \in Results /\ result.kind = "scored"
        /\ result.tier = published[a].tier
    BY <2>3, ResultsDiffer DEF Scored
  <2>5. Go(p, q)
    BY <1>7 DEF AliasAnswers
  <2> HIDE DEF result
  <2>6. /\ q \in Lookups /\ q.at = "save alias" /\ q.age = r.age /\ q.all = r.all
        /\ q.limited = r.limited /\ q.alias = r.alias /\ q.hold = result
    BY <1>1, <2>4 DEF Lookups, AliasSteps
  <2> HIDE DEF q
  <2>7. Passed(q) = Passed(r)
    BY <2>1, <2>6 DEF Passed, AliasSteps
  <2>8. /\ q.hold.kind = "scored"
        /\ q.hold.tier = NoTier => Recent(Candidates[q.alias], q.age)
    BY <2>4, <2>6 DEF Recent, NextCandidate
  <2>9. /\ q.limited => ~q.all
        /\ ~q.all => FailedWithin(q.age)
    BY <1>4, <2>6
  <2>10. q.all => \A s \in Passed(q) : Recent(s, q.age + Wait(s))
    BY <1>4, <2>6, <2>7
  <2>11. /\ q.at \notin {"alias", "OSV", "NVD", "GitHub", "save", "write"}
         /\ q.alias \in DOMAIN Candidates
    BY <2>2, <2>6
  <2>12. LookupTrue(q)
    BY <2>6, <2>8, <2>9, <2>10, <2>11 DEF LookupTrue
  <2> QED
    BY <1>3, <2>1, <2>5, <2>12
<1>8. CASE AliasFails(p)
  <2>1. /\ r.at = "ask alias" /\ outage' = 0
        /\ Go(p, [NextAlias(p) EXCEPT !.all = FALSE])
    BY <1>8 DEF AliasFails, At
  <2> DEFINE n == r.alias + 1
             next == [r EXCEPT !.at = "alias", !.alias = n, !.hold = Nothing]
  <2>2. NextAlias(p) = next
    BY <1>1 DEF NextAlias, Lookups
  <2>3. n \in Nat \ {0}
    BY <1>1
  <2> HIDE DEF n
  <2>4. /\ next \in Lookups /\ next.at = "alias" /\ next.alias # 0 /\ next.age = r.age
    BY <1>1, <2>3, NextAliasTyped
  <2> HIDE DEF next
  <2>5. PICK q : q = [next EXCEPT !.all = FALSE]
    OBVIOUS
  <2>6. /\ q \in Lookups /\ q.at = "alias" /\ q.alias # 0 /\ ~q.all /\ q.age \in Nat
    BY <1>1, <2>4, <2>5 DEF Lookups
  <2>7. FailedWithin(q.age)'
    <3>1. outage' = 0
      BY <2>1
    <3>2. q.age \in Nat
      BY <2>6
    <3> QED
      BY <3>1, <3>2, LookupTimes DEF FailedWithin
  <2>8. q.at \notin {"idle", "done", "OSV", "NVD", "GitHub", "save", "write", "save alias",
                    "write alias"} \cup AliasSteps
    BY <2>6 DEF AliasSteps
  <2>9. LookupTrue(q)'
    BY <2>6, <2>7, <2>8 DEF LookupTrue
  <2>10. Go(p, q)
    BY <2>1, <2>2, <2>5
  <2> QED
    BY <1>2, <2>1, <2>9, <2>10, QuietStep
<1> QED
  BY <1>6, <1>7, <1>8

(* saveAliasCache.                                                         *)
LEMMA AliasFileStep ==
  ASSUME SeverityInv, NEW p \in Scans, TruncateAlias(p) \/ WriteAlias(p)
  PROVE  SeverityInv'
<1> DEFINE r == scan[p]
           a == NextCandidate(p)
<1>1. /\ LookupTrue(r) /\ r \in Lookups /\ r.age \in Nat /\ r.alias \in Nat
      /\ r.age \in 0..MaxLookup /\ r.hold \in Results
  BY LookupFacts
<1>2. UNCHANGED <<published, outage, advisoryFile>>
  BY DEF TruncateAlias, WriteAlias, World
<1>3. r.at \in {"save alias", "write alias"}
  BY DEF TruncateAlias, WriteAlias, At
<1>4. /\ r.alias \in DOMAIN Candidates
      /\ r.hold.kind = "scored"
      /\ r.hold.tier = NoTier => Recent(a, r.age)
  BY <1>1, <1>3 DEF LookupTrue, AliasSteps, NextCandidate
<1>5. /\ r.limited => ~r.all
      /\ ~r.all => FailedWithin(r.age)
      /\ r.all => \A s \in Passed(r) : Recent(s, r.age + Wait(s))
  BY <1>1, <1>3 DEF LookupTrue
<1>6. a \in Asked /\ a \in Sources /\ Wait(a) = CacheTTL + MaxLookup
  BY <1>4 DEF NextCandidate, Asked, Sources, Wait
<1>7. published[a].age \in Nat
  BY <1>6 DEF SeverityInv
<1>8. AdvisoryFileTrue(advisoryFile)'
  BY <1>2, StaysTrue DEF SeverityInv, AdvisoryFileTrue
<1>9. ASSUME NEW q, LookupTrue(q), Go(p, q),
             \/ UNCHANGED aliasFile
             \/ \E file : /\ aliasFile' = [aliasFile EXCEPT ![a] = file]
                           /\ AliasFileTrue(a, file)
      PROVE  SeverityInv'
  <2>1. LookupTrue(q)'
    BY <1>2, <1>9, StaysTrue
  <2>2. /\ DOMAIN aliasFile' = Asked /\ aliasFile' = [b \in Asked |-> aliasFile'[b]]
        /\ \A b \in Asked : AliasFileTrue(b, aliasFile'[b])
    BY <1>6, <1>9 DEF SeverityInv
  <2>3. \A b \in Asked : AliasFileTrue(b, aliasFile[b])'
    BY <1>2, <2>2, StaysTrue DEF AliasFileTrue
  <2> QED
    BY <1>2, <1>8, <1>9, <2>1, <2>2, <2>3, LookupStep
<1>10. CASE TruncateAlias(p)
  <2> DEFINE q == [r EXCEPT !.at = "write alias"]
  <2>1. /\ q \in Lookups /\ q.at = "write alias" /\ q.age = r.age /\ q.all = r.all
        /\ q.limited = r.limited /\ q.alias = r.alias /\ q.hold = r.hold
    BY <1>1 DEF Lookups, AliasSteps
  <2>2. Go(p, q) /\ aliasFile' = [aliasFile EXCEPT ![a] = Torn]
    BY <1>10 DEF TruncateAlias
  <2> HIDE DEF q
  <2>3. Passed(q) = Passed(r)
    BY <1>3, <2>1 DEF Passed, AliasSteps
  <2>4. /\ q.hold.kind = "scored"
        /\ q.hold.tier = NoTier => Recent(Candidates[q.alias], q.age)
    BY <1>4, <2>1 DEF NextCandidate
  <2>5. /\ q.limited => ~q.all
        /\ ~q.all => FailedWithin(q.age)
    BY <1>5, <2>1
  <2>6. q.all => \A s \in Passed(q) : Recent(s, q.age + Wait(s))
    BY <1>5, <2>1, <2>3
  <2>7. /\ q.at \notin {"alias", "OSV", "NVD", "GitHub", "save", "write"}
        /\ q.alias \in DOMAIN Candidates
    BY <1>4, <2>1
  <2>8. LookupTrue(q)
    BY <2>1, <2>4, <2>5, <2>6, <2>7 DEF LookupTrue
  <2>9. AliasFileTrue(a, Torn)
    BY DEF AliasFileTrue, Torn
  <2> QED
    BY <1>9, <2>2, <2>8, <2>9
<1>11. CASE WriteAlias(p)
  <2>1. \/ UNCHANGED aliasFile
        \/ \E file \in Written(FileEntry(r.hold)) : aliasFile' = [aliasFile EXCEPT ![a] = file]
    BY <1>11 DEF WriteAlias
  <2>2. ASSUME NEW file \in Written(FileEntry(r.hold)) PROVE AliasFileTrue(a, file)
    <3>1. CASE file = Torn
      BY <3>1 DEF AliasFileTrue, Torn
    <3>2. CASE file = FileEntry(r.hold)
      <4>1. file \in CacheEntries /\ file.is = r.hold /\ file.age = 0
        BY <1>1, <3>2 DEF FileEntry, CacheEntries
      <4>2. r.hold.tier = NoTier => Recent(a, file.age + MaxLookup)
        BY <1>1, <1>4, <1>7, <4>1, LookupTimes DEF Recent
      <4> QED
        BY <1>4, <4>1, <4>2 DEF AliasFileTrue
    <3> QED
      BY <2>2, <3>1, <3>2 DEF Written
  <2>3. CASE r.hold.tier = NoTier
    <3>1. Recent(a, r.age + Wait(a))
      BY <1>1, <1>4, <1>6, <1>7, <2>3, LookupTimes DEF Recent
    <3>2. LookupTrue(NextAlias(p))
      BY <1>3, <1>4, <3>1, NextAliasIsTrue DEF AliasSteps
    <3>3. Go(p, NextAlias(p))
      BY <1>11, <2>3 DEF WriteAlias
    <3> QED
      BY <1>9, <2>1, <2>2, <3>2, <3>3
  <2>4. CASE r.hold.tier # NoTier
    <3>1. r.hold # Unscored /\ ~Failure(r.hold)
      BY <1>1, <1>4, ResultsDiffer
    <3>2. LookupTrue(Save(p, r.hold))
      BY <1>1, <3>1, SaveIsTrue
    <3>3. Go(p, Save(p, r.hold))
      BY <1>11, <2>4 DEF WriteAlias
    <3> QED
      BY <1>9, <2>1, <2>2, <3>2, <3>3
  <2> QED
    BY <2>3, <2>4
<1> QED
  BY <1>10, <1>11

(* What a lookup concludes, saveCache, and the cache read.                 *)
LEMMA AdvisoryStep ==
  ASSUME SeverityInv, NEW p \in Scans,
         \/ Enrich(p) \/ Return(p) \/ Conclude(p) \/ Crash(p)
         \/ Truncate(p) \/ Write(p)
  PROVE  SeverityInv'
<1> DEFINE r == scan[p]
<1>1. /\ LookupTrue(r) /\ r \in Lookups /\ r.age \in Nat
      /\ r.age \in 0..MaxLookup /\ r.hold \in Results
  BY LookupFacts
<1>2. UNCHANGED <<published, outage, aliasFile>>
  BY DEF Enrich, Return, Conclude, Crash, Truncate, Write, World, Files
<1>3. ASSUME NEW q, LookupTrue(q), Go(p, q), AdvisoryFileTrue(advisoryFile') PROVE SeverityInv'
  <2>1. LookupTrue(q)'
    BY <1>2, <1>3, StaysTrue
  <2>2. AdvisoryFileTrue(advisoryFile)'
    BY <1>2, <1>3, StaysTrue DEF AdvisoryFileTrue
  <2>3. \A b \in Asked : AliasFileTrue(b, aliasFile[b])'
    BY <1>2, StaysTrue DEF SeverityInv, AliasFileTrue
  <2> QED
    BY <1>2, <1>3, <2>1, <2>2, <2>3, LookupStep DEF SeverityInv
<1>4. ASSUME UNCHANGED advisoryFile PROVE AdvisoryFileTrue(advisoryFile')
  BY <1>4 DEF SeverityInv
<1>5. ASSUME NEW result \in Results PROVE LookupTrue(Done(result))
  <2> DEFINE q == Done(result)
  <2>1. q \in Lookups /\ q.at = "done"
    BY IdleTyped DEF Done, Lookups
  <2> HIDE DEF q
  <2>2. q.at \notin {"alias", "OSV", "NVD", "GitHub", "save", "write"} \cup AliasSteps
    BY <2>1 DEF AliasSteps
  <2>3. LookupTrue(q)
    BY <2>1, <2>2 DEF LookupTrue, AliasSteps
  <2> QED
    BY <2>3 DEF q
<1>6. CASE Return(p) \/ Crash(p)
  BY <1>3, <1>4, <1>6, IdleIsTrue DEF Return, Crash, Files
<1>7. CASE Enrich(p)
  <2>1. UNCHANGED advisoryFile
    BY <1>7 DEF Enrich, Files
  <2>2. CASE advisoryFile.whole /\ Within(advisoryFile, TTL(advisoryFile.is))
    <3>1. advisoryFile.is \in Results
      <4>1. AdvisoryFileTrue(advisoryFile)
        BY DEF SeverityInv
      <4>2. advisoryFile \in CacheEntries
        BY <2>2, <4>1 DEF AdvisoryFileTrue, Missing, Torn
      <4> QED
        BY <4>2 DEF CacheEntries
    <3> QED
      BY <1>3, <1>4, <1>5, <1>7, <2>1, <2>2, <3>1 DEF Enrich, Restored
  <2>3. CASE ~(advisoryFile.whole /\ Within(advisoryFile, TTL(advisoryFile.is)))
    <3> DEFINE q == [Idle EXCEPT !.at = "OSV"]
    <3>1. /\ q \in Lookups /\ q.at = "OSV" /\ q.alias = 0 /\ q.all /\ ~q.limited
      BY IdleTyped DEF Lookups
    <3>2. Go(p, q)
      BY <1>7, <2>3 DEF Enrich
    <3> HIDE DEF q
    <3>3. q.at \notin {"alias", "NVD", "GitHub", "save", "write"} \cup AliasSteps
      BY <3>1 DEF AliasSteps
    <3>4. Passed(q) = {}
      BY <3>1 DEF Passed, AliasSteps
    <3>5. LookupTrue(q)
      BY <3>1, <3>3, <3>4 DEF LookupTrue, AliasSteps
    <3> QED
      BY <1>3, <1>4, <2>1, <3>2, <3>5
  <2> QED
    BY <2>2, <2>3
<1>8. CASE Conclude(p)
  <2> DEFINE result == Conclusion(p)
  <2>1. /\ r.at = "conclude" /\ Go(p, Save(p, result)) /\ UNCHANGED advisoryFile
    BY <1>8 DEF Conclude, At, Files
  <2>2. /\ r.limited => ~r.all
        /\ ~r.all => FailedWithin(r.age)
        /\ r.all => NoScore(r.age)
    BY <1>1, <2>1 DEF LookupTrue, Passed, NoScore, AliasSteps
  <2>3. CASE r.all
    <3>1. result = Unscored
      BY <2>3 DEF Conclusion
    <3>2. LookupTrue(Save(p, result))
      BY <2>2, <2>3, <3>1, ResultsDiffer, SaveIsTrue
    <3> QED
      BY <1>3, <1>4, <2>1, <3>2
  <2>4. CASE ~r.all
    <3>1. result = Failed(r.limited) /\ r.limited \in BOOLEAN
      BY <1>1, <2>4 DEF Conclusion, Lookups
    <3>2. LookupTrue(Save(p, result))
      BY <2>2, <2>4, <3>1, ResultsDiffer, SaveIsTrue
    <3> QED
      BY <1>3, <1>4, <2>1, <3>2
  <2> QED
    BY <2>3, <2>4
<1>9. CASE Truncate(p)
  <2> DEFINE q == [r EXCEPT !.at = "write"]
  <2>1. r.at = "save" /\ Go(p, q) /\ advisoryFile' = Torn
    BY <1>9 DEF Truncate, At
  <2>2. /\ q \in Lookups /\ q.at = "write" /\ q.age = r.age /\ q.all = r.all
        /\ q.limited = r.limited /\ q.hold = r.hold
    BY <1>1 DEF Lookups
  <2> HIDE DEF q
  <2>3. /\ q.limited => ~q.all
        /\ ~q.all => FailedWithin(q.age)
        /\ q.hold = Unscored => NoScore(q.age)
        /\ Failure(q.hold) => FailedWithin(q.age)
    BY <1>1, <2>1, <2>2 DEF LookupTrue
  <2>4. Passed(q) = {}
    BY <2>2 DEF Passed, AliasSteps
  <2>5. q.at \notin {"alias", "OSV", "NVD", "GitHub", "save alias", "write alias"} \cup AliasSteps
    BY <2>2 DEF AliasSteps
  <2>6. LookupTrue(q)
    BY <2>2, <2>3, <2>4, <2>5 DEF LookupTrue
  <2>7. AdvisoryFileTrue(advisoryFile')
    BY <2>1 DEF AdvisoryFileTrue, Torn
  <2> QED
    BY <1>3, <2>1, <2>6, <2>7
<1>10. CASE Write(p)
  <2>1. /\ r.at \in {"save", "write"} /\ Go(p, Done(r.hold))
        /\ advisoryFile' = advisoryFile \/ advisoryFile' \in Written(FileEntry(r.hold))
    BY <1>10 DEF Write, At
  <2>2. /\ r.hold = Unscored => NoScore(r.age)
        /\ Failure(r.hold) => FailedWithin(r.age)
    BY <1>1, <2>1 DEF LookupTrue
  <2> DEFINE file == FileEntry(r.hold)
  <2>3. file \in CacheEntries /\ file.is = r.hold /\ file.age = 0 /\ file.age + MaxLookup = MaxLookup
    BY <1>1, LookupTimes DEF FileEntry, CacheEntries
  <2> HIDE DEF file
  <2>4. AdvisoryFileTrue(file)
    <3>1. NoScore(r.age) => NoScore(MaxLookup)
      <4> SUFFICES ASSUME NoScore(r.age), NEW s \in Sources
                   PROVE  Recent(s, MaxLookup + Wait(s))
        BY DEF NoScore
      <4>1. Recent(s, r.age + Wait(s))
        BY DEF NoScore
      <4>2. published[s].age \in Nat /\ Wait(s) \in Nat
        BY LookupTimes DEF SeverityInv, Wait
      <4> QED
        BY <1>1, <4>1, <4>2, LookupTimes DEF Recent
    <3>2. FailedWithin(r.age) => FailedWithin(MaxLookup)
      BY <1>1, LookupTimes DEF FailedWithin, SeverityInv
    <3> QED
      BY <2>2, <2>3, <3>1, <3>2 DEF AdvisoryFileTrue
  <2>5. AdvisoryFileTrue(Torn)
    BY DEF AdvisoryFileTrue, Torn
  <2>6. AdvisoryFileTrue(advisoryFile')
    BY <1>4, <2>1, <2>4, <2>5 DEF Written, file
  <2> QED
    BY <1>1, <1>3, <1>5, <2>1, <2>6
<1> QED
  BY <1>6, <1>7, <1>8, <1>9, <1>10

(* How a kept answer ages: by a tick, until it is past its time.            *)
LEMMA EntryAges ==
  /\ \A file : file \in CacheEntries =>
       file.age \in Nat /\ file.age + MaxLookup \in Nat /\ file.whole
  /\ \A file \in CacheEntries :
       LET older == OlderFile(file, CacheTTL)
       IN /\ older \in CacheEntries /\ older.is = file.is
          /\ older.age = IF file.age <= CacheTTL THEN file.age + 1 ELSE file.age
<1>1. ASSUME NEW file \in CacheEntries
      PROVE  file.age \in Nat /\ file.age + MaxLookup \in Nat /\ file.whole
  <2>1. file.age \in Nat /\ file.whole
    BY DEF CacheEntries
  <2> QED
    BY <2>1, LookupTimes
<1>2. ASSUME NEW file \in CacheEntries
      PROVE  LET older == OlderFile(file, CacheTTL)
             IN /\ older \in CacheEntries /\ older.is = file.is
                /\ older.age = IF file.age <= CacheTTL THEN file.age + 1 ELSE file.age
  <2> DEFINE age == IF file.age <= CacheTTL THEN file.age + 1 ELSE file.age
             older == [file EXCEPT !.age = age]
  <2>1. age \in Nat
    BY <1>1
  <2>2. OlderFile(file, CacheTTL) = older
    BY <1>1 DEF OlderFile
  <2> HIDE DEF age
  <2>3. older \in CacheEntries /\ older.is = file.is /\ older.age = age
    BY <2>1 DEF CacheEntries
  <2> HIDE DEF older
  <2> QED
    BY <2>2, <2>3 DEF age
<1> QED
  BY <1>1, <1>2

(* What a source publishes is new.                                         *)
LEMMA SourcePublishes ==
  ASSUME SeverityInv, NEW s \in Changing, NEW tier \in Tiers, Publish(s, tier)
  PROVE  SeverityInv'
<1>1. /\ UNCHANGED <<outage, Files, scan>>
      /\ published' = [published EXCEPT ![s] = [tier |-> tier, age |-> 0]]
      /\ published \in [Sources -> [tier : Tiered, age : Nat]]
  BY DEF Publish, SeverityInv
<1>2. [tier |-> tier, age |-> 0] \in [tier : Tiered, age : Nat]
  BY DEF Tiered
<1>3. published' \in [Sources -> [tier : Tiered, age : Nat]]
  BY <1>1, <1>2
<1>4. \A x \in Sources, n \in Nat : Recent(x, n) => Recent(x, n)'
  BY <1>1 DEF Recent
<1>5. \A x \in Sources : Wait(x) \in Nat
  BY LookupTimes DEF Wait
<1>6. \A n \in Nat : NoScore(n) => NoScore(n)'
  BY <1>4, <1>5 DEF NoScore
<1>7. \A n : FailedWithin(n) <=> FailedWithin(n)'
  BY <1>1 DEF FailedWithin
<1>8. AdvisoryFileTrue(advisoryFile)'
  <2>1. AdvisoryFileTrue(advisoryFile) /\ advisoryFile' = advisoryFile
    BY <1>1 DEF SeverityInv, Files
  <2>2. advisoryFile.whole => advisoryFile \in CacheEntries
    BY <2>1 DEF AdvisoryFileTrue, Missing, Torn
  <2>3. advisoryFile.whole => advisoryFile.age + MaxLookup \in Nat
    BY <2>2, EntryAges
  <2> QED
    BY <1>6, <1>7, <2>1, <2>3 DEF AdvisoryFileTrue
<1>9. ASSUME NEW a \in Asked PROVE AliasFileTrue(a, aliasFile[a])'
  <2> DEFINE file == aliasFile[a]
  <2>1. AliasFileTrue(a, file) /\ aliasFile' = aliasFile
    BY <1>1 DEF SeverityInv, Files
  <2>2. file.whole => file \in CacheEntries
    BY <2>1 DEF AliasFileTrue, Missing, Torn
  <2>3. file.whole => file.age + MaxLookup \in Nat
    BY <2>2, EntryAges
  <2>4. a \in Sources
    BY DEF Sources
  <2> QED
    BY <1>4, <2>1, <2>3, <2>4 DEF AliasFileTrue
<1>10. ASSUME NEW p \in Scans PROVE LookupTrue(scan[p])'
  <2> DEFINE r == scan[p]
  <2>1. LookupTrue(r) /\ r \in Lookups /\ r.age \in Nat /\ scan' = scan
    BY <1>1, LookupFacts
  <2>2. \A x \in Passed(r) : x \in Sources /\ r.age + Wait(x) \in Nat
    BY <1>5, <2>1 DEF Passed
  <2>3. r.at \in {"save alias", "write alias"} => Candidates[r.alias] \in Sources
    BY <2>1 DEF LookupTrue, Sources, Asked, AliasSteps
  <2> QED
    BY <1>4, <1>6, <1>7, <2>1, <2>2, <2>3 DEF LookupTrue
<1> QED
  BY <1>1, <1>3, <1>8, <1>9, <1>10 DEF SeverityInv, Files

(* A tick.                                                                 *)
LEMMA SeverityTickStep == ASSUME SeverityInv, SeverityTick PROVE SeverityInv'
<1>1. /\ published \in [Sources -> [tier : Tiered, age : Nat]]
      /\ published' = [s \in Sources |-> [published[s] EXCEPT !.age = Older(@)]]
      /\ outage \in Nat
      /\ outage' = IF outage < FailTTL + MaxLookup THEN outage + 1 ELSE Old
  BY DEF SeverityTick, SeverityInv
<1>2. ASSUME NEW s \in Sources
      PROVE  /\ published'[s] \in [tier : Tiered, age : Nat]
             /\ published'[s].tier = published[s].tier
             /\ published'[s].age <= published[s].age + 1
             /\ published[s].age \in Nat
  <2>1. /\ published[s] \in [tier : Tiered, age : Nat]
        /\ published'[s] = [published[s] EXCEPT !.age = Older(published[s].age)]
    BY <1>1
  <2>2. ASSUME NEW n \in Nat PROVE Older(n) \in Nat /\ Older(n) <= n + 1
    BY LookupTimes DEF Older
  <2> QED
    BY <2>1, <2>2
<1>3. published' \in [Sources -> [tier : Tiered, age : Nat]] /\ outage' \in Nat
  <2>1. published' \in [Sources -> [tier : Tiered, age : Nat]]
    BY <1>1, <1>2
  <2>2. outage + 1 \in Nat /\ Old \in Nat
    BY <1>1, LookupTimes
  <2> QED
    BY <1>1, <2>1, <2>2
<1>4. \A x \in Sources, n \in Nat : Recent(x, n) => Recent(x, n + 1)'
  BY <1>2, <1>3 DEF Recent
<1>5. \A x \in Sources : Wait(x) \in Nat
  BY LookupTimes DEF Wait
<1>6. \A n \in Nat : NoScore(n) => NoScore(n + 1)'
  <2> SUFFICES ASSUME NEW n \in Nat, NoScore(n), NEW x \in Sources
               PROVE  Recent(x, (n + 1) + Wait(x))'
    BY DEF NoScore
  <2>1. Recent(x, n + Wait(x)) /\ n + Wait(x) \in Nat
    BY <1>5 DEF NoScore
  <2>2. (n + Wait(x)) + 1 = (n + 1) + Wait(x)
    BY <1>5
  <2>3. published'[x].tier = NoTier \/ published'[x].age <= (n + Wait(x)) + 1
    BY <1>4, <2>1 DEF Recent
  <2> QED
    BY <2>2, <2>3 DEF Recent, Wait
<1>7. \A n \in Nat : n < FailTTL + MaxLookup /\ FailedWithin(n) => FailedWithin(n + 1)'
  BY <1>1, LookupTimes DEF FailedWithin
<1>8. AdvisoryFileTrue(advisoryFile)'
  <2>1. PICK f : f = advisoryFile
    OBVIOUS
  <2>2. PICK g : g = OlderFile(f, CacheTTL)
    OBVIOUS
  <2>3. AdvisoryFileTrue(f) /\ advisoryFile' = g
    BY <2>1, <2>2 DEF SeverityInv, SeverityTick
  <2>4. CASE ~f.whole
    <3>1. f = Missing \/ f = Torn
      BY <2>3, <2>4, EntryAges DEF AdvisoryFileTrue
    <3>2. g = f
      BY <2>2, <2>4 DEF OlderFile
    <3> QED
      BY <2>3, <2>4, <3>1, <3>2 DEF AdvisoryFileTrue
  <2>5. CASE f.whole
    <3>1. f \in CacheEntries
      BY <2>3, <2>5 DEF AdvisoryFileTrue, Missing, Torn
    <3>2. /\ g \in CacheEntries /\ g.is = f.is /\ f.age \in Nat
          /\ g.age = IF f.age <= CacheTTL THEN f.age + 1 ELSE f.age
      BY <2>2, <3>1, EntryAges
    <3>3. PICK m : m = f.age + MaxLookup
      OBVIOUS
    <3>4. ASSUME g.age <= FailTTL
          PROVE  /\ f.age <= FailTTL /\ m \in Nat /\ m < FailTTL + MaxLookup
                 /\ g.age + MaxLookup = m + 1
      BY <3>2, <3>3, <3>4, LookupTimes
    <3>5. g.age <= FailTTL => /\ f.is = Unscored => NoScore(m)
                              /\ Failure(f.is) => FailedWithin(m)
      BY <2>3, <2>5, <3>3, <3>4 DEF AdvisoryFileTrue
    <3>6. /\ g.age <= FailTTL /\ g.is = Unscored => NoScore(m + 1)'
          /\ g.age <= FailTTL /\ Failure(g.is) => FailedWithin(m + 1)'
      BY <1>6, <1>7, <3>2, <3>4, <3>5
    <3>7. /\ g.age <= FailTTL /\ g.is = Unscored => NoScore(g.age + MaxLookup)'
          /\ g.age <= FailTTL /\ Failure(g.is) => FailedWithin(g.age + MaxLookup)'
      BY <3>4, <3>6
    <3> QED
      BY <2>3, <3>2, <3>7 DEF AdvisoryFileTrue
  <2> QED
    BY <2>4, <2>5
<1>9. ASSUME NEW a \in Asked PROVE AliasFileTrue(a, aliasFile[a])'
  <2>1. PICK f : f = aliasFile[a]
    OBVIOUS
  <2>2. PICK g : g = OlderFile(f, CacheTTL)
    OBVIOUS
  <2>3. AliasFileTrue(a, f) /\ aliasFile'[a] = g
    BY <2>1, <2>2 DEF SeverityInv, SeverityTick
  <2>4. CASE ~f.whole
    <3>1. f = Missing \/ f = Torn
      BY <2>3, <2>4, EntryAges DEF AliasFileTrue
    <3>2. g = f
      BY <2>2, <2>4 DEF OlderFile
    <3> QED
      BY <2>3, <2>4, <3>1, <3>2 DEF AliasFileTrue
  <2>5. CASE f.whole
    <3>1. f \in CacheEntries /\ f.is.kind = "scored"
      BY <2>3, <2>5 DEF AliasFileTrue, Missing, Torn
    <3>2. /\ g \in CacheEntries /\ g.is = f.is /\ f.age \in Nat
          /\ g.age = IF f.age <= CacheTTL THEN f.age + 1 ELSE f.age
      BY <2>2, <3>1, EntryAges
    <3>3. PICK m : m = f.age + MaxLookup
      OBVIOUS
    <3>4. ASSUME g.age <= CacheTTL
          PROVE  f.age <= CacheTTL /\ m \in Nat /\ g.age + MaxLookup = m + 1
      BY <3>2, <3>3, <3>4, LookupTimes
    <3>5. g.age <= CacheTTL /\ g.is.tier = NoTier => Recent(a, m)
      BY <2>3, <2>5, <3>2, <3>3, <3>4 DEF AliasFileTrue
    <3>6. a \in Sources
      BY DEF Sources
    <3>7. g.age <= CacheTTL /\ g.is.tier = NoTier => Recent(a, m + 1)'
      BY <1>4, <3>4, <3>5, <3>6
    <3>8. g.age <= CacheTTL /\ g.is.tier = NoTier => Recent(a, g.age + MaxLookup)'
      BY <3>4, <3>7
    <3> QED
      BY <2>3, <3>1, <3>2, <3>8 DEF AliasFileTrue
  <2> QED
    BY <2>4, <2>5
<1>10. ASSUME NEW p \in Scans PROVE LookupTrue(scan[p])'
  <2>1. PICK r : r = scan[p]
    OBVIOUS
  <2>2. PICK q : q = IF Active(p) THEN [r EXCEPT !.age = @ + 1] ELSE r
    OBVIOUS
  <2>3. /\ LookupTrue(r) /\ r \in Lookups /\ r.age \in Nat /\ r.age < MaxLookup
        /\ r.at \notin {"write", "write alias", "done"} /\ scan'[p] = q
    BY <2>1, <2>2, LookupFacts DEF SeverityTick, At
  <2>4. CASE ~Active(p)
    <3>1. q = r /\ r.at = "idle"
      BY <2>1, <2>2, <2>3, <2>4 DEF Active
    <3>2. q.at \notin {"alias", "OSV", "NVD", "GitHub", "save", "save alias", "write"}
            \cup AliasSteps
      BY <3>1 DEF AliasSteps
    <3> QED
      BY <2>3, <3>1, <3>2 DEF LookupTrue
  <2>5. CASE Active(p)
    <3>1. PICK m : m = r.age
      OBVIOUS
    <3>2. /\ m \in Nat /\ m + 1 \in 0..MaxLookup /\ m < FailTTL + MaxLookup
      <4>1. m \in Nat /\ m < MaxLookup
        BY <2>3, <3>1
      <4> QED
        BY <4>1, LookupTimes
    <3>3. /\ q \in Lookups /\ q.at = r.at /\ q.age = m + 1 /\ q.alias = r.alias
          /\ q.all = r.all /\ q.limited = r.limited /\ q.hold = r.hold
      BY <2>2, <2>3, <2>5, <3>1, <3>2 DEF Lookups
    <3>4. Passed(q) = Passed(r)
      BY <3>3 DEF Passed
    <3>5. /\ r.at = "save alias" /\ r.hold.tier = NoTier => Recent(Candidates[r.alias], m + 1)'
      <4>1. r.at = "save alias" => Candidates[r.alias] \in Sources
        BY <2>3 DEF LookupTrue, Sources, Asked, AliasSteps
      <4>2. r.at = "save alias" /\ r.hold.tier = NoTier => Recent(Candidates[r.alias], m)
        BY <2>3, <3>1 DEF LookupTrue
      <4> QED
        BY <1>4, <3>2, <4>1, <4>2
    <3>6. r.at \notin {"idle", "done"}
      BY <2>1, <2>5 DEF Active
    <3>7. /\ r.limited => ~r.all
          /\ ~r.all => FailedWithin(m + 1)'
      BY <1>7, <2>3, <3>1, <3>2, <3>6 DEF LookupTrue
    <3>8. ASSUME r.all, NEW x \in Passed(r) PROVE Recent(x, (m + 1) + Wait(x))'
      <4>1. x \in Sources /\ Wait(x) \in Nat
        BY <1>5 DEF Passed
      <4>2. PICK n : n = m + Wait(x)
        OBVIOUS
      <4>3. n \in Nat /\ n + 1 = (m + 1) + Wait(x)
        BY <3>2, <4>1, <4>2
      <4>4. Recent(x, n)
        BY <2>3, <3>1, <3>6, <3>8, <4>2 DEF LookupTrue
      <4>5. Recent(x, n + 1)'
        BY <1>4, <4>1, <4>3, <4>4
      <4> QED
        BY <4>3, <4>5 DEF Recent, Wait
    <3>9. r.at = "save" => /\ r.hold = Unscored => NoScore(m + 1)'
                           /\ Failure(r.hold) => FailedWithin(m + 1)'
      BY <1>6, <1>7, <2>3, <3>1, <3>2 DEF LookupTrue
    <3>10. LookupTrue(q)'
      <4>1. q.at = "alias" => q.alias # 0
        BY <2>3, <3>3 DEF LookupTrue
      <4>2. q.at \in AliasSteps => q.alias \in DOMAIN Candidates
        BY <2>3, <3>3 DEF LookupTrue
      <4>3. q.at = "OSV" => q.alias = 0
        BY <2>3, <3>3 DEF LookupTrue
      <4>4. q.at \in {"NVD", "GitHub"} => CVEs # <<>>
        BY <2>3, <3>3 DEF LookupTrue
      <4>5. q.at \in {"save alias", "write alias"} =>
              /\ q.hold.kind = "scored"
              /\ q.hold.tier = NoTier => Recent(Candidates[q.alias], q.age)'
        BY <2>3, <3>3, <3>5 DEF LookupTrue
      <4>6. q.all => \A x \in Passed(q) : Recent(x, q.age + Wait(x))'
        BY <3>3, <3>4, <3>8
      <4> QED
        BY <2>3, <3>3, <3>7, <3>9, <4>1, <4>2, <4>3, <4>4, <4>5, <4>6 DEF LookupTrue
    <3> QED
      BY <2>3, <3>10 DEF LookupTrue
  <2> QED
    BY <2>4, <2>5
<1>11. /\ DOMAIN aliasFile' = Asked /\ aliasFile' = [a \in Asked |-> aliasFile'[a]]
       /\ scan' = [p \in Scans |-> scan'[p]]
  BY DEF SeverityTick
<1> QED
  BY <1>3, <1>8, <1>9, <1>10, <1>11 DEF SeverityInv

(* What is kept and what is learnt is true in every behaviour.              *)
LEMMA SeverityInvariant == SeveritySpec => []SeverityInv
<1>1. SeverityInv /\ [SeverityNext]_severityVars => SeverityInv'
  <2> SUFFICES ASSUME SeverityInv, [SeverityNext]_severityVars PROVE SeverityInv'
    OBVIOUS
  <2>1. CASE UNCHANGED severityVars
    BY <2>1
    DEF severityVars, SeverityInv, LookupTrue, AdvisoryFileTrue, AliasFileTrue, Recent,
        NoScore, FailedWithin
  <2>2. ASSUME NEW p \in Scans, SeverityStep(p) PROVE SeverityInv'
    BY <2>2, AdvisoryStep, AliasFileStep, AliasLookupStep, AnswersStep, FailsStep DEF SeverityStep
  <2> QED
    BY <2>1, <2>2, SourcePublishes, SeverityTickStep DEF SeverityNext
<1> QED
  BY <1>1, InitSeverity, PTL DEF SeveritySpec

(* Enrich ends with what it read in the cache or with what it has learnt.  *)
LEMMA OnlyTheseTell ==
  ASSUME SeverityInv, NEW p \in Scans, NEW result, SeverityNext, Told(p, result)
  PROVE  /\ UNCHANGED <<published, outage>>
         /\ \/ /\ advisoryFile.whole /\ Within(advisoryFile, TTL(result))
               /\ advisoryFile.is = result
            \/ At(p, "write") /\ scan[p].hold = result
            \/ At(p, "save") /\ scan[p].hold = result
<1>1. scan'[p].at = "done" /\ scan'[p].hold = result /\ scan[p].at # "done"
  BY DEF Told, At
<1>2. PICK q \in Scans : SeverityStep(q)
  <2>1. ASSUME NEW s, NEW tier, Publish(s, tier) PROVE FALSE
    BY <1>1, <2>1 DEF Publish
  <2>2. ASSUME SeverityTick PROVE FALSE
    <3>1. PICK r : r = scan[p]
      OBVIOUS
    <3>2. r \in Lookups /\ r.at # "done"
      BY <1>1, <3>1, LookupFacts
    <3>3. scan'[p] = IF Active(p) THEN [r EXCEPT !.age = @ + 1] ELSE r
      BY <2>2, <3>1 DEF SeverityTick
    <3> QED
      BY <1>1, <3>2, <3>3 DEF Lookups
  <2> QED
    BY <2>1, <2>2 DEF SeverityNext
<1>3. ASSUME NEW f, Go(q, f) PROVE q = p /\ f.at = "done" /\ f.hold = result
  <2>1. scan'[p] = IF p = q THEN f ELSE scan[p]
    BY <1>3 DEF Go, SeverityInv
  <2> QED
    BY <1>1, <2>1
<1>4. ASSUME NEW other, Save(q, other).at = "done" PROVE FALSE
  BY <1>4, IdleTyped DEF Save, Lookups
<1>5. ASSUME NextAlias(q).at = "done" PROVE FALSE
  BY <1>5, LookupFacts DEF NextAlias, Lookups
<1>6. ASSUME NEW s \in {"OSV", "NVD", "GitHub"}, At(q, s)
      PROVE  GoOn(q).at \in {"alias", "GitHub", "conclude"} /\ GoOn(q) \in Lookups
  BY <1>6, GoOnIsTrue
<1>7. scan[q] \in Lookups
  BY LookupFacts
<1>8. ASSUME NEW s \in {"OSV", "NVD", "GitHub"}, Answers(q, s) PROVE FALSE
  <2>1. /\ At(q, s)
        /\ Go(q, GoOn(q)) \/ Go(q, Save(q, Scored(published[s].tier)))
    BY <1>8 DEF Answers
  <2>2. GoOn(q).at # "done"
    BY <1>6, <2>1
  <2> QED
    BY <1>3, <1>4, <2>1, <2>2
<1>9. ASSUME NEW s \in {"OSV", "NVD", "GitHub"}, Fails(q, s) PROVE FALSE
  <2>1. PICK limited \in BOOLEAN :
          Go(q, [GoOn(q) EXCEPT !.all = FALSE, !.limited = @ \/ limited])
    BY <1>9 DEF Fails
  <2>2. GoOn(q) \in Lookups /\ GoOn(q).at # "done"
    BY <1>6, <1>9 DEF Fails
  <2> DEFINE g == GoOn(q)
             f == [g EXCEPT !.all = FALSE, !.limited = @ \/ limited]
  <2>3. f.at = g.at
    BY <2>2 DEF Lookups
  <2> QED
    BY <1>3, <2>1, <2>2, <2>3
<1>10. ASSUME LoadAliasCache(q) PROVE FALSE
  <2> DEFINE toNVD == [scan[q] EXCEPT !.at = IF CVEs = <<>> THEN "conclude" ELSE "NVD"]
             toAsk == [scan[q] EXCEPT !.at = "ask alias"]
  <2>1. \/ Go(q, toNVD) \/ Go(q, NextAlias(q)) \/ Go(q, toAsk)
        \/ Go(q, Save(q, aliasFile[NextCandidate(q)].is))
    BY <1>10 DEF LoadAliasCache
  <2>2. toNVD.at # "done" /\ toAsk.at # "done"
    BY <1>7 DEF Lookups
  <2> HIDE DEF toNVD, toAsk
  <2> QED
    BY <1>3, <1>4, <1>5, <2>1, <2>2
<1>11. ASSUME AliasAnswers(q) \/ AliasFails(q) PROVE FALSE
  <2> DEFINE saved == [scan[q] EXCEPT !.at = "save alias",
                                      !.hold = Scored(published[NextCandidate(q)].tier)]
             failed == [NextAlias(q) EXCEPT !.all = FALSE]
  <2>1. Go(q, saved) \/ Go(q, failed)
    BY <1>11 DEF AliasAnswers, AliasFails
  <2>2. saved.at # "done"
    BY <1>7 DEF Lookups
  <2>3. failed.at # "done"
    BY <1>7 DEF NextAlias, Lookups
  <2> HIDE DEF saved, failed
  <2> QED
    BY <1>3, <2>1, <2>2, <2>3
<1>12. ASSUME TruncateAlias(q) \/ WriteAlias(q) PROVE FALSE
  <2> DEFINE torn == [scan[q] EXCEPT !.at = "write alias"]
  <2>1. Go(q, torn) \/ Go(q, NextAlias(q)) \/ Go(q, Save(q, scan[q].hold))
    BY <1>12 DEF TruncateAlias, WriteAlias
  <2>2. torn.at # "done"
    BY <1>7 DEF Lookups
  <2> HIDE DEF torn
  <2> QED
    BY <1>3, <1>4, <1>5, <2>1, <2>2
<1>13. ASSUME Conclude(q) \/ Truncate(q) \/ Return(q) \/ Crash(q) PROVE FALSE
  <2> DEFINE torn == [scan[q] EXCEPT !.at = "write"]
  <2>1. Go(q, torn) \/ Go(q, Idle) \/ Go(q, Save(q, Conclusion(q)))
    BY <1>13 DEF Conclude, Truncate, Return, Crash
  <2>2. torn.at # "done" /\ Idle.at # "done"
    BY <1>7, IdleTyped DEF Lookups
  <2> HIDE DEF torn
  <2> QED
    BY <1>3, <1>4, <2>1, <2>2
<1>14. ASSUME NEW other PROVE Done(other).hold = other
  BY IdleTyped DEF Done, Lookups
<1>15. CASE Enrich(q)
  <2> DEFINE start == [Idle EXCEPT !.at = "OSV"]
             known == advisoryFile.whole /\ Within(advisoryFile, TTL(advisoryFile.is))
  <2>1. start.at # "done"
    BY IdleTyped DEF Lookups
  <2>2. Go(q, IF known THEN Done(advisoryFile.is) ELSE start)
    BY <1>15 DEF Enrich, Restored
  <2> HIDE DEF start
  <2>3. known /\ Go(q, Done(advisoryFile.is))
    BY <1>3, <2>1, <2>2
  <2>4. advisoryFile.is = result
    BY <1>3, <1>14, <2>3
  <2> QED
    BY <1>15, <2>3, <2>4 DEF Enrich, World
<1>16. CASE Write(q)
  <2>1. Go(q, Done(scan[q].hold)) /\ (At(q, "write") \/ At(q, "save"))
    BY <1>16 DEF Write
  <2>2. q = p /\ scan[q].hold = result
    BY <1>3, <1>14, <2>1
  <2> QED
    BY <1>16, <2>1, <2>2 DEF Write, World
<1> QED
  BY <1>2, <1>8, <1>9, <1>10, <1>11, <1>12, <1>13, <1>15, <1>16 DEF SeverityStep

(* What a scan is told of an advisory rests on recent answers.  Who is told*)
(* that it has no score: every source had none, as long ago as an unscored *)
(* answer is kept, and the record of an alias as much longer as that is    *)
(* kept.  Who is told that the lookup failed: a source did not answer, and *)
(* no longer ago than that failure is kept.                                *)
THEOREM SeverityTold == SeveritySpec => SeverityIsRecent
<1> DEFINE Scoreless == \A p \in Scans : Told(p, Unscored) => NoScore(FailTTL + MaxLookup)
           Failing ==
             \A p \in Scans, limited \in BOOLEAN : Told(p, Failed(limited)) =>
               FailedWithin(MaxLookup + (IF limited THEN RateLimitTTL ELSE FailTTL))
<1>1. SeverityInv /\ [SeverityNext]_severityVars => [Scoreless]_severityVars
  <2> SUFFICES ASSUME SeverityInv, SeverityNext, NEW p \in Scans, Told(p, Unscored)
               PROVE  NoScore(FailTTL + MaxLookup)
    OBVIOUS
  <2>1. ASSUME NEW n \in Nat, n <= FailTTL + MaxLookup, NoScore(n)
        PROVE  NoScore(FailTTL + MaxLookup)
    <3> SUFFICES ASSUME NEW s \in Sources PROVE Recent(s, (FailTTL + MaxLookup) + Wait(s))
      BY DEF NoScore
    <3>1. Recent(s, n + Wait(s)) /\ published[s].age \in Nat /\ Wait(s) \in Nat
      BY <2>1, LookupTimes DEF NoScore, SeverityInv, Wait
    <3> QED
      BY <2>1, <3>1, LookupTimes DEF Recent
  <2>2. CASE /\ advisoryFile.whole /\ Within(advisoryFile, TTL(Unscored))
             /\ advisoryFile.is = Unscored
    <3>1. TTL(Unscored) = FailTTL
      BY DEF TTL, Unscored
    <3>2. AdvisoryFileTrue(advisoryFile) /\ advisoryFile \in CacheEntries
      BY <2>2 DEF SeverityInv, AdvisoryFileTrue, Missing, Torn
    <3>3. advisoryFile.age <= FailTTL /\ advisoryFile.age \in Nat
      BY <2>2, <3>1, <3>2, EntryAges DEF Within
    <3>4. NoScore(advisoryFile.age + MaxLookup)
      BY <2>2, <3>2, <3>3 DEF AdvisoryFileTrue
    <3> QED
      BY <2>1, <3>3, <3>4, LookupTimes
  <2>3. CASE scan[p].at \in {"save", "write"} /\ scan[p].hold = Unscored
    <3>1. NoScore(scan[p].age) /\ scan[p].age \in 0..MaxLookup
      BY <2>3, LookupFacts DEF LookupTrue
    <3> QED
      BY <2>1, <3>1, LookupTimes
  <2> QED
    BY <2>2, <2>3, OnlyTheseTell DEF At
<1>2. SeverityInv /\ [SeverityNext]_severityVars => [Failing]_severityVars
  <2> SUFFICES ASSUME SeverityInv, SeverityNext, NEW p \in Scans, NEW limited \in BOOLEAN,
                      Told(p, Failed(limited))
               PROVE  FailedWithin(MaxLookup + (IF limited THEN RateLimitTTL ELSE FailTTL))
    OBVIOUS
  <2>1. PICK ttl : ttl = IF limited THEN RateLimitTTL ELSE FailTTL
    OBVIOUS
  <2>2. Failure(Failed(limited))
    BY DEF Failure
  <2>3. TTL(Failed(limited)) = ttl
    BY <2>1 DEF TTL, Failed
  <2>4. ttl \in Nat /\ ttl <= FailTTL
    BY <2>1, LookupTimes
  <2>5. ASSUME NEW n \in Nat, n <= MaxLookup + ttl, FailedWithin(n)
        PROVE  FailedWithin(MaxLookup + ttl)
    <3>1. outage \in Nat /\ MaxLookup + ttl \in Nat
      BY <2>4, LookupTimes DEF SeverityInv
    <3> QED
      BY <2>5, <3>1 DEF FailedWithin
  <2>6. ASSUME advisoryFile.whole, Within(advisoryFile, TTL(Failed(limited))),
               advisoryFile.is = Failed(limited)
        PROVE  FailedWithin(MaxLookup + ttl)
    <3>1. AdvisoryFileTrue(advisoryFile) /\ advisoryFile \in CacheEntries
      BY <2>6 DEF SeverityInv, AdvisoryFileTrue, Missing, Torn
    <3>2. advisoryFile.age <= ttl /\ advisoryFile.age \in Nat
      BY <2>3, <2>4, <2>6, <3>1, EntryAges DEF Within
    <3>3. advisoryFile.age <= FailTTL
      BY <2>4, <3>2, LookupTimes
    <3>4. FailedWithin(advisoryFile.age + MaxLookup)
      BY <2>2, <2>6, <3>1, <3>3 DEF AdvisoryFileTrue
    <3>5. /\ advisoryFile.age + MaxLookup \in Nat
          /\ advisoryFile.age + MaxLookup <= MaxLookup + ttl
      BY <2>4, <3>2, LookupTimes
    <3> QED
      BY <2>5, <3>4, <3>5
  <2>7. ASSUME scan[p].at \in {"save", "write"}, scan[p].hold = Failed(limited)
        PROVE  FailedWithin(MaxLookup + ttl)
    <3>1. FailedWithin(scan[p].age) /\ scan[p].age \in 0..MaxLookup
      BY <2>2, <2>7, LookupFacts DEF LookupTrue
    <3>2. scan[p].age \in Nat /\ scan[p].age <= MaxLookup + ttl
      BY <2>4, <3>1, LookupTimes
    <3> QED
      BY <2>5, <3>1, <3>2
  <2>8. FailedWithin(MaxLookup + ttl)
    BY <2>6, <2>7, OnlyTheseTell DEF At
  <2> QED
    BY <2>1, <2>8
<1>3. SeveritySpec => [][Scoreless]_severityVars
  BY <1>1, SeverityInvariant, PTL DEF SeveritySpec
<1>4. SeveritySpec => [][Failing]_severityVars
  BY <1>2, SeverityInvariant, PTL DEF SeveritySpec
<1> QED
  BY <1>3, <1>4 DEF SeverityIsRecent, UnscoredIsRecent, FailureIsRecent

-----------------------------------------------------------------------------
(* The facts store.                                                        *)

(* The state keeps its types: every time in a fact, a finding or a status  *)
(* was shown by the clock, or is no time at all (FactsStore's TypeOK).     *)
THEOREM Typed == Spec => []TypeOK
<1>1. Init => TypeOK
  <2> SUFFICES ASSUME Init PROVE TypeOK
    OBVIOUS
  <2>1. PICK first \in Analyses :
          job = [g \in Graders |-> [an |-> first, date |-> 0]]
    BY FactsAssumption DEF Init
  <2>2. /\ now = 1 /\ grades = 0
        /\ analysis = [a \in Analyses |-> NoFact]
        /\ advisory = NoFact /\ status = NoStatus
        /\ pc = [g \in Graders |-> "idle"]
        /\ vuln = [g \in Graders |-> [sev |-> 0, kev |-> 0]]
        /\ put = [g \in Graders |-> NoFact]
        /\ info = [g \in Graders |-> NoStatus]
        /\ overlapped = FALSE
    BY DEF Init
  <2>3. overlapped \in BOOLEAN
    BY <2>2
  <2> QED
    BY <2>1, <2>2, <2>3, FactsAssumption
    DEF TypeOK, NoFact, NoStatus, Times, Findings, Facts, Statuses
<1>2. TypeOK /\ [Next]_vars => TypeOK'
  <2> SUFFICES ASSUME TypeOK, [Next]_vars PROVE TypeOK'
    OBVIOUS
  <2> USE FactsAssumption DEF TypeOK, Times, Findings, Facts, Statuses,
          store, Goto, NoFact
  <2>1. CASE Tick
    BY <2>1 DEF Tick
  <2>2. ASSUME NEW a \in Analyses, Analyse(a) PROVE TypeOK'
    BY <2>2 DEF Analyse
  <2>3. ASSUME NEW g \in Graders, Begin(g) PROVE TypeOK'
    BY <2>3 DEF Begin
  <2>4. ASSUME NEW g \in Graders, ApplyAdvisories(g) PROVE TypeOK'
    <3> DEFINE v == IF Applies(g)
                    THEN [sev |-> Latest(advisory.sev, vuln[g].sev),
                          kev |-> Latest(advisory.kev, vuln[g].kev)]
                    ELSE vuln[g]
    <3>1. v \in Findings
      BY DEF Latest
    <3>2. /\ vuln' = [vuln EXCEPT ![g] = v]
          /\ pc' = [pc EXCEPT ![g] = "read"]
          /\ UNCHANGED <<now, analysis, advisory, status, job, put, info, grades,
                         overlapped>>
      BY <2>4 DEF ApplyAdvisories
    <3>3. overlapped' \in BOOLEAN
      BY <3>2
    <3> HIDE DEF v
    <3>4. vuln' \in [Graders -> Findings]
      BY <3>1, <3>2
    <3>5. pc' \in [Graders -> {"idle", "apply", "read", "put", "split",
                               "scan", "store"}]
      BY <3>2
    <3>6. /\ now' \in 1..MaxTime /\ grades' \in 0..MaxGrades
          /\ analysis' \in [Analyses -> Facts]
          /\ advisory' \in Facts /\ status' \in Statuses
          /\ job' \in [Graders -> [an : Analyses, date : Times]]
          /\ put' \in [Graders -> Facts]
          /\ info' \in [Graders -> Statuses]
      BY <3>2
    <3> QED
      BY <3>3, <3>4, <3>5, <3>6
  <2>5. ASSUME NEW g \in Graders, ReadAdvisory(g) PROVE TypeOK'
    <3>1. CASE advisory.at >= Analysed(g)
      <4>1. /\ pc' = [pc EXCEPT ![g] = "split"]
            /\ UNCHANGED <<now, analysis, advisory, status, job, vuln, put,
                           info, grades, overlapped>>
        BY <2>5, <3>1 DEF ReadAdvisory
      <4> QED
        BY <4>1
    <3>2. CASE ~(advisory.at >= Analysed(g))
      <4> DEFINE p == [at |-> Analysed(g),
                       sev |-> Latest(vuln[g].sev, advisory.sev),
                       kev |-> Latest(vuln[g].kev, advisory.kev)]
      <4>1. p \in Facts
        BY DEF Latest, Analysed
      <4>2. /\ put' = [put EXCEPT ![g] = p]
            /\ pc' = [pc EXCEPT ![g] = "put"]
            /\ UNCHANGED <<now, analysis, advisory, status, job, vuln, info,
                           grades, overlapped>>
        BY <2>5, <3>2 DEF ReadAdvisory
      <4> HIDE DEF p
      <4> QED
        BY <4>1, <4>2
    <3> QED
      BY <3>1, <3>2
  <2>6. ASSUME NEW g \in Graders, PutAdvisory(g) PROVE TypeOK'
    <3>1. NoFact \in Facts
      OBVIOUS
    <3> QED
      BY <2>6, <3>1 DEF PutAdvisory
  <2>7. ASSUME NEW g \in Graders, SplitModules(g) PROVE TypeOK'
    <3>1. /\ info' \in {info, [info EXCEPT ![g] = status]}
          /\ \E l \in {"idle", "scan"} : pc' = [pc EXCEPT ![g] = l]
          /\ UNCHANGED <<now, analysis, advisory, status, job, vuln, put, grades,
                         overlapped>>
      BY <2>7 DEF SplitModules
    <3>2. info' \in [Graders -> Statuses]
      <4> HIDE DEF Statuses
      <4>1. info \in [Graders -> Statuses] /\ status \in Statuses
        OBVIOUS
      <4> QED
        BY <3>1, <4>1
    <3>3. pc' \in [Graders -> {"idle", "apply", "read", "put", "split",
                               "scan", "store"}]
      BY <3>1
    <3> QED
      BY <3>1, <3>2, <3>3
  <2>8. ASSUME NEW g \in Graders, ScanModules(g) PROVE TypeOK'
    BY <2>8 DEF ScanModules
  <2>9. ASSUME NEW g \in Graders, StoreModules(g) PROVE TypeOK'
    BY <2>9 DEF StoreModules
  <2>10. CASE UNCHANGED vars
    BY <2>10 DEF vars
  <2> QED
    BY <2>1, <2>2, <2>3, <2>4, <2>5, <2>6, <2>7, <2>8, <2>9, <2>10
       DEF Next, Grader
<1> QED
  BY <1>1, <1>2, PTL DEF Spec

-----------------------------------------------------------------------------
(* Every step of any grade, overlapping or not, keeps Complete.            *)
LEMMA CompleteStep == ASSUME TypeOK, Complete, [Next]_vars PROVE Complete'
<1> USE FactsAssumption DEF TypeOK, Complete, WholeAnalyses, Times, Findings,
        Facts, store, Goto, NoFact, Analysed
<1>1. CASE Tick
  BY <1>1 DEF Tick
<1>2. ASSUME NEW a \in Analyses, Analyse(a) PROVE Complete'
  BY <1>2 DEF Analyse
<1>3. ASSUME NEW g \in Graders, Begin(g) PROVE Complete'
  <2>1. PICK a \in Analyses, d \in 1..now :
          /\ analysis[a] # NoFact
          /\ job' = [job EXCEPT ![g] = [an |-> a, date |-> d]]
          /\ vuln' = [vuln EXCEPT ![g] =
                        [sev |-> analysis[a].sev, kev |-> analysis[a].kev]]
    BY <1>3 DEF Begin
  <2>2. /\ pc' = [pc EXCEPT ![g] = "apply"]
        /\ UNCHANGED <<analysis, advisory, put>>
    BY <1>3 DEF Begin
  <2> QED
    BY <2>1, <2>2
<1>4. ASSUME NEW g \in Graders, ApplyAdvisories(g) PROVE Complete'
  <2>1. CASE Applies(g)
    BY <1>4, <2>1 DEF ApplyAdvisories, Applies, Latest
  <2>2. CASE ~Applies(g)
    BY <1>4, <2>2 DEF ApplyAdvisories
  <2> QED
    BY <2>1, <2>2
<1>5. ASSUME NEW g \in Graders, ReadAdvisory(g) PROVE Complete'
  <2> DEFINE p == [at |-> Analysed(g),
                   sev |-> Latest(vuln[g].sev, advisory.sev),
                   kev |-> Latest(vuln[g].kev, advisory.kev)]
  <2>1. WholeAnalyses => p.sev >= p.at /\ p.kev >= p.at
    BY <1>5 DEF ReadAdvisory, Latest
  <2>2. /\ put' \in {put, [put EXCEPT ![g] = p]}
        /\ pc[g] # "idle"
        /\ \E l \in {"split", "put"} : pc' = [pc EXCEPT ![g] = l]
        /\ UNCHANGED <<analysis, advisory, job, vuln>>
    BY <1>5 DEF ReadAdvisory
  <2> HIDE DEF p
  <2> QED
    BY <2>1, <2>2
<1>6. ASSUME NEW g \in Graders, PutAdvisory(g) PROVE Complete'
  BY <1>6 DEF PutAdvisory
<1>7. ASSUME NEW g \in Graders, SplitModules(g) PROVE Complete'
  BY <1>7 DEF SplitModules
<1>8. ASSUME NEW g \in Graders, ScanModules(g) PROVE Complete'
  BY <1>8 DEF ScanModules
<1>9. ASSUME NEW g \in Graders, StoreModules(g) PROVE Complete'
  BY <1>9 DEF StoreModules
<1>10. CASE UNCHANGED vars
  BY <1>10 DEF vars
<1> QED
  BY <1>1, <1>2, <1>3, <1>4, <1>5, <1>6, <1>7, <1>8, <1>9, <1>10
     DEF Next, Grader

(* However many grades overlap, none uses a reading older than the one its *)
(* analysis made, as long as every analysis learns everything              *)
(* (regrade_facts.go:104-105).                                             *)
THEOREM OwnReadingIsKept == Spec => []OwnReadingKept
<1>1. Init => Complete
  BY DEF Init, Complete, NoFact
<1>2. TypeOK /\ Complete /\ [Next]_vars => Complete'
  BY CompleteStep
<1>3. TypeOK /\ Complete => OwnReadingKept
  BY DEF TypeOK, Complete, WholeAnalyses, OwnReadingKept, Analysed
<1> QED
  BY <1>1, <1>2, <1>3, Typed, PTL DEF Spec

-----------------------------------------------------------------------------
(* Every step keeps OneAtATime: while grades have not overlapped, only the *)
(* grade that is under way writes the store.                               *)
LEMMA OneAtATimeStep == ASSUME TypeOK, OneAtATime, [Next]_vars PROVE OneAtATime'
<1> USE FactsAssumption DEF TypeOK, OneAtATime, Times, Findings, Facts,
        store, Goto, NoFact, Analysed, Own
<1>1. CASE Tick
  BY <1>1 DEF Tick
<1>2. ASSUME NEW a \in Analyses, Analyse(a) PROVE OneAtATime'
  BY <1>2 DEF Analyse
<1>3. ASSUME NEW g \in Graders, Begin(g) PROVE OneAtATime'
  <2>1. PICK a \in Analyses, d \in 1..now :
          /\ analysis[a] # NoFact
          /\ job' = [job EXCEPT ![g] = [an |-> a, date |-> d]]
          /\ vuln' = [vuln EXCEPT ![g] =
                        [sev |-> analysis[a].sev, kev |-> analysis[a].kev]]
    BY <1>3 DEF Begin
  <2>2. /\ pc' = [pc EXCEPT ![g] = "apply"]
        /\ UNCHANGED <<analysis, advisory, put>>
    BY <1>3 DEF Begin
  <2>3. ~overlapped' => ~overlapped /\ \A h \in Graders : pc[h] = "idle"
    BY <1>3 DEF Begin
  <2> QED
    BY <2>1, <2>2, <2>3
<1>4. ASSUME NEW g \in Graders, ApplyAdvisories(g) PROVE OneAtATime'
  <2>1. CASE Applies(g)
    BY <1>4, <2>1 DEF ApplyAdvisories, Applies
  <2>2. CASE ~Applies(g)
    BY <1>4, <2>2 DEF ApplyAdvisories
  <2> QED
    BY <2>1, <2>2
<1>5. ASSUME NEW g \in Graders, ReadAdvisory(g) PROVE OneAtATime'
  <2>1. CASE advisory.at >= Analysed(g)
    BY <1>5, <2>1 DEF ReadAdvisory
  <2>2. CASE ~(advisory.at >= Analysed(g))
    <3> DEFINE p == [at |-> Analysed(g),
                     sev |-> Latest(vuln[g].sev, advisory.sev),
                     kev |-> Latest(vuln[g].kev, advisory.kev)]
    <3>1. ~overlapped =>
            /\ p.at > advisory.at
            /\ advisory.sev <= p.sev /\ p.sev <= p.at
            /\ advisory.kev <= p.kev /\ p.kev <= p.at
      BY <1>5, <2>2 DEF ReadAdvisory, Latest
    <3>2. /\ put' = [put EXCEPT ![g] = p]
          /\ pc[g] = "read" /\ pc' = [pc EXCEPT ![g] = "put"]
          /\ UNCHANGED <<analysis, advisory, job, vuln, overlapped>>
      BY <1>5, <2>2 DEF ReadAdvisory
    <3> HIDE DEF p
    <3> QED
      BY <3>1, <3>2
  <2> QED
    BY <2>1, <2>2
<1>6. ASSUME NEW g \in Graders, PutAdvisory(g) PROVE OneAtATime'
  BY <1>6 DEF PutAdvisory
<1>7. ASSUME NEW g \in Graders, SplitModules(g) PROVE OneAtATime'
  <2>1. /\ pc[g] = "split"
        /\ \E l \in {"idle", "scan"} : pc' = [pc EXCEPT ![g] = l]
        /\ UNCHANGED <<analysis, advisory, job, vuln, put, overlapped>>
    BY <1>7 DEF SplitModules
  <2> QED
    BY <2>1
<1>8. ASSUME NEW g \in Graders, ScanModules(g) PROVE OneAtATime'
  BY <1>8 DEF ScanModules
<1>9. ASSUME NEW g \in Graders, StoreModules(g) PROVE OneAtATime'
  BY <1>9 DEF StoreModules
<1>10. CASE UNCHANGED vars
  BY <1>10 DEF vars
<1> QED
  BY <1>1, <1>2, <1>3, <1>4, <1>5, <1>6, <1>7, <1>8, <1>9, <1>10
     DEF Next, Grader

(* OneAtATime holds in every behaviour.                                    *)
LEMMA OneAtATimeInv == Spec => []OneAtATime
<1>1. Init => OneAtATime
  BY DEF Init, OneAtATime, NoFact
<1>2. TypeOK /\ OneAtATime /\ [Next]_vars => OneAtATime'
  BY OneAtATimeStep
<1> QED
  BY <1>1, <1>2, Typed, PTL DEF Spec

(* A step that changes the store's advisory is a put, and the fact it puts *)
(* is newer than the store's and knows all it knows.                       *)
LEMMA PutImproves ==
  ASSUME TypeOK, OneAtATime, Next, ~overlapped'
  PROVE  /\ advisory'.at >= advisory.at
         /\ advisory'.sev >= advisory.sev
         /\ advisory'.kev >= advisory.kev
<1>1. CASE advisory' = advisory
  BY <1>1 DEF TypeOK, Facts, Times
<1>2. CASE \E g \in Graders : PutAdvisory(g)
  BY <1>2 DEF PutAdvisory, OneAtATime, TypeOK, Facts, Times
<1> QED
  BY <1>1, <1>2 DEF Next, Grader, Tick, Analyse, Begin, ApplyAdvisories,
     ReadAdvisory, SplitModules, ScanModules, StoreModules, store

(* While grades do not overlap, no fact is replaced by an older one:       *)
(* "unless the store already has something newer" (regrade_facts.go:       *)
(* 128-129).                                                               *)
THEOREM NewerStays == Spec => NewerFactStaysAlone
<1>1. TypeOK /\ OneAtATime /\ [Next]_vars
        => [~overlapped' => advisory'.at >= advisory.at]_vars
  BY PutImproves
<1> QED
  BY <1>1, OneAtATimeInv, Typed, PTL DEF Spec, NewerFactStaysAlone

(* While grades do not overlap, the store never goes back to an older      *)
(* reading, nor to none (regrade_facts.go:151).                            *)
THEOREM NothingIsForgotten == Spec => NothingForgotten
<1>1. TypeOK /\ OneAtATime /\ [Next]_vars
        => [~overlapped' => /\ advisory'.sev >= advisory.sev
                            /\ advisory'.kev >= advisory.kev]_vars
  BY PutImproves
<1> QED
  BY <1>1, OneAtATimeInv, Typed, PTL DEF Spec, NothingForgotten

-----------------------------------------------------------------------------
(* Every step keeps the labels honest: a status is labelled with the date  *)
(* of its grade, which the clock had reached, and only a whole one is      *)
(* stored.                                                                 *)
LEMMA HonestLabelsStep ==
  ASSUME TypeOK, HonestLabels, [Next]_vars PROVE HonestLabels'
<1> USE DEF TypeOK, HonestLabels, Times, Statuses, store, Goto
<1>1. CASE Tick
  BY <1>1 DEF Tick
<1>2. ASSUME NEW a \in Analyses, Analyse(a) PROVE HonestLabels'
  BY <1>2 DEF Analyse
<1>3. ASSUME NEW g \in Graders, Begin(g) PROVE HonestLabels'
  BY <1>3 DEF Begin
<1>4. ASSUME NEW g \in Graders,
             ApplyAdvisories(g) \/ ReadAdvisory(g) \/ PutAdvisory(g)
      PROVE  HonestLabels'
  <2>1. UNCHANGED <<now, job, info, status>>
    BY <1>4 DEF ApplyAdvisories, ReadAdvisory, PutAdvisory
  <2> QED
    BY <2>1
<1>5. ASSUME NEW g \in Graders, SplitModules(g) PROVE HonestLabels'
  <2>1. /\ info' = info \/ info' = [info EXCEPT ![g] = status]
        /\ UNCHANGED <<now, job, status>>
    BY <1>5 DEF SplitModules
  <2> QED
    BY <2>1
<1>6. ASSUME NEW g \in Graders, ScanModules(g) PROVE HonestLabels'
  BY <1>6 DEF ScanModules
<1>7. ASSUME NEW g \in Graders, StoreModules(g) PROVE HonestLabels'
  BY <1>7 DEF StoreModules
<1>8. CASE UNCHANGED vars
  BY <1>8 DEF vars
<1> QED
  BY <1>1, <1>2, <1>3, <1>4, <1>5, <1>6, <1>7, <1>8 DEF Next, Grader

(* HonestLabels holds in every behaviour.                                  *)
LEMMA HonestLabelsInv == Spec => []HonestLabels
<1>1. ASSUME Init PROVE HonestLabels
  <2>1. PICK a : job = [g \in Graders |-> [an |-> a, date |-> 0]]
    BY <1>1 DEF Init
  <2>2. \A g \in Graders : job[g].date = 0
    BY <2>1
  <2>3. /\ now = 1 /\ status = NoStatus
        /\ info = [g \in Graders |-> NoStatus]
    BY <1>1 DEF Init
  <2> QED
    BY <2>2, <2>3 DEF HonestLabels, NoStatus
<1>2. TypeOK /\ HonestLabels /\ [Next]_vars => HonestLabels'
  BY HonestLabelsStep
<1> QED
  BY <1>1, <1>2, Typed, PTL DEF Spec

(* A status a grade takes from the store instead of a scan was complete,   *)
(* and read no longer before the grade's date than the policy allows,      *)
(* however grades of other days overlap (splitModules, putModule).         *)
THEOREM StatusIsFreshAndWhole == Spec => StatusFreshAndWhole
<1> DEFINE Taken == \A g \in Graders : pc[g] = "split" /\ pc'[g] = "idle" =>
                      info'[g].whole /\ job[g].date <= info'[g].read + MaxAge
<1>1. TypeOK /\ HonestLabels /\ [Next]_vars => [Taken]_vars
  <2> SUFFICES ASSUME TypeOK, HonestLabels, Next,
                      NEW g \in Graders, pc[g] = "split", pc'[g] = "idle"
               PROVE  info'[g].whole /\ job[g].date <= info'[g].read + MaxAge
    OBVIOUS
  <2>1. SplitModules(g)
    BY DEF Next, Grader, Tick, Analyse, Begin, ApplyAdvisories, ReadAdvisory,
           PutAdvisory, SplitModules, ScanModules, StoreModules, Goto, TypeOK
  <2>2. Fresh(status.at, job[g].date) /\ info'[g] = status
    BY <2>1 DEF SplitModules, Goto, TypeOK
  <2> QED
    BY <2>2, FactsAssumption
    DEF Fresh, HonestLabels, TypeOK, Statuses, Times
<1> QED
  BY <1>1, HonestLabelsInv, Typed, PTL DEF Spec, StatusFreshAndWhole
=============================================================================
