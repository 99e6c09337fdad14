---------------------------- MODULE SeverityLookup ----------------------------
(***************************************************************************)
(* pkg/scanner/vulnenrich.go: the severity of an advisory that govulncheck *)
(* reports as UNKNOWN, asked of OSV, of the OSV records of its aliases, of *)
(* NVD and of GitHub, in that order, through a cache on disk that any      *)
(* number of scans share.  An answer without a severity is remembered, as  *)
(* is a failure, each for its own time.                                    *)
(*                                                                         *)
(* One advisory is modelled: the cache files of two share nothing but the  *)
(* records of aliases, and those are asked for in the same way.  Dates,    *)
(* warnings and the calculation of a CVSS score are left out.              *)
(***************************************************************************)
EXTENDS CacheFiles, Sequences, FiniteSets

CONSTANTS Scans,
          GHSAs, CVEs,         \* v.Aliases of either kind, well-formed, in ascending order
          MaxAliasLookups,
          FailTTL,             \* cacheFailTTL
          RateLimitTTL,        \* cacheRateLimitFailTTL
          Tiers, Changing,     \* what a source may publish, and which of them may
          MaxChanges           \* bound: how often the sources change what they publish

ASSUME SeverityAssumption == /\ RateLimitTTL \in Nat /\ FailTTL \in Nat
                             /\ RateLimitTTL <= FailTTL /\ FailTTL <= CacheTTL
                             /\ FailTTL + MaxLookup < Old
                             /\ GHSAs \in Seq(STRING) /\ CVEs \in Seq(STRING)
                             /\ MaxAliasLookups \in Nat \ {0}

VARIABLES published,       \* [Sources -> tier, age]: what a source says, and for how long
          changes,
          outage,          \* how long ago a source last failed to answer
          advisoryFile, aliasFile,
          scan             \* [Scans -> at, age, alias, all, limited, hold]
severityVars == <<published, changes, outage, advisoryFile, aliasFile, scan>>

NoTier == ""

-----------------------------------------------------------------------------
(* aliasCandidates *)

UpTo(s, n) == SubSeq(s, 1, IF n < Len(s) THEN n ELSE Len(s))

Candidates ==
  LET first == IF CVEs # <<>> THEN UpTo(GHSAs, MaxAliasLookups - 1) ELSE GHSAs
  IN  UpTo(first \o CVEs, MaxAliasLookups)

Asked == {Candidates[i] : i \in DOMAIN Candidates}

\* Whose answers a severity is looked for in: OSV's record of the advisory, its records of the
\* aliases, and what NVD and GitHub know of the CVE, if there is one.
Sources == {"OSV"} \union Asked \union IF CVEs = <<>> THEN {} ELSE {"NVD", "GitHub", CVEs[1]}

-----------------------------------------------------------------------------
(* The cache *)

Scored(tier) == [kind |-> "scored", tier |-> tier]
Unscored == [kind |-> "unscored", tier |-> NoTier]
Failed(limited) == [kind |-> IF limited THEN "rate limited" ELSE "failed", tier |-> NoTier]
Nothing == [kind |-> "", tier |-> NoTier]

\* Mutant: an unscored answer lives as long as a severity.
TTLUnscoredLong(result) ==
  CASE result.kind = "rate limited" -> RateLimitTTL
    [] result.kind = "failed" -> FailTTL
    [] OTHER -> CacheTTL
TTL(result) ==
  CASE result.kind = "rate limited" -> RateLimitTTL
    [] result.kind \in {"failed", "unscored"} -> FailTTL
    [] OTHER -> CacheTTL

Restored(result) == result

Idle == [at |-> "idle", age |-> 0, alias |-> 0, all |-> TRUE, limited |-> FALSE, hold |-> Nothing]

SeverityInit ==
  /\ published = [s \in Sources |-> [tier |-> NoTier, age |-> Old]]
  /\ changes = 0
  /\ outage = Old
  /\ advisoryFile = Missing
  /\ aliasFile = [a \in Asked |-> Missing]
  /\ scan = [p \in Scans |-> Idle]

At(p, l) == scan[p].at = l
Active(p) == scan[p].at \notin {"idle", "done"}
Go(p, f) == scan' = [scan EXCEPT ![p] = f]
Done(result) == [Idle EXCEPT !.at = "done", !.hold = result]

World == <<published, changes>>
Files == <<advisoryFile, aliasFile>>

\* Enrich is called, and reads the cache.
Enrich(p) ==
  /\ At(p, "idle")
  /\ Go(p, IF advisoryFile.whole /\ Within(advisoryFile, TTL(advisoryFile.is))
           THEN Done(Restored(advisoryFile.is))
           ELSE [Idle EXCEPT !.at = "OSV"])
  /\ UNCHANGED <<World, outage, Files>>
\* The scan has taken the result, and goes on to the next advisory or ends.
Return(p) ==
  /\ At(p, "done")
  /\ Go(p, Idle)
  /\ UNCHANGED <<World, outage, Files>>

-----------------------------------------------------------------------------
(* The sources *)

Save(p, result) == [Idle EXCEPT !.at = "save", !.age = scan[p].age, !.hold = result]
NextAlias(p) == [scan[p] EXCEPT !.at = "alias", !.alias = @ + 1, !.hold = Nothing]

\* What a scan does next when the source it asked has no severity, or did not answer.
GoOn(p) ==
  CASE At(p, "OSV") -> NextAlias(p)
    [] At(p, "NVD") -> [scan[p] EXCEPT !.at = "GitHub"]
    [] At(p, "GitHub") -> [scan[p] EXCEPT !.at = "conclude"]

Answers(p, s) ==
  /\ At(p, s)
  /\ Go(p, IF published[s].tier = NoTier THEN GoOn(p) ELSE Save(p, Scored(published[s].tier)))
  /\ UNCHANGED <<World, outage, Files>>

\* Bound: there are no failures for as long as the last ones are remembered.
Fails(p, s) ==
  /\ At(p, s)
  /\ outage \in {0, Old}
  /\ outage' = 0
  /\ \E limited \in IF s = "NVD" THEN BOOLEAN ELSE {FALSE} :
       Go(p, [GoOn(p) EXCEPT !.all = FALSE, !.limited = @ \/ limited])
  /\ UNCHANGED <<World, Files>>

\* lookupAliases: the cached record of the next alias, or a request for it.
NextCandidate(p) == Candidates[scan[p].alias]
AliasKnown(file) == Within(file, CacheTTL)
LoadAliasCache(p) ==
  /\ At(p, "alias")
  /\ IF scan[p].alias > Len(Candidates)
     THEN Go(p, [scan[p] EXCEPT !.at = IF CVEs = <<>> THEN "conclude" ELSE "NVD"])
     ELSE LET file == aliasFile[NextCandidate(p)]
          IN  IF AliasKnown(file)
              THEN Go(p, IF file.is.tier = NoTier THEN NextAlias(p) ELSE Save(p, file.is))
              ELSE Go(p, [scan[p] EXCEPT !.at = "ask alias"])
  /\ UNCHANGED <<World, outage, Files>>
AliasAnswers(p) ==
  /\ At(p, "ask alias")
  /\ Go(p, [scan[p] EXCEPT !.at = "save alias", !.hold = Scored(published[NextCandidate(p)].tier)])
  /\ UNCHANGED <<World, outage, Files>>
AliasFails(p) ==
  /\ At(p, "ask alias")
  /\ outage \in {0, Old}
  /\ outage' = 0
  /\ Go(p, [NextAlias(p) EXCEPT !.all = FALSE])
  /\ UNCHANGED <<World, Files>>

\* No source has a severity, or one of them did not answer.
Conclusion(p) == IF scan[p].all THEN Unscored ELSE Failed(scan[p].limited)
Conclude(p) ==
  /\ At(p, "conclude")
  /\ Go(p, Save(p, Conclusion(p)))
  /\ UNCHANGED <<World, outage, Files>>

-----------------------------------------------------------------------------
(* saveAliasCache and saveCache: the file is truncated, then written; nothing is written when the *)
(* directory cannot be made.  No error of theirs is looked at.                                    *)

TruncateAlias(p) ==
  /\ At(p, "save alias")
  /\ aliasFile' = [aliasFile EXCEPT ![NextCandidate(p)] = Torn]
  /\ Go(p, [scan[p] EXCEPT !.at = "write alias"])
  /\ UNCHANGED <<World, outage, advisoryFile>>
WriteAlias(p) ==
  LET a == NextCandidate(p)
  IN  /\ \/ /\ At(p, "write alias")
            /\ \E file \in Written(FileEntry(scan[p].hold)) :
                 aliasFile' = [aliasFile EXCEPT ![a] = file]
         \/ /\ At(p, "save alias")
            /\ UNCHANGED aliasFile
      /\ Go(p, IF scan[p].hold.tier = NoTier THEN NextAlias(p) ELSE Save(p, scan[p].hold))
      /\ UNCHANGED <<World, outage, advisoryFile>>

Truncate(p) ==
  /\ At(p, "save")
  /\ advisoryFile' = Torn
  /\ Go(p, [scan[p] EXCEPT !.at = "write"])
  /\ UNCHANGED <<World, outage, aliasFile>>
Write(p) ==
  /\ \/ /\ At(p, "write")
        /\ advisoryFile' \in Written(FileEntry(scan[p].hold))
     \/ /\ At(p, "save")
        /\ UNCHANGED advisoryFile
  /\ Go(p, Done(scan[p].hold))
  /\ UNCHANGED <<World, outage, aliasFile>>

\* The process is killed; what it had truncated stays so.
Crash(p) ==
  /\ Active(p)
  /\ Go(p, Idle)
  /\ UNCHANGED <<World, outage, Files>>

-----------------------------------------------------------------------------
\* A source publishes a severity, or another one.
Publish(s, tier) ==
  /\ changes < MaxChanges
  /\ tier # published[s].tier
  /\ published' = [published EXCEPT ![s] = [tier |-> tier, age |-> 0]]
  /\ changes' = changes + 1
  /\ UNCHANGED <<outage, Files, scan>>

\* A lookup does not last longer than MaxLookup, and a file is written within a tick.
SeverityTick ==
  /\ \A p \in Scans : scan[p].age < MaxLookup /\ scan[p].at \notin {"write", "write alias", "done"}
  /\ published' = [s \in Sources |-> [published[s] EXCEPT !.age = Older(@)]]
  /\ outage' = IF outage < FailTTL + MaxLookup THEN outage + 1 ELSE Old
  /\ advisoryFile' = OlderFile(advisoryFile, CacheTTL)
  /\ aliasFile' = [a \in Asked |-> OlderFile(aliasFile[a], CacheTTL)]
  /\ scan' = [p \in Scans |-> IF Active(p) THEN [scan[p] EXCEPT !.age = @ + 1] ELSE scan[p]]
  /\ UNCHANGED changes

SeverityStep(p) ==
  \/ Enrich(p) \/ Return(p)
  \/ \E s \in {"OSV", "NVD", "GitHub"} : Answers(p, s) \/ Fails(p, s)
  \/ LoadAliasCache(p) \/ AliasAnswers(p) \/ AliasFails(p)
  \/ TruncateAlias(p) \/ WriteAlias(p)
  \/ Conclude(p) \/ Truncate(p) \/ Write(p) \/ Crash(p)
SeverityNext ==
  \/ \E p \in Scans : SeverityStep(p)
  \/ \E s \in Changing, tier \in Tiers : Publish(s, tier)
  \/ SeverityTick

SeveritySpec == SeverityInit /\ [][SeverityNext]_severityVars

-----------------------------------------------------------------------------
\* A source had no severity, or has had one for no longer than this.
Recent(s, ticks) == published[s].tier = NoTier \/ published[s].age <= ticks
\* How old the record of an alias may be when it is used for an advisory.
Wait(s) == IF s \in Asked THEN CacheTTL + MaxLookup ELSE 0
NoScore(ticks) == \A s \in Sources : Recent(s, ticks + Wait(s))
\* A source did not answer, no longer ago than this.
FailedWithin(ticks) == outage # Old /\ outage <= ticks
\* A call of Enrich ends with this result.
Told(p, result) == ~At(p, "done") /\ scan'[p].at = "done" /\ scan'[p].hold = result

\* An advisory is reported as unscored only if every source had no severity when it was asked last,
\* the record of its CVE among them however many aliases there are, and that was not long ago: the
\* time an unscored answer is remembered and, for the record of an alias, the time that is, one
\* after the other, with the time of each lookup.  The comment in loadCache ("rechecking hourly
\* picks it up sooner") holds for a score that the advisory's own record, NVD or GitHub publishes;
\* one in an alias record is found after a day only.
UnscoredIsRecent ==
  [][\A p \in Scans : Told(p, Unscored) => NoScore(FailTTL + MaxLookup)]_severityVars

\* A lookup is reported as failed only if a source did not answer, and that was not long ago; a torn
\* file, an unscored answer or a scan that was killed is no failure.
FailureIsRecent ==
  [][\A p \in Scans, limited \in BOOLEAN : Told(p, Failed(limited)) =>
       FailedWithin(MaxLookup + (IF limited THEN RateLimitTTL ELSE FailTTL))]_severityVars

(* What a scan is told of an advisory rests on recent answers: a scan that  *)
(* is told it has no score, or that its lookup failed, is told so from      *)
(* requests no older than a kept answer may be.                             *)
SeverityIsRecent == UnscoredIsRecent /\ FailureIsRecent
=============================================================================
