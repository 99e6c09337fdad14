----------------------------- MODULE UpkeepLookup -----------------------------
(***************************************************************************)
(* What a scan learns of the upkeep of one module from the module proxy    *)
(* (pkg/scanner/maintenance.go, activity.go), with the answers it keeps on *)
(* disk for a day (maintainer_cache.go) and the commit lookup at GitHub    *)
(* that stands in for the proxy (MaintainerScanner.LatestCommit).          *)
(*                                                                         *)
(* Scans are processes that share the disk and may be killed.  The proxy   *)
(* may fail any request; it answers a fetch of its own that timed out or   *)
(* that the host failed with a 404, which may look like "there is none"    *)
(* (FailedFetches says for which requests this happens here).  Time is     *)
(* counted in days, and a commit by its day.  The release times, the age of the pinned version    *)
(* and the version list that tells a 410 from a 404 (checkDeprecation) are *)
(* left out.                                                               *)
(***************************************************************************)
EXTENDS Integers, FiniteSets, Sequences

CONSTANTS
  UpkeepScans,
  Tokens,        \* whether the scans have a GitHub token: a subset of BOOLEAN
  FailedFetches, \* the requests that may be answered with a 404 for a failed fetch
  MaxDay         \* bound: the days of a behaviour

ASSUME TokensAssumption == Tokens \subseteq BOOLEAN

Notices == {"none", "deprecated", "retracted"}
Branches == {"main", "master", "v2"}
UsableBranchQuery(branch) == branch # "v2"     \* usableBranchQuery: the proxy reads v2 as a version
FallbackBranches == <<"main", "master">>

VARIABLES
  world,         \* the module and its repository, which the proxy and GitHub know
  newest,        \* its newest tagged version: 0 (none), 1 (the pinned one) or 2
  today,
  head,          \* the day of the latest commit, the same on every branch
  midnights,     \* head at the last midnight, and at the one before
  disk,          \* [file -> its age, whether it is there, the commit it tells]
  upkeep         \* [UpkeepScans -> at, began, info, left, answer]

upkeepVars == <<world, newest, today, head, midnights, disk, upkeep>>

maintainerCacheTTL == 1
UpkeepFiles == {"mod1", "mod2", "main", "master"}
NoFile == [age |-> 0, there |-> FALSE, is |-> -1]

(* Mutant: the age of a file is not looked at.                              *)
FreshHoweverOld(file) == file.there

(* maintainerCache.Get                                                      *)
FreshFile(file) == file.there /\ file.age <= maintainerCacheTTL
ModFile(version) == IF version = 1 THEN "mod1" ELSE "mod2"

NoInfo == [pinned |-> FALSE, latest |-> 0, deprecated |-> FALSE, retracted |-> FALSE,
           modCheckFailed |-> FALSE, activity |-> -1, via |-> "none", floor |-> -1,
           counted |-> FALSE, unlisted |-> FALSE]
NotScanning == [at |-> "idle", began |-> 0, info |-> NoInfo, left |-> <<>>, put |-> "none",
                then |-> "idle"]

UpkeepInit ==
  /\ world \in [notice : Notices, default : Branches, holds : SUBSET {"main", "master"},
                archived : BOOLEAN, token : Tokens]
  /\ newest \in 0..1
  /\ today = 0
  /\ head = 0
  /\ midnights = <<0, 0>>
  /\ disk = [f \in UpkeepFiles |-> NoFile]
  /\ upkeep = [s \in UpkeepScans |-> NotScanning]

AtPlace(s, place) == upkeep[s].at = place
Becomes(s, local) == upkeep' = [upkeep EXCEPT ![s] = local]
Goes(s, place, info) == Becomes(s, [upkeep[s] EXCEPT !.at = place, !.info = info])
Keeps(s, file, place, info) ==
  Becomes(s, [upkeep[s] EXCEPT !.at = "remove", !.put = file, !.then = place, !.info = info])
Info(s) == upkeep[s].info
Elsewhere == UNCHANGED <<world, newest, today, head, midnights, disk>>

-----------------------------------------------------------------------------
(* checkModule.                                                            *)

BeginUpkeep(s) ==
  /\ AtPlace(s, "idle")
  /\ Becomes(s, [NotScanning EXCEPT !.at = "version", !.began = newest])

FetchVersionInfo(s) ==
  /\ AtPlace(s, "version")
  /\ \E answered \in BOOLEAN : Goes(s, "latest", [NoInfo EXCEPT !.pinned = answered])

(* @latest: a version, no tagged release, or no answer.                     *)
LatestInfo(s) ==
  IF newest = 0 THEN {"no tags", "failed"}
  ELSE {"answered", "failed"} \cup (IF "latest" \in FailedFetches THEN {"no tags"} ELSE {})

(* Mutant: the pinned version stands in whenever @latest has no answer.     *)
StandsInAlways(outcome, pinned) == outcome # "answered" /\ pinned

(* No tagged release is an answer: the pinned version stands in for it.     *)
StandsIn(outcome, pinned) == outcome = "no tags" /\ pinned

FetchLatestInfo(s) ==
  /\ AtPlace(s, "latest")
  /\ \E outcome \in LatestInfo(s) :
       LET info == Info(s)
           latest == IF outcome = "answered" THEN newest
                     ELSE IF StandsIn(outcome, info.pinned) THEN 1 ELSE 0
       IN IF ~info.pinned /\ latest = 0
          THEN Goes(s, "no data", info)
          ELSE Goes(s, "notices", [info EXCEPT !.latest = latest])

(* The go.mod of the latest version, from the disk or the proxy.  What does *)
(* not parse is not kept.  The newer version may deprecate the module or    *)
(* retract the pinned one.                                                  *)
NoticeOf(version) == IF version = 2 THEN world.notice ELSE "none"
Noticed(info) ==
  [info EXCEPT !.deprecated = NoticeOf(info.latest) = "deprecated",
               !.retracted = NoticeOf(info.latest) = "retracted"]

CheckGoModDeprecation(s) ==
  /\ AtPlace(s, "notices")
  /\ LET info == Info(s)
         unread == [info EXCEPT !.modCheckFailed = TRUE]
         file == ModFile(info.latest)
     IN IF info.latest = 0 THEN Goes(s, "activity", unread)
        ELSE IF FreshFile(disk[file]) THEN Goes(s, "activity", Noticed(info))
        ELSE \/ Goes(s, "activity", unread)
             \/ Keeps(s, file, "activity", Noticed(info))

-----------------------------------------------------------------------------
(* maintainerCache.Put: the file is removed, and the new one renamed to it. *)
(* Either may fail, and so may the writing of the new one.                  *)
Remove(s) ==
  /\ AtPlace(s, "remove")
  /\ \/ /\ disk' = [disk EXCEPT ![upkeep[s].put] = NoFile]
        /\ Becomes(s, [upkeep[s] EXCEPT !.at = "rename"])
     \/ /\ UNCHANGED disk
        /\ Becomes(s, [upkeep[s] EXCEPT !.at = upkeep[s].then, !.put = "none"])
  /\ UNCHANGED <<world, newest, today, head, midnights>>

Rename(s) ==
  /\ AtPlace(s, "rename")
  /\ disk' \in {disk, [disk EXCEPT ![upkeep[s].put] =
                         [age |-> 0, there |-> TRUE, is |-> Info(s).activity]]}
  /\ Becomes(s, [upkeep[s] EXCEPT !.at = upkeep[s].then, !.put = "none"])
  /\ UNCHANGED <<world, newest, today, head, midnights>>

-----------------------------------------------------------------------------
(* ScanActivity, after the maintainer scan, which may have read the default *)
(* branch, and ScanArchived, which may have read the archived flag.         *)

CandidateBranches(known) ==
  IF ~known THEN FallbackBranches
  ELSE IF UsableBranchQuery(world.default) THEN <<world.default>> ELSE <<>>

StartActivity(s) ==
  /\ AtPlace(s, "activity")
  /\ \E known \in BOOLEAN :
       IF known /\ world.archived THEN Goes(s, "done", Info(s))
       ELSE LET left == CandidateBranches(known)
            IN Becomes(s, [upkeep[s] EXCEPT !.at = IF left = <<>> THEN "unasked" ELSE "branch",
                                            !.left = left])

WithActivity(info, day, via, floor) ==
  [info EXCEPT !.activity = day, !.via = via, !.floor = floor]

(* What the proxy may say of a branch: its head; "unknown revision" of one *)
(* that does not hold the module; of a fetch that failed, that it timed    *)
(* out or that git ls-remote could not list the repository; or nothing.    *)
BranchAnswers(branch) ==
  {IF branch \in world.holds THEN "found" ELSE "unknown revision", "failed"}
    \cup IF "branch" \in FailedFetches THEN {"fetch timed out", "not listed"} ELSE {}

(* Mutant: every 404 says that there is no such branch.                     *)
AnyNotFound(answer) == answer \in {"unknown revision", "not listed", "fetch timed out"}

(* isDefinitiveNotFound: by its marker "invalid version:" the body of a     *)
(* repository that could not be listed is one, whatever the reason was.     *)
IsDefinitiveNotFound(answer) == answer \in {"unknown revision", "not listed"}

NextBranch(s, answer) ==
  Becomes(s, [upkeep[s] EXCEPT !.left = Tail(@),
                             !.at = IF Len(upkeep[s].left) = 1 THEN "done" ELSE "branch",
                             !.info.unlisted = @ \/ answer = "not listed"])

FetchBranchTime(s) ==
  /\ AtPlace(s, "branch")
  /\ LET branch == Head(upkeep[s].left)
         Found(day) == WithActivity(Info(s), day, "proxy", midnights[2])
     IN IF FreshFile(disk[branch])
        THEN Goes(s, "done", Found(disk[branch].is))
        ELSE \E answer \in BranchAnswers(branch) :
               IF answer = "found" THEN Keeps(s, branch, "done", Found(head))
               ELSE IF IsDefinitiveNotFound(answer) THEN NextBranch(s, answer)
               ELSE Goes(s, "fall back", Info(s))

(* The proxy failed, or the branch cannot be asked for: GitHub's commits    *)
(* API, with a token.                                                       *)
LatestCommit(s) ==
  /\ AtPlace(s, "fall back") \/ AtPlace(s, "unasked")
  /\ \/ /\ world.token
        /\ \/ Goes(s, "done", WithActivity(Info(s), head, "github", -1))
           \/ Goes(s, "done", [Info(s) EXCEPT !.counted = TRUE])
     \/ /\ ~world.token
        /\ Goes(s, "done", [Info(s) EXCEPT !.counted = AtPlace(s, "fall back")])

(* The scan is over, or its process is killed.                              *)
EndUpkeep(s) == ~AtPlace(s, "idle") /\ Becomes(s, NotScanning)

-----------------------------------------------------------------------------
(* The module goes on, and so does time.                                    *)
Tag ==
  /\ newest = 1 /\ newest' = 2
  /\ UNCHANGED <<world, today, head, midnights, disk, upkeep>>

Commit ==
  /\ head # today /\ head' = today
  /\ UNCHANGED <<world, newest, today, midnights, disk, upkeep>>

AgedFile(file) == [file EXCEPT !.age = IF file.there /\ @ <= maintainerCacheTTL THEN @ + 1 ELSE @]

(* Bound: an answer is written on the day it was given.                     *)
Midnight ==
  /\ today < MaxDay
  /\ \A s \in UpkeepScans : ~AtPlace(s, "remove") /\ ~AtPlace(s, "rename")
  /\ today' = today + 1
  /\ midnights' = <<head, midnights[1]>>
  /\ disk' = [f \in UpkeepFiles |-> AgedFile(disk[f])]
  /\ UNCHANGED <<world, newest, head, upkeep>>

UpkeepStep(s) ==
  \/ /\ \/ BeginUpkeep(s) \/ FetchVersionInfo(s) \/ FetchLatestInfo(s) \/ CheckGoModDeprecation(s)
        \/ StartActivity(s) \/ FetchBranchTime(s) \/ LatestCommit(s) \/ EndUpkeep(s)
     /\ Elsewhere
  \/ Remove(s) \/ Rename(s)

UpkeepNext == (\E s \in UpkeepScans : UpkeepStep(s)) \/ Tag \/ Commit \/ Midnight

UpkeepSpec == UpkeepInit /\ [][UpkeepNext]_upkeepVars

-----------------------------------------------------------------------------
(* Properties.                                                             *)

(* "Not checked" is never read as "not deprecated" or "not retracted"       *)
(* (ModCheckFailed): a scan that has no notice and no failed check has read *)
(* the go.mod of a version as new as the newest when it began.              *)
CleanMeansRead ==
  \A s \in UpkeepScans :
    LET info == Info(s)
    IN AtPlace(s, "done") /\ ~info.deprecated /\ ~info.retracted /\ ~info.modCheckFailed
       => info.latest >= upkeep[s].began /\ info.latest # 0 /\ NoticeOf(info.latest) = "none"

(* Activity that is unknown and was not counted as a failed lookup is so    *)
(* for a reason: the module is archived, no branch that could be asked for *)
(* holds it, or the name of its branch cannot be asked for and there is no *)
(* token for GitHub.  But for one case, which activity.go:64-67 owns up to: *)
(* a branch whose repository the proxy could not list, because the host    *)
(* failed, is taken for one that does not hold the module.                 *)
SilentMeansNone ==
  \A s \in UpkeepScans :
    AtPlace(s, "done") /\ Info(s).via = "none" /\ ~Info(s).counted =>
      \/ world.archived
      \/ \A b \in {"main", "master"} : b \notin world.holds
      \/ UsableBranchQuery(world.default) /\ world.default \notin world.holds
      \/ ~UsableBranchQuery(world.default) /\ ~world.token
      \/ Info(s).unlisted

(* The activity that the proxy gave, or the disk in its place, was that of  *)
(* the branch's head at some time since the midnight before the last one:   *)
(* the answer of another scan is used for a day and no longer.              *)
ActivityIsRecent ==
  \A s \in UpkeepScans :
    AtPlace(s, "done") /\ Info(s).via = "proxy" => Info(s).activity >= Info(s).floor
=============================================================================
