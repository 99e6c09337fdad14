---------------------------- MODULE RequestsProofs ----------------------------
(***************************************************************************)
(* Proofs about how often, and how long, outside services are asked, and   *)
(* what is learned of a database that changes meanwhile.                   *)
(*                                                                         *)
(* HTTPStore, for any callers, facts, threshold and bound.                 *)
(*                                                                         *)
(* NVDPacer, for any lookups, enrichers, keys, spacings, budget and        *)
(* delays.  The bound of a single request is two facts about the slots:    *)
(* they are a spacing apart (SlotsApart), and no slot is passed by while   *)
(* somebody sleeps until it.                                               *)
(*                                                                         *)
(* AdvisoryIndex, for any advisories, build lists and number of            *)
(* publications: no change of a listed advisory goes unreported.           *)
(***************************************************************************)
EXTENDS HTTPStore, NVDPacer, AdvisoryIndex, FiniteSetTheorems, TLAPS

-----------------------------------------------------------------------------
(* The facts store over HTTP.                                              *)

(* Every step keeps the types of the store, the gets and their results.    *)
LEMMA TypeStep == ASSUME TypeOK, [Next]_vars PROVE TypeOK'
<1> USE HTTPAssumption DEF TypeOK, Kinds, service, history, Ends, Requested
<1>1. ASSUME NEW c \in Callers, NEW t \in Targets, Get(c, t) PROVE TypeOK'
  BY <1>1 DEF Get, Asks
<1>2. ASSUME NEW c \in Callers, Send(c) PROVE TypeOK'
  BY <1>2 DEF Send
<1>3. ASSUME NEW c \in Callers, CutShort(c) PROVE TypeOK'
  BY <1>3 DEF CutShort
<1>4. ASSUME NEW c \in Callers, Answered(c) PROVE TypeOK'
  BY <1>4 DEF Answered, Sent
<1>5. ASSUME NEW c \in Callers, Refused(c) PROVE TypeOK'
  BY <1>5 DEF Refused, Sent
<1>6. ASSUME NEW c \in Callers, Rejected(c) PROVE TypeOK'
  BY <1>6 DEF Rejected, Sent
<1>7. ASSUME NEW c \in Callers, Limited(c) PROVE TypeOK'
  BY <1>7 DEF Limited
<1>8. ASSUME NEW c \in Callers, NoAnswer(c) PROVE TypeOK'
  BY <1>8 DEF NoAnswer, Sent
<1>9. ASSUME NEW c \in Callers, WaitEnds(c) PROVE TypeOK'
  BY <1>9 DEF WaitEnds
<1>10. ASSUME NEW c \in Callers, Remember(c) PROVE TypeOK'
  BY <1>10 DEF Remember, Remembers
<1>11. ASSUME NEW c \in Callers, Cancel(c) PROVE TypeOK'
  BY <1>11 DEF Cancel
<1>12. CASE UNCHANGED vars
  BY <1>12 DEF vars
<1> QED
  BY <1>1, <1>2, <1>3, <1>4, <1>5, <1>6, <1>7, <1>8, <1>9, <1>10, <1>11, <1>12
     DEF Next, Caller

(* The store, its callers' gets and the counters keep their types, and a   *)
(* get never ends without a result (HTTPStore's TypeOK).                   *)
THEOREM Typed == Spec => []TypeOK
<1>1. Init => TypeOK
  <2>1. (CHOOSE t \in Targets : TRUE) \in Targets
    BY HTTPAssumption
  <2> QED
    BY <2>1, HTTPAssumption DEF Init, TypeOK, Kinds
<1>2. TypeOK /\ [Next]_vars => TypeOK'
  BY TypeStep
<1> QED
  BY <1>1, <1>2, PTL DEF Spec

-----------------------------------------------------------------------------
(* Every step keeps the truth of the cache and of the finished gets.       *)
LEMMA CacheStep ==
  ASSUME TypeOK, CacheIsTheService, ResultIsTheService, [Next]_vars
  PROVE  CacheIsTheService' /\ ResultIsTheService'
<1> USE DEF TypeOK, Kinds, service, history, Ends, Requested,
        CacheIsTheService, ResultIsTheService
<1>1. ASSUME NEW c \in Callers, NEW t \in Targets, Get(c, t) PROVE CacheIsTheService' /\ ResultIsTheService'
  BY <1>1 DEF Get, Asks
<1>2. ASSUME NEW c \in Callers, Send(c) PROVE CacheIsTheService' /\ ResultIsTheService'
  BY <1>2 DEF Send
<1>3. ASSUME NEW c \in Callers, CutShort(c) PROVE CacheIsTheService' /\ ResultIsTheService'
  BY <1>3 DEF CutShort
<1>4. ASSUME NEW c \in Callers, Answered(c) PROVE CacheIsTheService' /\ ResultIsTheService'
  BY <1>4 DEF Answered, Sent
<1>5. ASSUME NEW c \in Callers, Refused(c) PROVE CacheIsTheService' /\ ResultIsTheService'
  BY <1>5 DEF Refused, Sent
<1>6. ASSUME NEW c \in Callers, Rejected(c) PROVE CacheIsTheService' /\ ResultIsTheService'
  BY <1>6 DEF Rejected, Sent
<1>7. ASSUME NEW c \in Callers, Limited(c) PROVE CacheIsTheService' /\ ResultIsTheService'
  BY <1>7 DEF Limited
<1>8. ASSUME NEW c \in Callers, NoAnswer(c) PROVE CacheIsTheService' /\ ResultIsTheService'
  BY <1>8 DEF NoAnswer, Sent
<1>9. ASSUME NEW c \in Callers, WaitEnds(c) PROVE CacheIsTheService' /\ ResultIsTheService'
  BY <1>9 DEF WaitEnds
<1>10. ASSUME NEW c \in Callers, Remember(c) PROVE CacheIsTheService' /\ ResultIsTheService'
  BY <1>10 DEF Remember, Remembers
<1>11. ASSUME NEW c \in Callers, Cancel(c) PROVE CacheIsTheService' /\ ResultIsTheService'
  BY <1>11 DEF Cancel
<1>12. CASE UNCHANGED vars
  BY <1>12 DEF vars
<1> QED
  BY <1>1, <1>2, <1>3, <1>4, <1>5, <1>6, <1>7, <1>8, <1>9, <1>10, <1>11, <1>12
     DEF Next, Caller

(* Whatever the callers, the cancellations and the failures: what the store*)
(* remembers of a fact is what the service said (http.go:106-111).         *)
THEOREM CacheTellsTheTruth == Spec => []CacheIsTheService
<1>1. Init => CacheIsTheService /\ ResultIsTheService
  BY DEF Init, CacheIsTheService, ResultIsTheService
<1>2. TypeOK /\ CacheIsTheService /\ ResultIsTheService /\ [Next]_vars
        => CacheIsTheService' /\ ResultIsTheService'
  BY CacheStep
<1> QED
  BY <1>1, <1>2, Typed, PTL DEF Spec

-----------------------------------------------------------------------------
(* The gets under way are finitely many, no more than the callers.         *)
LEMMA PendingFinite ==
  ASSUME NEW t \in Targets
  PROVE  /\ IsFiniteSet(Pending(t)) /\ Cardinality(Pending(t)) \in Nat
         /\ Cardinality(Pending(t)) <= Cardinality(Callers)
         /\ Cardinality(Callers) \in Nat
BY HTTPAssumption, FS_Subset, FS_CardinalityType DEF Pending

(* A get counts once, and only from the time nothing is remembered.        *)
LEMMA GetCounts ==
  ASSUME TypeOK, AskedMeansRemembered,
         NEW c \in Callers, NEW t \in Targets, Get(c, t)
  PROVE  AskedMeansRemembered'
<1>1. /\ pc' = [pc EXCEPT ![c] = "ask"] /\ pc[c] = "idle"
      /\ target' = [target EXCEPT ![c] = t]
      /\ cache[t] = "none" /\ UNCHANGED <<cache, uncut>>
  BY DEF Get, Asks, service
<1> SUFFICES ASSUME NEW u \in Targets
             PROVE  /\ cache[u] = "none" => uncut[u] = 0
                    /\ uncut[u] + Cardinality(Pending(u)') <= Cardinality(Callers)
  BY <1>1 DEF AskedMeansRemembered
<1>2. CASE u = t
  <2>1. Pending(u)' \subseteq Callers
    BY DEF Pending
  <2>2. /\ Cardinality(Pending(u)') <= Cardinality(Callers)
        /\ Cardinality(Pending(u)') \in Nat
    BY <2>1, HTTPAssumption, FS_Subset, FS_CardinalityType
  <2> QED
    BY <1>1, <1>2, <2>2 DEF AskedMeansRemembered
<1>3. CASE u # t
  <2>1. Pending(u)' = Pending(u)
    BY <1>1, <1>3 DEF Pending, TypeOK
  <2> QED
    BY <1>1, <2>1 DEF AskedMeansRemembered
<1> QED
  BY <1>2, <1>3

(* When a get ends it is no longer under way.                              *)
LEMMA RememberCounts ==
  ASSUME TypeOK, AskedMeansRemembered, NEW c \in Callers, Remember(c)
  PROVE  AskedMeansRemembered'
<1>1. /\ pc' = [pc EXCEPT ![c] = "idle"] /\ pc[c] = "done"
      /\ result[c] # "none" /\ UNCHANGED target
  BY DEF Remember, TypeOK
<1>2. \/ cancelled[c] /\ UNCHANGED <<cache, uncut>>
      \/ /\ cache' = [cache EXCEPT ![target[c]] = result[c]]
         /\ uncut' = [uncut EXCEPT ![target[c]] = @ + 1]
  BY DEF Remember, Remembers, TypeOK
<1> SUFFICES ASSUME NEW u \in Targets
             PROVE  /\ cache'[u] = "none" => uncut'[u] = 0
                    /\ uncut'[u] + Cardinality(Pending(u)') <= Cardinality(Callers)
  BY DEF AskedMeansRemembered
<1>3. uncut[u] \in Nat /\ target[c] \in Targets
  BY DEF TypeOK
<1>4. /\ Cardinality(Pending(u)) \in Nat
      /\ Cardinality(Callers) \in Nat
  BY PendingFinite
<1>5. CASE u = target[c]
  <2>1. Pending(u)' = Pending(u) \ {c} /\ c \in Pending(u)
    BY <1>1, <1>5 DEF Pending, TypeOK
  <2>2. Cardinality(Pending(u)') = Cardinality(Pending(u)) - 1
    BY <2>1, PendingFinite, FS_RemoveElement
  <2> QED
    BY <1>1, <1>2, <1>3, <1>4, <1>5, <2>2 DEF AskedMeansRemembered, TypeOK
<1>6. CASE u # target[c]
  <2>1. Pending(u)' = Pending(u)
    BY <1>1, <1>6 DEF Pending, TypeOK
  <2>2. cache'[u] = cache[u] /\ uncut'[u] = uncut[u]
    BY <1>2, <1>3, <1>6 DEF TypeOK
  <2> QED
    BY <2>1, <2>2 DEF AskedMeansRemembered
<1> QED
  BY <1>5, <1>6

(* Every other step leaves the gets under way as they are.                 *)
LEMMA OtherStepsCount ==
  ASSUME TypeOK, AskedMeansRemembered, UNCHANGED <<cache, uncut, target>>,
         \A c \in Callers : pc[c] = "idle" <=> pc'[c] = "idle"
  PROVE  AskedMeansRemembered'
<1>1. \A t \in Targets : Pending(t)' = Pending(t)
  BY DEF Pending
<1> QED
  BY <1>1 DEF AskedMeansRemembered

(* Each caller asks for a fact to the end at most once, so a single run    *)
(* asks once: "the answer, a miss included, is kept in memory"             *)
(* (docs/facts-api.md:31-32).                                              *)
THEOREM EachAsksOnce == Spec => []AskedOnceEach
<1>1. Init => AskedMeansRemembered
  <2> SUFFICES ASSUME Init, NEW t \in Targets
               PROVE  uncut[t] + Cardinality(Pending(t)) <= Cardinality(Callers)
    BY DEF AskedMeansRemembered, Init
  <2> QED
    BY PendingFinite DEF Init
<1>2. TypeOK /\ AskedMeansRemembered /\ [Next]_vars => AskedMeansRemembered'
  <2> SUFFICES ASSUME TypeOK, AskedMeansRemembered, [Next]_vars
               PROVE  AskedMeansRemembered'
    OBVIOUS
  <2>1. CASE \E c \in Callers, t \in Targets : Get(c, t)
    BY <2>1, GetCounts
  <2>2. CASE \E c \in Callers : Remember(c)
    BY <2>2, RememberCounts
  <2>3. CASE \E c \in Callers : \/ Send(c) \/ CutShort(c) \/ Answered(c)
                                \/ Refused(c) \/ Rejected(c) \/ Limited(c)
                                \/ NoAnswer(c) \/ WaitEnds(c) \/ Cancel(c)
    <3>1. /\ UNCHANGED <<cache, uncut, target>>
          /\ \A c \in Callers : pc[c] = "idle" <=> pc'[c] = "idle"
      BY <2>3 DEF TypeOK, Send, CutShort, Answered, Refused, Rejected, Limited,
         NoAnswer, WaitEnds, Cancel, Sent, Ends, service, history
    <3> QED
      BY <3>1, OtherStepsCount
  <2>4. CASE UNCHANGED vars
    BY <2>4, OtherStepsCount DEF vars, service, history
  <2> QED
    BY <2>1, <2>2, <2>3, <2>4 DEF Next, Caller
<1>3. TypeOK /\ AskedMeansRemembered => AskedOnceEach
  <2> SUFFICES ASSUME TypeOK, AskedMeansRemembered, NEW t \in Targets
               PROVE  uncut[t] <= Cardinality(Callers)
    BY DEF AskedOnceEach
  <2> QED
    BY PendingFinite DEF TypeOK, AskedMeansRemembered
<1> QED
  BY <1>1, <1>2, <1>3, Typed, PTL DEF Spec

-----------------------------------------------------------------------------
(* Where a get may be.                                                     *)
Places == {"idle", "ask", "sent", "wait", "resent", "done"}

(* The callers at given places are finitely many.                          *)
LEMMA AtFinite ==
  ASSUME NEW L
  PROVE  /\ IsFiniteSet(At(L)) /\ Cardinality(At(L)) \in Nat
         /\ Cardinality(Callers) \in Nat
BY HTTPAssumption, FS_Subset, FS_CardinalityType DEF At

(* A caller that leaves the places of L makes the callers there one fewer  *)
(* if it was there, and fewer than all in any case.                        *)
LEMMA Leaves ==
  ASSUME NEW c \in Callers, NEW L, NEW l, l \notin L,
         pc \in [Callers -> Places], pc' = [pc EXCEPT ![c] = l]
  PROVE  /\ Cardinality(At(L)') \in Nat
         /\ Cardinality(At(L)') <= Cardinality(Callers) - 1
         /\ Cardinality(At(L)') <= Cardinality(At(L))
         /\ pc[c] \in L => Cardinality(At(L)') = Cardinality(At(L)) - 1
<1>1. At(L)' = At(L) \ {c}
  BY DEF At
<1>2. /\ IsFiniteSet(At(L)')
      /\ Cardinality(At(L)') = IF c \in At(L) THEN Cardinality(At(L)) - 1
                               ELSE Cardinality(At(L))
  BY <1>1, AtFinite, FS_RemoveElement
<1>3. /\ IsFiniteSet(Callers \ {c})
      /\ Cardinality(Callers \ {c}) = Cardinality(Callers) - 1
  BY HTTPAssumption, FS_RemoveElement
<1>4. Cardinality(At(L)') <= Cardinality(Callers \ {c})
  <2>1. At(L)' \subseteq Callers \ {c}
    BY <1>1 DEF At
  <2> QED
    BY <2>1, <1>3, FS_Subset
<1>5. Cardinality(At(L)') \in Nat
  BY <1>2, FS_CardinalityType
<1>6. pc[c] \in L <=> c \in At(L)
  BY DEF At
<1> QED
  BY <1>2, <1>3, <1>4, <1>5, <1>6, AtFinite

(* A caller that moves within the places of L, or outside them, leaves     *)
(* their number as it is.                                                  *)
LEMMA Stays ==
  ASSUME NEW c \in Callers, NEW L, NEW l,
         pc \in [Callers -> Places], pc' = [pc EXCEPT ![c] = l],
         l \in L <=> pc[c] \in L
  PROVE  At(L)' = At(L)
BY DEF At

(* Every step keeps the bounds: a get that stops the store leaves at most  *)
(* the other callers under way, and none begins after that.                *)
LEMMA StopStep ==
  ASSUME TypeOK, StopIsBounded, [Next]_vars PROVE StopIsBounded'
<1> USE HTTPAssumption
<1>0. /\ pc \in [Callers -> Places] /\ failures \in Nat /\ after \in Nat
      /\ Cardinality(Callers) \in Nat
      /\ Cardinality(At(Open)) \in Nat
      /\ Cardinality(At(Again)) \in Nat
      /\ Cardinality(At(Unsent)) \in Nat
  <2>1. pc \in [Callers -> Places]
    BY DEF TypeOK, Places
  <2>2. Cardinality(Callers) \in Nat
    BY FS_CardinalityType
  <2>3. /\ Cardinality(At(Open)) \in Nat
        /\ Cardinality(At(Again)) \in Nat
        /\ Cardinality(At(Unsent)) \in Nat
    BY AtFinite
  <2>4. failures \in Nat /\ after \in Nat
    BY DEF TypeOK
  <2> QED
    BY <2>1, <2>2, <2>3, <2>4
<1>1. ASSUME NEW c \in Callers, NEW t \in Targets, Get(c, t)
      PROVE  StopIsBounded'
  <2>1. disabled = "no" /\ UNCHANGED <<disabled, failures, after>>
    BY <1>1 DEF Get, Asks, service
  <2> QED
    BY <2>1 DEF StopIsBounded
<1>2. ASSUME NEW c \in Callers, Send(c) PROVE StopIsBounded'
  <2>1. /\ pc[c] = "ask" /\ pc' = [pc EXCEPT ![c] = "sent"]
        /\ UNCHANGED <<disabled, failures>>
        /\ after' = IF disabled = "no" THEN after ELSE after + 1
    BY <1>2 DEF Send, service, Requested
  <2>2. At(Open)' = At(Open) /\ At(Again)' = At(Again)
    BY <1>0, <2>1, Stays DEF Open, Again
  <2>3. Cardinality(At(Unsent)') = Cardinality(At(Unsent)) - 1
    <3>1. pc[c] \in Unsent /\ "sent" \notin Unsent
      BY <2>1 DEF Unsent
    <3> QED
      BY <1>0, <2>1, <3>1, Leaves
  <2> QED
    BY <1>0, <2>1, <2>2, <2>3 DEF StopIsBounded
<1>3. ASSUME NEW c \in Callers, pc[c] \in Open, pc' = [pc EXCEPT ![c] = "done"],
             after' = after,
             \/ UNCHANGED <<disabled, failures>>
             \/ failures' = 0 /\ UNCHANGED disabled
             \/ disabled' = "key" /\ UNCHANGED failures
             \/ /\ failures' = failures + 1
                /\ disabled' = IF failures + 1 >= unavailableAfter
                                   /\ disabled = "no"
                               THEN "silent" ELSE disabled
      PROVE  StopIsBounded'
  <2>1. /\ Cardinality(At(Open)') \in Nat
        /\ Cardinality(At(Open)') <= Cardinality(Callers) - 1
        /\ Cardinality(At(Open)') = Cardinality(At(Open)) - 1
    BY <1>0, <1>3, Leaves DEF Open
  <2>2. /\ Cardinality(At(Again)') \in Nat
        /\ Cardinality(At(Again)') <= Cardinality(Callers) - 1
        /\ Cardinality(At(Again)') <= Cardinality(At(Again))
    BY <1>0, <1>3, Leaves DEF Again
  <2>3. /\ Cardinality(At(Unsent)') \in Nat
        /\ Cardinality(At(Unsent)') <= Cardinality(Callers) - 1
        /\ Cardinality(At(Unsent)') <= Cardinality(At(Unsent))
    BY <1>0, <1>3, Leaves DEF Unsent
  <2> QED
    BY <1>0, <1>3, <2>1, <2>2, <2>3 DEF StopIsBounded
<1>4. ASSUME NEW c \in Callers,
             CutShort(c) \/ Answered(c) \/ Refused(c) \/ Rejected(c) \/ NoAnswer(c)
      PROVE  StopIsBounded'
  <2>1. /\ pc[c] \in Open /\ pc' = [pc EXCEPT ![c] = "done"] /\ after' = after
        /\ \/ UNCHANGED <<disabled, failures>>
           \/ failures' = 0 /\ UNCHANGED disabled
           \/ disabled' = "key" /\ UNCHANGED failures
           \/ /\ failures' = failures + 1
              /\ disabled' = IF failures + 1 >= unavailableAfter
                                 /\ disabled = "no"
                             THEN "silent" ELSE disabled
    BY <1>4 DEF CutShort, Answered, Refused, Rejected, NoAnswer, StopsAt, Sent,
       Ends, service, history, Open
  <2> QED
    BY <1>3, <2>1
<1>5. ASSUME NEW c \in Callers, Limited(c) PROVE StopIsBounded'
  <2>1. /\ pc[c] = "sent" /\ pc' = [pc EXCEPT ![c] = "wait"]
        /\ UNCHANGED <<disabled, failures, after>>
    BY <1>5 DEF Limited, service
  <2>2. At(Open)' = At(Open) /\ At(Again)' = At(Again) /\ At(Unsent)' = At(Unsent)
    BY <1>0, <2>1, Stays DEF Open, Again, Unsent
  <2> QED
    BY <2>1, <2>2 DEF StopIsBounded
<1>6. ASSUME NEW c \in Callers, WaitEnds(c) PROVE StopIsBounded'
  <2>1. pc[c] = "wait" /\ UNCHANGED <<disabled, failures>>
    BY <1>6 DEF WaitEnds, service
  <2>2. CASE pc' = [pc EXCEPT ![c] = "done"] /\ after' = after
    BY <1>3, <2>1, <2>2 DEF Open
  <2>3. CASE pc' = [pc EXCEPT ![c] = "resent"] /\ Requested
    <3>1. At(Open)' = At(Open) /\ At(Unsent)' = At(Unsent)
      BY <1>0, <2>1, <2>3, Stays DEF Open, Unsent
    <3>2. Cardinality(At(Again)') = Cardinality(At(Again)) - 1
      BY <1>0, <2>1, <2>3, Leaves DEF Again
    <3> QED
      BY <1>0, <2>1, <2>3, <3>1, <3>2 DEF StopIsBounded, Requested
  <2> QED
    BY <1>6, <2>2, <2>3 DEF WaitEnds, Ends
<1>7. ASSUME NEW c \in Callers, Remember(c) PROVE StopIsBounded'
  <2>1. /\ pc[c] = "done" /\ pc' = [pc EXCEPT ![c] = "idle"]
        /\ UNCHANGED <<disabled, failures, after>>
    BY <1>7 DEF Remember
  <2>2. At(Open)' = At(Open) /\ At(Again)' = At(Again) /\ At(Unsent)' = At(Unsent)
    BY <1>0, <2>1, Stays DEF Open, Again, Unsent
  <2> QED
    BY <2>1, <2>2 DEF StopIsBounded
<1>8. CASE (\E c \in Callers : Cancel(c)) \/ UNCHANGED vars
  <2>1. UNCHANGED <<pc, disabled, failures, after>>
    BY <1>8 DEF Cancel, vars, service, history
  <2> QED
    BY <2>1 DEF StopIsBounded, At
<1> QED
  BY <1>1, <1>2, <1>4, <1>5, <1>6, <1>7, <1>8 DEF Next, Caller

(* The bounds hold in every behaviour.                                     *)
LEMMA StopInv == Spec => []StopIsBounded
<1>1. Init => StopIsBounded
  BY HTTPAssumption DEF Init, StopIsBounded
<1>2. TypeOK /\ StopIsBounded /\ [Next]_vars => StopIsBounded'
  BY StopStep
<1> QED
  BY <1>1, <1>2, Typed, PTL DEF Spec

(* A store that has stopped is asked at most twice more by each of the     *)
(* other callers, and by a single caller never (http.go:24-25).            *)
THEOREM StopHolds == Spec => []StopStops
<1>1. TypeOK /\ StopIsBounded => StopStops
  <2>1. Cardinality(Callers) \in Nat \ {0}
    BY HTTPAssumption, FS_CardinalityType, FS_EmptySet
  <2> QED
    BY <2>1, AtFinite DEF TypeOK, StopIsBounded, StopStops
<1> QED
  BY <1>1, StopInv, Typed, PTL

(* A service that hangs costs the timeout unavailableAfter times, and once *)
(* more for each of the other callers (http.go:25).                        *)
THEOREM HangsHold == Spec => []HangsAreFew
<1>1. TypeOK /\ StopIsBounded => HangsAreFew
  <2>1. Cardinality(Callers) \in Nat \ {0}
    BY HTTPAssumption, FS_CardinalityType, FS_EmptySet
  <2> QED
    BY <2>1, HTTPAssumption, AtFinite DEF TypeOK, StopIsBounded, HangsAreFew
<1> QED
  BY <1>1, StopInv, Typed, PTL

-----------------------------------------------------------------------------
(* The pacing of NVD.                                                      *)

(* A spacing is a positive number of ticks, with a key and without.         *)
LEMMA SpacingIsPositive == \A l : Spacing(l) \in Nat /\ Spacing(l) > 0
BY SpacingAssumption DEF Spacing

(* A lookup that has ended has its type.                                    *)
LEMMA DoneIsTyped == Done \in TypesOfLookups /\ Done.at = "done"
BY BudgetAssumption DEF Done, TypesOfLookups, Never

(* Before the first request all slots are free and no delay was asked for.  *)
LEMMA InitPacer == PacerInit => PacerTypeOK /\ SlotsApart /\ DelayKept
BY BudgetAssumption
   DEF PacerInit, PacerTypeOK, TypesOfLookups, SlotsApart, DelayKept, AtStep, Never

-----------------------------------------------------------------------------
(* Every step keeps the types; a delay that NVD asks for is a number.      *)
LEMMA PacerTypeStep == ASSUME PacerTypeOK, [PacerNext]_pacerVars PROVE PacerTypeOK'
<1> USE DEF PacerTypeOK, TypesOfLookups, AtStep, Step
<1>1. ASSUME NEW l \in Lookups, Call(l) PROVE PacerTypeOK'
  BY <1>1 DEF Call
<1>2. ASSUME NEW l \in Lookups, ChooseKey(l) PROVE PacerTypeOK'
  BY <1>2 DEF ChooseKey
<1>3. ASSUME NEW l \in Lookups, ReserveSlot(l) PROVE PacerTypeOK'
  <2>1. SlotStart \in Nat
    BY DEF SlotStart, Larger
  <2>2. SlotStart + Spacing(l) \in Nat
    BY <2>1, SpacingIsPositive
  <2> QED
    BY <1>3, <2>1, <2>2 DEF ReserveSlot
<1>4. ASSUME NEW l \in Lookups, SendRequest(l) PROVE PacerTypeOK'
  BY <1>4, SpacingAssumption DEF SendRequest, Larger
<1>5. ASSUME NEW l \in Lookups,
             BudgetUsedUp(l) \/ SleepCancelled(l) \/ LookupAnswered(l) \/ RequestCancelled(l)
      PROVE  PacerTypeOK'
  <2>1. look' = [look EXCEPT ![l] = Done] /\ UNCHANGED <<now, next, quiet, delay>>
    BY <1>5 DEF BudgetUsedUp, SleepCancelled, LookupAnswered, RequestCancelled
  <2> QED
    BY <2>1, DoneIsTyped
<1>6. ASSUME NEW l \in Lookups, KeyRejected(l) PROVE PacerTypeOK'
  BY <1>6 DEF KeyRejected, Never
<1>7. ASSUME NEW l \in Lookups, RequestRefused(l) PROVE PacerTypeOK'
  <2>1. CASE look[l].attempt >= MaxRetries
    <3>1. look' = [look EXCEPT ![l] = Done] /\ UNCHANGED <<now, next, quiet, delay>>
      BY <1>7, <2>1 DEF RequestRefused
    <3> QED
      BY <3>1, DoneIsTyped
  <2>2. CASE ~(look[l].attempt >= MaxRetries)
    <3>1. PICK wait \in {Backoff(look[l].attempt)} \union
                        {Smaller(ra, RetryAfterCap) : ra \in RetryAfters} :
            /\ next' = DelayedTo(now + wait)
            /\ look' = [look EXCEPT ![l] = [look[l] EXCEPT !.at = "loop", !.attempt = @ + 1,
                                                           !.start = Never]]
            /\ delay' = IF now + wait <= delay.until THEN delay
                        ELSE [until |-> now + wait,
                              slots |-> {k \in Lookups : AtStep(k, "sleep")
                                                          /\ look[k].start < now + wait}]
      BY <1>7, <2>2 DEF RequestRefused
    <3>2. wait \in Nat
      BY <3>1, BackoffAssumption, RetryAfterAssumption DEF Smaller
    <3>3. look[l].attempt + 1 \in 0..MaxRetries
      BY <2>2, BudgetAssumption
    <3>4. next' \in Nat
      BY <3>1, <3>2 DEF DelayedTo, Larger
    <3>5. delay' \in [until : Nat, slots : SUBSET Lookups]
      BY <3>1, <3>2
    <3>6. UNCHANGED <<now, quiet>>
      BY <1>7 DEF RequestRefused
    <3> DEFINE again == [look[l] EXCEPT !.at = "loop", !.attempt = @ + 1, !.start = Never]
    <3>7. again \in TypesOfLookups /\ again.at = "loop"
      BY <3>3 DEF Never
    <3>8. look' = [look EXCEPT ![l] = again]
      BY <3>1
    <3> HIDE DEF again
    <3> QED
      BY <3>4, <3>5, <3>6, <3>7, <3>8
  <2> QED BY <2>1, <2>2
<1>8. ASSUME NEW e \in Enrichers, ContextEnds(e) PROVE PacerTypeOK'
  BY <1>8 DEF ContextEnds
<1>9. CASE Tick
  BY <1>9 DEF Tick
<1>10. CASE UNCHANGED pacerVars
  BY <1>10 DEF pacerVars
<1> QED
  BY <1>1, <1>2, <1>3, <1>4, <1>5, <1>6, <1>7, <1>8, <1>9, <1>10 DEF PacerNext, Lookup

-----------------------------------------------------------------------------
(* What the steps that neither reserve a slot nor send a request, and are  *)
(* not refused, leave alone.                                               *)
Still(l) ==
  /\ look' = [look EXCEPT ![l] = look'[l]]
  /\ look'[l].at \notin {"sleep", "sent"}
  /\ UNCHANGED <<now, quiet>>

(* Most steps of a lookup neither take a slot nor send anything.            *)
LEMMA QuietSteps ==
  ASSUME PacerTypeOK, NEW l \in Lookups,
         \/ Call(l) \/ ChooseKey(l) \/ BudgetUsedUp(l) \/ SleepCancelled(l)
         \/ LookupAnswered(l) \/ RequestCancelled(l) \/ KeyRejected(l)
  PROVE  Still(l) /\ UNCHANGED <<next, delay>>
<1> USE DEF PacerTypeOK, TypesOfLookups, AtStep, Step, Still
<1>1. CASE Call(l)
  BY <1>1 DEF Call
<1>2. CASE ChooseKey(l)
  BY <1>2 DEF ChooseKey
<1>3. CASE KeyRejected(l)
  BY <1>3 DEF KeyRejected
<1>4. CASE BudgetUsedUp(l) \/ SleepCancelled(l) \/ LookupAnswered(l) \/ RequestCancelled(l)
  <2>1. look' = [look EXCEPT ![l] = Done] /\ UNCHANGED <<now, next, quiet, delay>>
    BY <1>4 DEF BudgetUsedUp, SleepCancelled, LookupAnswered, RequestCancelled
  <2> QED
    BY <2>1, DoneIsTyped
<1> QED
  BY <1>1, <1>2, <1>3, <1>4

(* A refused lookup moves the next slot ahead, never back, and a new delay *)
(* ends no later than that slot.                                           *)
LEMMA RefusedStep ==
  ASSUME PacerTypeOK, NEW l \in Lookups, RequestRefused(l)
  PROVE  /\ Still(l)
         /\ next' >= next
         /\ \/ delay' = delay
            \/ /\ delay'.until <= next'
               /\ \A k \in Lookups : AtStep(k, "sleep") =>
                    look[k].start >= delay'.until \/ k \in delay'.slots
<1> USE DEF PacerTypeOK, TypesOfLookups, AtStep, Step, Still
<1>1. UNCHANGED <<now, quiet>>
  BY DEF RequestRefused
<1>2. CASE look[l].attempt >= MaxRetries
  <2>1. look' = [look EXCEPT ![l] = Done] /\ UNCHANGED <<next, delay>>
    BY <1>2 DEF RequestRefused
  <2> QED
    BY <1>1, <2>1, DoneIsTyped
<1>3. CASE ~(look[l].attempt >= MaxRetries)
  <2>1. PICK wait \in {Backoff(look[l].attempt)} \union
                      {Smaller(ra, RetryAfterCap) : ra \in RetryAfters} :
          /\ next' = DelayedTo(now + wait)
          /\ look' = [look EXCEPT ![l] = [look[l] EXCEPT !.at = "loop", !.attempt = @ + 1,
                                                         !.start = Never]]
          /\ delay' = IF now + wait <= delay.until THEN delay
                      ELSE [until |-> now + wait,
                            slots |-> {k \in Lookups : AtStep(k, "sleep")
                                                        /\ look[k].start < now + wait}]
    BY <1>3 DEF RequestRefused
  <2>2. wait \in Nat
    BY <2>1, BackoffAssumption, RetryAfterAssumption DEF Smaller
  <2>3. next' >= next /\ next' >= now + wait
    BY <2>1, <2>2 DEF DelayedTo, Larger
  <2>4. look' = [look EXCEPT ![l] = look'[l]] /\ look'[l].at = "loop"
    BY <2>1
  <2>5. CASE now + wait <= delay.until
    BY <1>1, <2>1, <2>3, <2>4, <2>5
  <2>6. CASE ~(now + wait <= delay.until)
    <3>1. /\ delay'.until = now + wait
          /\ delay'.slots = {k \in Lookups : AtStep(k, "sleep") /\ look[k].start < now + wait}
      BY <2>1, <2>6
    <3>2. \A k \in Lookups : AtStep(k, "sleep") =>
            look[k].start >= delay'.until \/ k \in delay'.slots
      BY <2>2, <3>1
    <3> QED
      BY <1>1, <2>2, <2>3, <2>4, <3>1, <3>2
  <2> QED BY <2>5, <2>6
<1> QED BY <1>2, <1>3

(* Only the end of a sleep sends a request.                                *)
LEMMA OnlySleepersSend ==
  ASSUME PacerTypeOK, PacerNext, NEW l \in Lookups, Sends(l) PROVE SendRequest(l)
<1> USE DEF PacerTypeOK, AtStep, Sends
<1>1. ASSUME NEW k \in Lookups, Still(k) PROVE FALSE
  BY <1>1 DEF Still
<1>2. ASSUME NEW k \in Lookups, ReserveSlot(k) PROVE FALSE
  BY <1>2 DEF ReserveSlot, Step, TypesOfLookups
<1>3. ASSUME NEW k \in Lookups, SendRequest(k) PROVE SendRequest(l)
  <2>1. look' = [look EXCEPT ![k] = [look[k] EXCEPT !.at = "sent"]]
    BY <1>3 DEF SendRequest, Step
  <2>2. k = l
    BY <2>1
  <2> QED BY <1>3, <2>2
<1>4. ASSUME NEW e \in Enrichers, ContextEnds(e) PROVE FALSE
  BY <1>4 DEF ContextEnds
<1>5. ASSUME Tick PROVE FALSE
  BY <1>5 DEF Tick
<1> QED
  BY <1>1, <1>2, <1>3, <1>4, <1>5, QuietSteps, RefusedStep DEF PacerNext, Lookup

-----------------------------------------------------------------------------
(* Every step leaves the slots apart.  A slot is taken at the next one or  *)
(* later; a request is sent in the tick of its slot, as nobody sleeps past *)
(* one, so what is sent lies before the slots that are taken.              *)
LEMMA SlotsStep ==
  ASSUME PacerTypeOK, PacerTypeOK', SlotsApart, [PacerNext]_pacerVars PROVE SlotsApart'
<1> USE SpacingIsPositive DEF PacerTypeOK, TypesOfLookups, AtStep, SlotsApart
<1>1. ASSUME NEW l \in Lookups, Still(l), next' >= next
      PROVE  SlotsApart'
  <2>1. /\ look' = [look EXCEPT ![l] = look'[l]] /\ look'[l].at # "sleep"
        /\ UNCHANGED <<now, quiet>>
    BY <1>1 DEF Still
  <2> QED
    BY <1>1, <2>1 DEF Spacing
<1>2. ASSUME NEW l \in Lookups,
             \/ Call(l) \/ ChooseKey(l) \/ BudgetUsedUp(l) \/ SleepCancelled(l)
             \/ LookupAnswered(l) \/ RequestCancelled(l) \/ KeyRejected(l)
      PROVE  SlotsApart'
  <2>1. Still(l) /\ UNCHANGED <<next, delay>>
    BY <1>2, QuietSteps
  <2> QED
    BY <1>1, <2>1
<1>3. ASSUME NEW l \in Lookups, RequestRefused(l) PROVE SlotsApart'
  BY <1>1, <1>3, RefusedStep
<1>4. ASSUME NEW l \in Lookups, ReserveSlot(l) PROVE SlotsApart'
  <2>1. /\ SlotStart \in Nat /\ SlotStart >= now /\ SlotStart >= next
    BY DEF SlotStart, Larger
  <2>2. /\ look' = [look EXCEPT ![l] = [look[l] EXCEPT !.at = "sleep", !.start = SlotStart]]
        /\ next' = SlotStart + Spacing(l)
        /\ UNCHANGED <<now, quiet>>
    BY <1>4 DEF ReserveSlot, Step
  <2>3. \A k \in Lookups : Spacing(k)' = Spacing(k)
    BY <2>2 DEF Spacing
  <2> QED
    BY <2>1, <2>2, <2>3
<1>5. ASSUME NEW l \in Lookups, SendRequest(l) PROVE SlotsApart'
  <2>1. AtStep(l, "sleep") /\ now >= look[l].start
    BY <1>5 DEF SendRequest
  <2>2. quiet' = Larger(quiet, now + Spacing(l))
    BY <1>5 DEF SendRequest, Spacing
  <2>3. /\ look' = [look EXCEPT ![l] = [look[l] EXCEPT !.at = "sent"]]
        /\ UNCHANGED <<now, next>>
    BY <1>5 DEF SendRequest, Step
  <2>4. \A k \in Lookups : Spacing(k)' = Spacing(k)
    BY <2>3 DEF Spacing
  <2>5. look[l].start \in Nat /\ now = look[l].start
    <3>1. look[l].start \in Nat
      BY <2>1
    <3>2. now <= look[l].start
      BY <2>1
    <3>3. now \in Nat
      OBVIOUS
    <3> HIDE DEF PacerTypeOK, SlotsApart
    <3> QED
      BY <2>1, <3>1, <3>2, <3>3
  <2>6. \A k \in Lookups : k # l /\ AtStep(k, "sleep") => now + Spacing(l) <= look[k].start
    <3> SUFFICES ASSUME NEW k \in Lookups, k # l, AtStep(k, "sleep")
                 PROVE  now + Spacing(l) <= look[k].start
      OBVIOUS
    <3>1. look[k].start \in Nat /\ now <= look[k].start
      OBVIOUS
    <3>2. \/ look[l].start + Spacing(l) <= look[k].start
          \/ look[k].start + Spacing(k) <= look[l].start
      BY <2>1
    <3>3. Spacing(k) \in Nat /\ Spacing(k) > 0
      BY SpacingIsPositive
    <3> QED
      BY <2>5, <3>1, <3>2, <3>3
  <2>7. now + Spacing(l) <= next
    BY <2>1, <2>5
  <2> QED
    BY <2>2, <2>3, <2>4, <2>5, <2>6, <2>7 DEF Larger
<1>6. ASSUME NEW e \in Enrichers, ContextEnds(e) PROVE SlotsApart'
  BY <1>6 DEF ContextEnds, Spacing
<1>7. CASE Tick
  BY <1>7 DEF Tick, Spacing
<1>8. CASE UNCHANGED pacerVars
  BY <1>8 DEF pacerVars, Spacing
<1> QED
  BY <1>2, <1>3, <1>4, <1>5, <1>6, <1>7, <1>8 DEF PacerNext, Lookup

(* Every step keeps the last delay before the next slot and before those   *)
(* that were taken since.                                                  *)
LEMMA DelayStep ==
  ASSUME PacerTypeOK, PacerTypeOK', DelayKept, [PacerNext]_pacerVars PROVE DelayKept'
<1> USE SpacingIsPositive DEF PacerTypeOK, TypesOfLookups, AtStep, DelayKept
<1>1. ASSUME NEW l \in Lookups,
             \/ Call(l) \/ ChooseKey(l) \/ BudgetUsedUp(l) \/ SleepCancelled(l)
             \/ LookupAnswered(l) \/ RequestCancelled(l) \/ KeyRejected(l)
      PROVE  DelayKept'
  <2>1. Still(l) /\ UNCHANGED <<next, delay>>
    BY <1>1, QuietSteps
  <2> QED
    BY <2>1 DEF Still
<1>2. ASSUME NEW l \in Lookups, SendRequest(l) PROVE DelayKept'
  BY <1>2 DEF SendRequest, Step
<1>3. ASSUME NEW l \in Lookups, RequestRefused(l) PROVE DelayKept'
  <2>1. /\ look' = [look EXCEPT ![l] = look'[l]] /\ look'[l].at # "sleep" /\ next' >= next
        /\ \/ delay' = delay
           \/ /\ delay'.until <= next'
              /\ \A k \in Lookups : AtStep(k, "sleep") =>
                   look[k].start >= delay'.until \/ k \in delay'.slots
    BY <1>3, RefusedStep DEF Still
  <2> QED
    BY <2>1
<1>4. ASSUME NEW l \in Lookups, ReserveSlot(l) PROVE DelayKept'
  <2>1. SlotStart \in Nat /\ SlotStart >= next
    BY DEF SlotStart, Larger
  <2> QED
    BY <1>4, <2>1 DEF ReserveSlot, Step
<1>5. ASSUME NEW e \in Enrichers, ContextEnds(e) PROVE DelayKept'
  BY <1>5 DEF ContextEnds
<1>6. CASE Tick
  BY <1>6 DEF Tick
<1>7. CASE UNCHANGED pacerVars
  BY <1>7 DEF pacerVars
<1> QED
  BY <1>1, <1>2, <1>3, <1>4, <1>5, <1>6, <1>7 DEF PacerNext, Lookup

(* The slots stay apart and delays are kept in every behaviour.             *)
LEMMA PacerInvariant == PacerSpec => [](PacerTypeOK /\ SlotsApart /\ DelayKept)
BY InitPacer, PacerTypeStep, SlotsStep, DelayStep, PTL DEF PacerSpec

(* A request of any lookup starts a spacing after the last one of the      *)
(* whole process: with any number of enrichers, and whatever is refused,   *)
(* cancelled or delayed, NVD's limit is kept (nvdfetch.go 14-21).          *)
THEOREM RequestsAreSpacedOut == PacerSpec => SpacedOut
<1>1. ASSUME PacerTypeOK, SlotsApart, [PacerNext]_pacerVars
      PROVE  [\A l \in Lookups : Sends(l) => now >= quiet]_pacerVars
  <2>1. ASSUME PacerNext, NEW l \in Lookups, Sends(l) PROVE now >= quiet
    <3>1. AtStep(l, "sleep") /\ now >= look[l].start
      BY <1>1, <2>1, OnlySleepersSend DEF SendRequest
    <3> QED
      BY <1>1, <3>1 DEF SlotsApart, PacerTypeOK
  <2> QED BY <1>1, <2>1
<1> QED
  BY <1>1, PacerInvariant, PTL DEF PacerSpec, SpacedOut

(* After a refusal no request starts before the delay is over, but for     *)
(* those whose slots were taken by then (nvdfetch.go 76-84).               *)
THEOREM DelaysAreHeeded == PacerSpec => DelayHeeded
<1>1. ASSUME PacerTypeOK, DelayKept, [PacerNext]_pacerVars
      PROVE  [\A l \in Lookups : Sends(l) => now >= delay.until \/ l \in delay.slots]_pacerVars
  <2>1. ASSUME PacerNext, NEW l \in Lookups, Sends(l)
        PROVE  now >= delay.until \/ l \in delay.slots
    <3>1. AtStep(l, "sleep") /\ now >= look[l].start
      BY <1>1, <2>1, OnlySleepersSend DEF SendRequest
    <3> QED
      BY <1>1, <3>1 DEF DelayKept, PacerTypeOK
  <2> QED BY <1>1, <2>1
<1> QED
  BY <1>1, PacerInvariant, PTL DEF PacerSpec, DelayHeeded

-----------------------------------------------------------------------------
(* The advisory index.                                                     *)

Polls == [at : {"idle", "db.json", "modules", "date", "told"}, fellBack : BOOLEAN,
          dated : Nat, index : [Advisories -> Nat]]

(* The types, and that no time lies ahead of the last publication.         *)
IndexTypeOK ==
  /\ published \in Nat /\ published >= 1
  /\ indexed \in [Advisories -> Nat]
  /\ poll \in Polls
  /\ since \in Nat
  /\ reported \in [Advisories -> Nat]
  /\ raced \in BOOLEAN
NothingAhead ==
  /\ since <= published /\ poll.dated <= published
  /\ \A a \in Advisories : indexed[a] <= published /\ poll.index[a] <= published

(* A list that is dated by a db.json read after it has no other date, and  *)
(* only the fallback dates it so.                                          *)
OneDate ==
  /\ poll.at = "db.json" => ~poll.fellBack
  /\ poll.at = "date" => poll.fellBack
  /\ poll.at \in {"idle", "db.json", "date"} => poll.dated = 0
  /\ poll.at = "modules" /\ poll.fellBack => poll.dated = 0

(* What the list holds is what the database held, or has been published    *)
(* over since.                                                             *)
ListIsPast ==
  poll.at \in {"date", "told"} =>
    \A a \in Advisories : indexed[a] = 0 \/ poll.index[a] <= indexed[a]

(* What the list is dated to hold, it holds.                               *)
DatedIsRead ==
  poll.at = "told" /\ ~raced =>
    \A a \in Advisories :
      indexed[a] # 0 /\ indexed[a] <= poll.dated => poll.index[a] = indexed[a]

IndexInv ==
  IndexTypeOK /\ NothingAhead /\ OneDate /\ ListIsPast /\ DatedIsRead /\ ChangesAreReported

(* A poll that has not begun has its type.                                  *)
LEMMA NoPollIsTyped ==
  /\ NoPoll \in Polls /\ NoPoll.dated = 0 /\ NoPoll.at = "idle" /\ ~NoPoll.fellBack
  /\ \A a \in Advisories : NoPoll.index[a] = 0
BY DEF NoPoll, Polls

(* A fresh database and a caller that never polled satisfy the invariant.   *)
LEMMA InitIndex == IndexInit => IndexInv
<1> USE DEF IndexInv, IndexTypeOK, NothingAhead, OneDate, ListIsPast, DatedIsRead,
            ChangesAreReported, Listed
<1> SUFFICES ASSUME IndexInit PROVE IndexInv
  OBVIOUS
<1>1. /\ published = 1 /\ indexed \in [Advisories -> {0, 1}] /\ poll = NoPoll
      /\ since = 0 /\ raced = FALSE /\ reported = [a \in Advisories |-> 0]
  BY DEF IndexInit
<1>2. \A a \in Advisories : indexed[a] \in {0, 1}
  BY <1>1
<1>3. IndexTypeOK
  <2>1. indexed \in [Advisories -> Nat] /\ reported \in [Advisories -> Nat]
    <3>1. {0, 1} \subseteq Nat
      OBVIOUS
    <3> HIDE DEF IndexInv, IndexTypeOK, NothingAhead, OneDate, ListIsPast, DatedIsRead
    <3> QED
      BY <1>1, <3>1
  <2>2. published \in Nat /\ published >= 1 /\ since \in Nat
    BY <1>1
  <2>3. raced \in BOOLEAN
    BY <1>1, Zenon
  <2> QED
    BY <1>1, <2>1, <2>2, <2>3, NoPollIsTyped
<1>4. NothingAhead /\ OneDate /\ ListIsPast /\ DatedIsRead
  BY <1>1, <1>2, NoPollIsTyped
<1>5. ChangesAreReported
  BY <1>1, <1>2
<1> QED
  BY <1>3, <1>4, <1>5

-----------------------------------------------------------------------------
(* A publication is newer than everything that was told or read before it. *)
LEMMA PublishStep ==
  ASSUME IndexInv, NEW a \in Advisories, Publish(a) PROVE IndexInv'
<1> USE DEF IndexInv, IndexTypeOK, NothingAhead, OneDate, ListIsPast, DatedIsRead,
            ChangesAreReported, Listed, Polls
<1>1. /\ published' = published + 1
      /\ indexed' \in [Advisories -> Nat]
      /\ indexed'[a] \in {0, published + 1}
      /\ \A b \in Advisories : b # a => indexed'[b] = indexed[b]
      /\ UNCHANGED <<poll, since, reported, raced>>
  BY DEF Publish
<1>2. \A b \in Advisories : indexed'[b] = indexed[b] \/ indexed'[b] = 0
                            \/ indexed'[b] = published + 1
  BY <1>1
<1>3. IndexTypeOK' /\ NothingAhead'
  BY <1>1, <1>2
<1>4. OneDate'
  BY <1>1
<1>5. ListIsPast'
  BY <1>1, <1>2
<1>6. DatedIsRead'
  BY <1>1, <1>2
<1>7. ChangesAreReported'
  BY <1>1, <1>2
<1> QED
  BY <1>3, <1>4, <1>5, <1>6, <1>7

(* The poll: what it keeps as its time is covered by what it reported.     *)
LEMMA PollStep ==
  ASSUME IndexInv, BeginPoll \/ DBModified \/ FetchModules \/ FetchIndex \/ ChangedModules
  PROVE  IndexInv'
<1> USE DEF IndexInv, IndexTypeOK, NothingAhead, OneDate, ListIsPast, DatedIsRead,
            ChangesAreReported, Listed, Polls, Polled, Told
<1>1. CASE BeginPoll
  <2>1. /\ poll' = [NoPoll EXCEPT !.at = "db.json"]
        /\ UNCHANGED <<published, indexed, since, reported, raced>>
    BY <1>1 DEF BeginPoll
  <2>2. poll' \in Polls /\ poll'.at = "db.json" /\ poll'.dated = 0 /\ ~poll'.fellBack
        /\ \A a \in Advisories : poll'.index[a] = 0
    BY <2>1, NoPollIsTyped
  <2> QED
    BY <2>1, <2>2
<1>2. CASE DBModified
  <2>1. UNCHANGED <<published, indexed, since, reported, raced>> /\ poll.at = "db.json"
    BY <1>2 DEF DBModified
  <2>2. CASE poll' = NoPoll
    BY <2>1, <2>2, NoPollIsTyped
  <2>3. CASE poll' = [poll EXCEPT !.at = "modules", !.dated = published]
    <3>1. poll' \in Polls /\ poll'.at = "modules" /\ poll'.dated = published
          /\ poll'.index = poll.index /\ poll'.fellBack = poll.fellBack
      BY <2>3
    <3>2. ~poll.fellBack
      BY <2>1
    <3> QED
      BY <2>1, <3>1, <3>2
  <2>4. CASE poll' = [poll EXCEPT !.at = "modules", !.fellBack = TRUE]
    BY <2>1, <2>4
  <2> QED
    BY <1>2, <2>2, <2>3, <2>4 DEF DBModified
<1>3. CASE FetchModules
  <2>1. UNCHANGED <<published, indexed, since, reported, raced>> /\ poll.at = "modules"
    BY <1>3 DEF FetchModules
  <2>2. CASE poll' = NoPoll
    BY <2>1, <2>2, NoPollIsTyped
  <2>3. CASE poll' = [poll EXCEPT !.at = IF DatesAnew(poll) THEN "date" ELSE "told",
                                  !.index = indexed]
    <3>1. poll' \in Polls /\ poll'.index = indexed /\ poll'.dated = poll.dated
          /\ poll'.fellBack = poll.fellBack
      BY <2>3
    <3>2. poll'.at = IF poll.fellBack THEN "date" ELSE "told"
      BY <2>3 DEF DatesAnew
    <3>3. CASE poll.fellBack
      BY <2>1, <3>1, <3>2, <3>3
    <3>4. CASE ~poll.fellBack
      BY <2>1, <3>1, <3>2, <3>4
    <3> QED
      BY <3>3, <3>4
  <2> QED
    BY <1>3, <2>2, <2>3 DEF FetchModules
<1>4. CASE FetchIndex
  <2>1. UNCHANGED <<published, indexed, since, reported>> /\ poll.at = "date"
    BY <1>4 DEF FetchIndex
  <2>2. CASE /\ poll' = [poll EXCEPT !.at = "told", !.dated = published]
             /\ raced' = (raced \/ (poll.fellBack /\ poll.index # indexed))
    <3>1. poll' \in Polls /\ poll'.at = "told" /\ poll'.dated = published
          /\ poll'.index = poll.index
      BY <2>2
    <3>2. raced' \in BOOLEAN
      BY <2>2
    <3>3. ~raced' => ~raced /\ poll.index = indexed
      <4>1. poll.fellBack = TRUE
        BY <2>1
      <4> HIDE DEF IndexInv, IndexTypeOK, NothingAhead, OneDate, ListIsPast, DatedIsRead
      <4> QED
        BY <4>1, <2>2
    <3>4. IndexTypeOK'
      BY <2>1, <3>1, <3>2
    <3> QED
      BY <2>1, <3>1, <3>3, <3>4
  <2>3. CASE poll' = [poll EXCEPT !.at = "told"] /\ UNCHANGED raced
    BY <2>1, <2>3
  <2> QED
    BY <1>4, <2>2, <2>3 DEF FetchIndex
<1>5. CASE ChangedModules
  <2>1. /\ poll.at = "told" /\ poll' = NoPoll
        /\ UNCHANGED <<published, indexed, raced>>
        /\ since' = IF poll.dated = 0 THEN since ELSE poll.dated
        /\ reported' = [a \in Advisories |-> IF poll.index[a] > since THEN poll.index[a]
                                             ELSE reported[a]]
    BY <1>5 DEF ChangedModules, ChangesSince, KeptTime
  <2>2. reported' \in [Advisories -> Nat]
    BY <2>1
  <2>3. IndexTypeOK' /\ NothingAhead' /\ OneDate' /\ ListIsPast' /\ DatedIsRead'
    BY <2>1, <2>2, NoPollIsTyped
  <2>4. ASSUME ~raced, NEW a \in Advisories, indexed[a] # 0, indexed[a] <= since'
        PROVE  reported'[a] = indexed[a]
    <3>1. indexed[a] \in Nat /\ poll.index[a] \in Nat /\ since \in Nat /\ poll.dated \in Nat
      OBVIOUS
    <3>2. poll.index[a] <= indexed[a]
      BY <2>1, <2>4
    <3>3. CASE poll.index[a] = indexed[a]
      BY <2>1, <2>4, <3>1, <3>3
    <3>4. CASE poll.dated = 0
      BY <2>1, <2>4, <3>1, <3>2, <3>4
    <3> QED
      BY <2>1, <2>4, <3>3, <3>4
  <2> QED
    BY <2>1, <2>3, <2>4
<1> QED
  BY <1>1, <1>2, <1>3, <1>4, <1>5

(* Publications, requests and the reading of a list keep the invariant.     *)
LEMMA IndexStep == IndexInv /\ [IndexNext]_indexVars => IndexInv'
<1> SUFFICES ASSUME IndexInv, [IndexNext]_indexVars PROVE IndexInv'
  OBVIOUS
<1>1. ASSUME UNCHANGED <<published, indexed, poll, since, reported, raced>> PROVE IndexInv'
  BY <1>1 DEF IndexInv, IndexTypeOK, NothingAhead, OneDate, ListIsPast, DatedIsRead,
              ChangesAreReported, Listed
<1>2. ASSUME NEW s \in Scans, Govulncheck(s) \/ IdentityOf(s) PROVE IndexInv'
  BY <1>1, <1>2 DEF Govulncheck, IdentityOf, Advances, Told
<1>3. CASE UNCHANGED indexVars
  BY <1>1, <1>3 DEF indexVars
<1> QED
  BY <1>2, <1>3, PublishStep, PollStep DEF IndexNext

-----------------------------------------------------------------------------
(* Whatever the database says has changed up to the caller's timestamp was *)
(* reported to the caller, unless a fallback dated the list with a later   *)
(* db.json (ChangedModules, vulndb.go 253-274).                            *)
THEOREM NoChangeIsLost == IndexSpec => []ChangesAreReported
<1>1. IndexInv => ChangesAreReported
  BY DEF IndexInv
<1> QED
  BY <1>1, InitIndex, IndexStep, PTL DEF IndexSpec
=============================================================================
