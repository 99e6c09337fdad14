-------------------------- MODULE OnceCacheProofs --------------------------
(***************************************************************************)
(* Proofs about OnceCache for any calls, keys, renames and contexts.       *)
(***************************************************************************)
EXTENDS OnceCache, TLAPS

(* The empty cache satisfies the inductive invariant.                      *)
LEMMA InitIInv == Init => IInv
BY OnceAssumption
DEF Init, IInv, TypeOK, AskingIsInMap, Asking, Led, PCs, Entries

(* The inductive invariant is preserved by every step of every call and by *)
(* a cancellation: only the call that made an entry takes it out of the    *)
(* map, and only before anybody sees it finished.                          *)
LEMMA NextIInv == IInv /\ [Next]_vars => IInv'
<1> SUFFICES ASSUME IInv, [Next]_vars PROVE IInv'
  OBVIOUS
<1> USE OnceAssumption
<1>1. ASSUME NEW c \in Calls, Join(c) PROVE IInv'
  BY <1>1 DEF Join, IInv, TypeOK, AskingIsInMap, Asking, Led, CutShort, Cancelled,
              PCs, Entries
<1>2. ASSUME NEW c \in Calls, Lead(c) PROVE IInv'
  BY <1>2 DEF Lead, IInv, TypeOK, AskingIsInMap, Asking, Led, CutShort, Cancelled,
              PCs, Entries
<1>3. ASSUME NEW c \in Calls, FnReturns(c) PROVE IInv'
  BY <1>3 DEF FnReturns, IInv, TypeOK, AskingIsInMap, Asking, Led, CutShort, Cancelled,
              PCs, Entries, Answers
<1>4. ASSUME NEW c \in Calls, FnPanics(c) PROVE IInv'
  BY <1>4 DEF FnPanics, IInv, TypeOK, AskingIsInMap, Asking, Led, CutShort, Cancelled,
              PCs, Entries
<1>5. ASSUME NEW c \in Calls, Settle(c) PROVE IInv'
  BY <1>5 DEF Settle, Forgets, IInv, TypeOK, AskingIsInMap, Asking, Led,
              CutShort, Cancelled, PCs, Entries
<1>6. ASSUME NEW c \in Calls, Close(c) PROVE IInv'
  BY <1>6 DEF Close, IInv, TypeOK, AskingIsInMap, Asking, Led, CutShort, Cancelled,
              PCs, Entries
<1>7. ASSUME NEW c \in Calls, WaitEnds(c) PROVE IInv'
  BY <1>7 DEF WaitEnds, IInv, TypeOK, AskingIsInMap, Asking, Led, CutShort, Cancelled,
              PCs, Entries
<1>8. ASSUME NEW c \in Calls, Return(c) PROVE IInv'
  BY <1>8 DEF Return, IInv, TypeOK, AskingIsInMap, Asking, Led, CutShort, Cancelled,
              PCs, Entries
<1>9. ASSUME NEW x \in Ctxs, Cancel(x) PROVE IInv'
  BY <1>9 DEF Cancel, IInv, TypeOK, AskingIsInMap, Asking, Led, CutShort, Cancelled,
              PCs, Entries
<1>10. CASE UNCHANGED vars
  BY <1>10 DEF vars, IInv, TypeOK, AskingIsInMap, Asking, Led, CutShort, Cancelled,
               PCs, Entries
<1> QED
  BY <1>1, <1>2, <1>3, <1>4, <1>5, <1>6, <1>7, <1>8, <1>9, <1>10
  DEF Next, Step

(* The inductive invariant holds in every behaviour of the cache.          *)
LEMMA Invariance == Spec => []IInv
BY InitIInv, NextIInv, PTL DEF Spec

(* The type invariant of the cache.                                        *)
THEOREM TypeCorrect == Spec => []TypeOK
<1>1. IInv => TypeOK  BY DEF IInv
<1> QED  BY <1>1, Invariance, PTL

(* onceCache.do runs at most one lookup of a key at a time, for any number *)
(* of callers, panics included.                                            *)
THEOREM SingleFlightHolds == Spec => []SingleFlight
<1>1. IInv => SingleFlight
  BY DEF IInv, AskingIsInMap, SingleFlight
<1> QED  BY <1>1, Invariance, PTL

(* A repository is asked about once for the life of the scanner, whatever  *)
(* the answer, unless the asking caller's context is cancelled.            *)
THEOREM AskedOnceHolds == Spec => []AskedOnce
<1>1. IInv => AskedOnce
  BY DEF IInv, AskedOnce, CutShort
<1> QED  BY <1>1, Invariance, PTL

(* A finished entry is never replaced or dropped: neither set() under a    *)
(* canonical name nor a cancelled lookup touches it.                       *)
THEOREM RememberedForGoodHolds == Spec => RememberedForGood
<1> DEFINE Kept == \A k \in Keys : m[k] # None /\ Finished(m[k]) => m'[k] = m[k]
<1>1. IInv /\ [Next]_vars => [Kept]_vars
  <2> SUFFICES ASSUME IInv, Next, NEW k \in Keys, m[k] # None, Finished(m[k])
               PROVE m'[k] = m[k]
    OBVIOUS
  <2> USE OnceAssumption DEF IInv, TypeOK
  <2>1. ASSUME NEW c \in Calls, Settle(c) PROVE m'[k] = m[k]
    <3>1. c \notin closed /\ c # Preset
      BY <2>1 DEF Settle
    <3>2. m[KeyOf[c]] = c
      BY <2>1 DEF Settle, AskingIsInMap, Asking
    <3>3. KeyOf[c] # k
      BY <3>1, <3>2 DEF Finished
    <3> QED  BY <2>1, <3>3 DEF Settle
  <2>2. ASSUME NEW c \in Calls, Lead(c) \/ Return(c) PROVE m'[k] = m[k]
    BY <2>2 DEF Lead, Return
  <2>3. ASSUME NEW c \in Calls,
               \/ Join(c) \/ FnReturns(c) \/ FnPanics(c)
               \/ Close(c) \/ WaitEnds(c)
        PROVE m'[k] = m[k]
    BY <2>3 DEF Join, FnReturns, FnPanics, Close, WaitEnds
  <2>4. ASSUME NEW x \in Ctxs, Cancel(x) PROVE m'[k] = m[k]
    BY <2>4 DEF Cancel
  <2> QED  BY <2>1, <2>2, <2>3, <2>4 DEF Next, Step
<1> QED
  BY <1>1, Invariance, PTL DEF Spec, RememberedForGood
-----------------------------------------------------------------------------
(* What a finished entry answers for a key; "none" while there is none.    *)
Answer(k) == IF m[k] # None /\ Finished(m[k]) THEN ValueOf(m[k]) ELSE "none"

(* Once a key is answered, its answer is the same for good: neither the    *)
(* entry nor what it holds is written again.                               *)
LEMMA AnswerStays ==
  IInv /\ [Next]_vars => \A k \in Keys : Answer(k) # "none" => Answer(k)' = Answer(k)
<1> SUFFICES ASSUME IInv, [Next]_vars, NEW k \in Keys,
                    m[k] # None, Finished(m[k])
             PROVE  Answer(k)' = Answer(k)
  BY DEF Answer
<1> USE OnceAssumption DEF IInv, TypeOK
<1>1. m'[k] = m[k] /\ val'[m[k]] = val[m[k]] /\ closed \subseteq closed'
  <2>1. ASSUME NEW c \in Calls, Settle(c)
        PROVE  m'[k] = m[k] /\ UNCHANGED <<val, closed>>
    <3>1. m[KeyOf[c]] = c /\ c \notin closed
      BY <2>1 DEF Settle, AskingIsInMap, Asking
    <3> QED  BY <2>1, <3>1 DEF Settle, Finished
  <2>2. ASSUME NEW c \in Calls, FnReturns(c)
        PROVE  m'[k] = m[k] /\ val'[m[k]] = val[m[k]] /\ closed' = closed
    <3>1. c \notin closed
      BY <2>2 DEF FnReturns
    <3>2. m[k] # c
      BY <3>1 DEF Finished
    <3>3. PICK a \in Answers : val' = [val EXCEPT ![c] = a]
      BY <2>2 DEF FnReturns
    <3> QED  BY <2>2, <3>2, <3>3 DEF FnReturns, Entries
  <2>3. ASSUME NEW c \in Calls, Lead(c) \/ Return(c)
        PROVE  m'[k] = m[k] /\ UNCHANGED <<val, closed>>
    BY <2>3 DEF Lead, Return
  <2>4. ASSUME NEW c \in Calls,
               Join(c) \/ FnPanics(c) \/ Close(c) \/ WaitEnds(c)
        PROVE  UNCHANGED <<m, val>> /\ closed \subseteq closed'
    BY <2>4 DEF Join, FnPanics, Close, WaitEnds
  <2>5. ASSUME NEW x \in Ctxs, Cancel(x) PROVE UNCHANGED <<m, val, closed>>
    BY <2>5 DEF Cancel
  <2>6. CASE UNCHANGED vars
    BY <2>6 DEF vars
  <2> QED
    BY <2>1, <2>2, <2>3, <2>4, <2>5, <2>6 DEF Next, Step
<1> QED
  BY <1>1 DEF Answer, Finished, ValueOf

(* A call is answered only from a finished entry: its own, or the one it   *)
(* joined instead of leading.                                              *)
AnsweredWhenFinished ==
  \A c \in Calls :
    /\ pc[c] \in {"idle", "running", "ran", "settled"} => joined[c] = None
    /\ pc[c] \in {"answered", "returned"} =>
         IF joined[c] = None THEN c \in closed ELSE Finished(joined[c])

(* Every step keeps it: do returns after the close of its entry's channel.  *)
LEMMA AnsweredWhenFinishedInvariant == Spec => []AnsweredWhenFinished
<1> USE OnceAssumption
<1>1. Init => AnsweredWhenFinished
  BY DEF Init, AnsweredWhenFinished
<1>2. IInv /\ AnsweredWhenFinished /\ [Next]_vars => AnsweredWhenFinished'
  <2> SUFFICES ASSUME IInv, AnsweredWhenFinished, [Next]_vars
               PROVE  AnsweredWhenFinished'
    OBVIOUS
  <2> USE DEF IInv, TypeOK, AnsweredWhenFinished, Finished
  <2>1. ASSUME NEW c \in Calls, Join(c) PROVE AnsweredWhenFinished'
    BY <2>1 DEF Join
  <2>2. ASSUME NEW c \in Calls, Lead(c) PROVE AnsweredWhenFinished'
    BY <2>2 DEF Lead
  <2>3. ASSUME NEW c \in Calls, FnReturns(c) \/ FnPanics(c) \/ Settle(c)
        PROVE  AnsweredWhenFinished'
    BY <2>3 DEF FnReturns, FnPanics, Settle
  <2>4. ASSUME NEW c \in Calls, Close(c) PROVE AnsweredWhenFinished'
    BY <2>4 DEF Close
  <2>5. ASSUME NEW c \in Calls, WaitEnds(c) PROVE AnsweredWhenFinished'
    BY <2>5 DEF WaitEnds
  <2>6. ASSUME NEW c \in Calls, Return(c) PROVE AnsweredWhenFinished'
    BY <2>6 DEF Return
  <2>7. ASSUME NEW x \in Ctxs, Cancel(x) PROVE AnsweredWhenFinished'
    BY <2>7 DEF Cancel
  <2>8. CASE UNCHANGED vars
    BY <2>8 DEF vars
  <2> QED
    BY <2>1, <2>2, <2>3, <2>4, <2>5, <2>6, <2>7, <2>8 DEF Next, Step
<1> QED
  BY <1>1, <1>2, Invariance, PTL DEF Spec

(* A call joins the lookup of a call for its own key, or an entry made by  *)
(* set(), which is never forgotten.                                        *)
JoinedStays ==
  /\ \A k \in Keys : m[k] \in Calls => Led(m[k]) /\ KeyOf[m[k]] = k
  /\ \A c \in Calls : joined[c] # None =>
       IF joined[c] = Preset THEN m[KeyOf[c]] = Preset
       ELSE Led(joined[c]) /\ KeyOf[joined[c]] = KeyOf[c]

(* Every step keeps it: a call forgets no entry but its own.                *)
LEMMA JoinedStaysInvariant == Spec => []JoinedStays
<1> USE OnceAssumption
<1>1. Init => JoinedStays
  BY DEF Init, JoinedStays
<1>2. IInv /\ AnsweredWhenFinished /\ JoinedStays /\ [Next]_vars => JoinedStays'
  <2> SUFFICES ASSUME IInv, AnsweredWhenFinished, JoinedStays, [Next]_vars
               PROVE  JoinedStays'
    OBVIOUS
  <2> USE DEF IInv, TypeOK, Entries
  \* Who has led a lookup has led it for good.
  <2>1. ASSUME NEW c \in Calls, Led(c) PROVE Led(c)'
    <3>1. pc[c] \in {"running", "ran", "settled"} => joined[c] = None
      BY DEF AnsweredWhenFinished
    <3>2. CASE UNCHANGED vars
      BY <2>1, <3>2 DEF vars, Led
    <3>3. ASSUME NEW d \in Calls, Step(d) PROVE Led(c)'
      BY <2>1, <3>1, <3>3
      DEF Step, Led, Join, Lead, FnReturns, FnPanics, Settle, Close, WaitEnds, Return
    <3>4. ASSUME NEW x \in Ctxs, Cancel(x) PROVE Led(c)'
      BY <2>1, <3>4 DEF Cancel, Led
    <3> QED
      BY <3>2, <3>3, <3>4 DEF Next
  <2>2. ASSUME NEW c \in Calls, Join(c) PROVE JoinedStays'
    BY <2>1, <2>2 DEF Join, JoinedStays
  <2>3. ASSUME NEW c \in Calls, Lead(c) PROVE JoinedStays'
    <3>1. m[KeyOf[c]] = None /\ m' = [m EXCEPT ![KeyOf[c]] = c] /\ joined' = joined
      BY <2>3 DEF Lead
    <3>2. Led(c)'
      BY <2>3 DEF Lead, Led
    <3> QED
      BY <2>1, <3>1, <3>2 DEF JoinedStays
  <2>4. ASSUME NEW c \in Calls, Settle(c) PROVE JoinedStays'
    <3>1. m[KeyOf[c]] = c /\ joined' = joined
      BY <2>4 DEF Settle, AskingIsInMap, Asking
    <3>2. m' = m \/ m' = [m EXCEPT ![KeyOf[c]] = None]
      BY <2>4 DEF Settle
    <3> QED
      BY <2>1, <3>1, <3>2 DEF JoinedStays
  <2>5. ASSUME NEW c \in Calls, Return(c) PROVE JoinedStays'
    BY <2>1, <2>5 DEF Return, JoinedStays
  <2>6. ASSUME UNCHANGED <<m, joined>> PROVE JoinedStays'
    BY <2>1, <2>6 DEF JoinedStays
  <2> QED
    BY <2>2, <2>3, <2>4, <2>5, <2>6
    DEF Next, Step, vars, FnReturns, FnPanics, Close, WaitEnds, Cancel
<1> QED
  BY <1>1, <1>2, Invariance, AnsweredWhenFinishedInvariant, PTL DEF Spec

(* Who is not told the error of a cancelled lookup is told what its key's  *)
(* entry answers, whether it led the lookup or joined it.                  *)
LEMMA ToldTheAnswer ==
  ASSUME IInv, JoinedStays, AnsweredWhenFinished,
         NEW c \in Calls, pc[c] = "returned",
         Asker(c) # Preset => ~CutShort(Asker(c))
  PROVE  Result(c) = Answer(KeyOf[c])
<1> USE OnceAssumption
<1>1. CASE joined[c] = None
  <2>1. m[KeyOf[c]] = c
    BY <1>1 DEF IInv, Led, Asker
  <2> QED
    BY <1>1, <2>1 DEF Result, Answer, ValueOf, Finished, AnsweredWhenFinished
<1>2. CASE joined[c] # None
  <2>1. m[KeyOf[c]] = joined[c]
    BY <1>2 DEF JoinedStays, Asker, IInv, TypeOK, Entries
  <2> QED
    BY <1>2, <2>1 DEF Result, Answer, AnsweredWhenFinished
<1> QED
  BY <1>1, <1>2

(* Two callers that are told different answers for one key were not both   *)
(* told what its entry holds: one of them led or joined a lookup that      *)
(* failed under a cancelled context (onceCache.do and repoMeta,            *)
(* maintainer.go).  Callers by different names of one repository are not   *)
(* compared.                                                               *)
THEOREM CallersAgreeHolds == Spec => []CallersAgree
<1>1. IInv /\ JoinedStays /\ AnsweredWhenFinished => CallersAgree
  BY ToldTheAnswer DEF CallersAgree
<1> QED
  BY <1>1, Invariance, JoinedStaysInvariant, AnsweredWhenFinishedInvariant,
     PTL
=============================================================================
