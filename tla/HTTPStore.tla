------------------------------ MODULE HTTPStore ------------------------------
(***************************************************************************)
(* facts.HTTPStore (pkg/facts/http.go): concurrent gets over one store with*)
(* a cache, a count of unanswered requests and a flag that stops it.       *)
(*                                                                         *)
(* A caller makes one get after the other, each with a context of its own. *)
(* The store's mutex is held for the look before a request, for each       *)
(* change of the count or of the flag, and for the write of the cache, and *)
(* never while a request or a wait is under way.                           *)
(***************************************************************************)
EXTENDS Naturals, FiniteSets

CONSTANTS
  Callers,            \* the goroutines that share the store
  Targets,            \* the facts that may be asked for
  unavailableAfter,
  MaxGets             \* bound: the gets begun

ASSUME HTTPAssumption ==
  /\ unavailableAfter \in Nat \ {0} /\ MaxGets \in Nat
  /\ Targets # {} /\ Callers # {} /\ IsFiniteSet(Callers)

VARIABLES
  known,      \* the facts the service has
  cache,      \* per target what is remembered, "none" for nothing
  disabled,   \* "no", or why the store stopped: "key" or "silent"
  failures,   \* requests in a row that got no answer
  pc, target, result, cancelled,   \* the get of each caller
  gets,       \* the gets begun
  uncut,      \* per target: the requested gets that nobody cancelled
  after       \* requests made after the store stopped

service == <<cache, disabled, failures>>
history == <<gets, uncut, after>>
vars == <<known, service, pc, target, result, cancelled, history>>

Kinds == {"hit", "miss", "error", "cut"}

TypeOK ==
  /\ known \subseteq Targets
  /\ cache \in [Targets -> Kinds \cup {"none"}]
  /\ disabled \in {"no", "key", "silent"}
  /\ failures \in Nat
  /\ pc \in [Callers -> {"idle", "ask", "sent", "wait", "resent", "done"}]
  /\ target \in [Callers -> Targets]
  /\ result \in [Callers -> Kinds \cup {"none"}]
  /\ \A c \in Callers : pc[c] = "done" => result[c] # "none"
  /\ cancelled \in [Callers -> BOOLEAN]
  /\ gets \in 0..MaxGets /\ after \in Nat
  /\ uncut \in [Targets -> Nat]

Init ==
  /\ known \in SUBSET Targets
  /\ cache = [t \in Targets |-> "none"]
  /\ disabled = "no" /\ failures = 0
  /\ pc = [c \in Callers |-> "idle"]
  /\ target \in [Callers -> {CHOOSE t \in Targets : TRUE}]
  /\ result = [c \in Callers |-> "none"]
  /\ cancelled = [c \in Callers |-> FALSE]
  /\ gets = 0 /\ after = 0
  /\ uncut = [t \in Targets |-> 0]

Requested == after' = IF disabled = "no" THEN after ELSE after + 1

Ends(c, kind) ==
  /\ pc' = [pc EXCEPT ![c] = "done"]
  /\ result' = [result EXCEPT ![c] = kind]

-----------------------------------------------------------------------------
(* Whether get goes on to a request, after its look at cache and flag.     *)
\* Mutant: the flag is not looked at.
AsksAnyway(t) == cache[t] = "none"
Asks(t) == cache[t] = "none" /\ disabled = "no"

(* get's first critical section.  A get that is served from the cache or by*)
(* the flag returns at once and changes nothing.                           *)
Get(c, t) ==
  /\ pc[c] = "idle" /\ gets < MaxGets
  /\ Asks(t)
  /\ gets' = gets + 1
  /\ pc' = [pc EXCEPT ![c] = "ask"]
  /\ target' = [target EXCEPT ![c] = t]
  /\ result' = [result EXCEPT ![c] = "none"]
  /\ cancelled' = [cancelled EXCEPT ![c] = FALSE]
  /\ UNCHANGED <<known, service, uncut, after>>

(* client.Do sends the first request, unless the context has ended.        *)
Send(c) ==
  /\ pc[c] = "ask" /\ ~cancelled[c]
  /\ pc' = [pc EXCEPT ![c] = "sent"]
  /\ Requested
  /\ UNCHANGED <<known, service, target, result, cancelled, gets, uncut>>

Sent(c) == pc[c] \in {"sent", "resent"}

(* The request ended because its context did: this says nothing about the  *)
(* service.                                                                *)
CutShort(c) ==
  /\ pc[c] \in {"ask", "sent", "resent"} /\ cancelled[c]
  /\ Ends(c, "cut")
  /\ UNCHANGED <<known, service, target, cancelled, history>>

(* 200 with the fact, 404 without: answered().                             *)
Answered(c) ==
  /\ Sent(c)
  /\ Ends(c, IF target[c] \in known THEN "hit" ELSE "miss")
  /\ failures' = 0
  /\ UNCHANGED <<known, cache, disabled, target, cancelled, gets, uncut, after>>

(* 401 or 403.                                                             *)
Refused(c) ==
  /\ Sent(c)
  /\ Ends(c, "error")
  /\ disabled' = "key"
  /\ UNCHANGED <<known, cache, failures, target, cancelled, gets, uncut, after>>

(* 429 without a usable Retry-After or after one wait, any other 4xx, a    *)
(* redirect, a body that cannot be read.                                   *)
Rejected(c) ==
  /\ Sent(c)
  /\ Ends(c, "error")
  /\ UNCHANGED <<known, service, target, cancelled, gets, uncut, after>>

(* 429 with a short Retry-After, the first time.                           *)
Limited(c) ==
  /\ pc[c] = "sent"
  /\ pc' = [pc EXCEPT ![c] = "wait"]
  /\ UNCHANGED <<known, service, target, result, cancelled, gets, uncut, after>>

\* Mutant: the store stops one failure late.
StopsAtLate(n) == n > unavailableAfter
StopsAt(n) == n >= unavailableAfter

(* A network error or a timeout, of a live context, or a 5xx: noAnswer().  *)
NoAnswer(c) ==
  /\ Sent(c)
  /\ Ends(c, "error")
  /\ failures' = failures + 1
  /\ disabled' = IF StopsAt(failures + 1) /\ disabled = "no" THEN "silent"
                 ELSE disabled
  /\ UNCHANGED <<known, cache, target, cancelled, gets, uncut, after>>

(* The wait ends with the context, or the request is made a second time.   *)
WaitEnds(c) ==
  /\ pc[c] = "wait"
  /\ \/ cancelled[c] /\ Ends(c, "cut") /\ UNCHANGED after
     \/ /\ pc' = [pc EXCEPT ![c] = "resent"]
        /\ Requested /\ UNCHANGED result
  /\ UNCHANGED <<known, service, target, cancelled, gets, uncut>>

\* Mutant: a cancelled get is remembered.
RemembersCut(c) == TRUE

Remembers(c) == ~cancelled[c]

(* get's last critical section.                                            *)
Remember(c) ==
  /\ pc[c] = "done"
  /\ cache' = IF Remembers(c) THEN [cache EXCEPT ![target[c]] = result[c]]
              ELSE cache
  /\ uncut' = IF cancelled[c] THEN uncut
              ELSE [uncut EXCEPT ![target[c]] = @ + 1]
  /\ pc' = [pc EXCEPT ![c] = "idle"]
  /\ UNCHANGED <<known, disabled, failures, target, result, cancelled, gets,
                 after>>

(* The context of a get ends.                                              *)
Cancel(c) ==
  /\ pc[c] # "idle" /\ ~cancelled[c]
  /\ cancelled' = [cancelled EXCEPT ![c] = TRUE]
  /\ UNCHANGED <<known, service, pc, target, result, history>>

Caller(c) ==
  \/ \E t \in Targets : Get(c, t)
  \/ Send(c) \/ CutShort(c) \/ Answered(c) \/ Refused(c) \/ Rejected(c)
  \/ Limited(c) \/ NoAnswer(c) \/ WaitEnds(c) \/ Remember(c)

Next == \E c \in Callers : Caller(c) \/ Cancel(c)

Spec == Init /\ [][Next]_vars

-----------------------------------------------------------------------------
(* "Safe for concurrent use" (facts.go:83) and "no further request"        *)
(* (http.go:24-25): once the store has stopped, only the gets that were    *)
(* under way ask, each at most twice; one caller alone asks nothing more.  *)
StopStops == after <= 2 * (Cardinality(Callers) - 1)

(* "A service that hangs costs the timeout twice, not once per lookup"     *)
(* (http.go:25): with several callers, once more for each of the others.   *)
HangsAreFew == failures <= unavailableAfter + Cardinality(Callers) - 1

(* "A cancelled scan says nothing about the fact" (http.go:109): what is   *)
(* remembered of a fact is what the service said of it, whatever became of *)
(* the other gets, and no failure or cancellation passes for a miss.       *)
CacheIsTheService == \A t \in Targets :
  /\ cache[t] = "hit" => t \in known
  /\ cache[t] = "miss" => t \notin known
  /\ cache[t] # "cut"

(* "A fact is asked for once per run (the answer, a miss included, is kept *)
(* in memory)" (docs/facts-api.md:31-32), cancelled gets aside: once by one*)
(* caller alone, and once by each of several that look before the first    *)
(* answer is remembered.                                                   *)
AskedOnceEach == \A t \in Targets : uncut[t] <= Cardinality(Callers)

-----------------------------------------------------------------------------
(* Inductive strengthenings, for the proofs in RequestsProofs.            *)

(* A finished get says of its fact what the service said, and a get that   *)
(* was cut short knows that its context has ended.                         *)
ResultIsTheService == \A c \in Callers : pc[c] = "done" =>
  /\ result[c] = "hit" => target[c] \in known
  /\ result[c] = "miss" => target[c] \notin known
  /\ result[c] = "cut" => cancelled[c]

Pending(t) == {c \in Callers : pc[c] # "idle" /\ target[c] = t}

(* What is not remembered was not asked to the end, and every get under way*)
(* may still be asked to the end once.                                     *)
AskedMeansRemembered == \A t \in Targets :
  /\ cache[t] = "none" => uncut[t] = 0
  /\ uncut[t] + Cardinality(Pending(t)) <= Cardinality(Callers)

At(L) == {c \in Callers : pc[c] \in L}
Open == {"ask", "sent", "wait", "resent"}   \* may still get no answer
Again == {"ask", "sent", "wait"}            \* may still make a request
Unsent == {"ask"}                           \* may still make two

(* Once the store has stopped, what it may still be asked and may still not*)
(* be answered is used up by the gets that are under way.                  *)
StopIsBounded ==
  /\ disabled = "no" => after = 0 /\ failures < unavailableAfter
  /\ disabled # "no" =>
       /\ failures + Cardinality(At(Open))
            <= unavailableAfter + Cardinality(Callers) - 1
       /\ after + Cardinality(At(Again)) + Cardinality(At(Unsent))
            <= 2 * (Cardinality(Callers) - 1)
=============================================================================
