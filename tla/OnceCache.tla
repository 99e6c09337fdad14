----------------------------- MODULE OnceCache -----------------------------
(***************************************************************************)
(* onceCache of pkg/scanner/maintainer.go: a lookup runs once per key and  *)
(* its result, errors included, is shared with every caller, concurrent or *)
(* later.  It is modelled together with its main user, repoMeta, which     *)
(* after a good answer also records it under the repository's canonical    *)
(* name (GitHub serves a renamed repository through a redirect).           *)
(*                                                                         *)
(* One element of Calls is one call of repoMeta.  An entry of the map is   *)
(* named by the call that created it; Preset is an entry made by set(),    *)
(* which is born finished and good.                                        *)
(***************************************************************************)
EXTENDS Naturals, FiniteSets

CONSTANTS
  Calls,      \* the calls made over the life of the cache
  Keys,       \* lower-cased owner/repo names
  KeyOf,      \* [Calls -> Keys]: the key a call asks for
  Canonical,  \* [Keys -> Keys]: the full_name GitHub reports for a key
  CtxOf,      \* [Calls -> Ctxs]: the context a call was made with
  Ctxs,
  MayPanic,   \* whether the lookup function may panic
  None, Preset

ASSUME OnceAssumption ==
  /\ KeyOf \in [Calls -> Keys]
  /\ Canonical \in [Keys -> Keys]
  /\ CtxOf \in [Calls -> Ctxs]
  /\ MayPanic \in BOOLEAN
  /\ None \notin Calls
  /\ Preset \notin Calls
  /\ None # Preset

VARIABLES
  pc,         \* where each call is
  m,          \* the map: key -> entry (c.m)
  val,        \* what the run of a call produced (e.val, e.err)
  closed,     \* the calls whose entry's done channel is closed
  joined,     \* the entry a call found in the map and waits for
  cancelled   \* the cancelled contexts

vars == <<pc, m, val, closed, joined, cancelled>>

\* "ok": a record; "gone": a 404, a definitive answer; "failed": anything else.
Answers == {"ok", "gone", "failed"}

PCs == {"idle", "running", "ran", "settled", "waiting", "answered",
        "returned", "panicked"}

Entries == Calls \cup {Preset}

TypeOK ==
  /\ pc \in [Calls -> PCs]
  /\ m \in [Keys -> Entries \cup {None}]
  /\ val \in [Calls -> Answers \cup {"none"}]
  /\ closed \in SUBSET Calls
  /\ joined \in [Calls -> Entries \cup {None}]
  /\ cancelled \in SUBSET Ctxs

Init ==
  /\ pc = [c \in Calls |-> "idle"]
  /\ m = [k \in Keys |-> None]
  /\ val = [c \in Calls |-> "none"]
  /\ closed = {}
  /\ joined = [c \in Calls |-> None]
  /\ cancelled = {}

Cancelled(c) == CtxOf[c] \in cancelled

\* The value an entry holds once it is finished.
ValueOf(e) == IF e = Preset THEN "ok" ELSE val[e]

Finished(e) == e = Preset \/ e \in closed

\* What a call hands to its caller.
Result(c) == IF joined[c] = None THEN val[c] ELSE ValueOf(joined[c])

-----------------------------------------------------------------------------
(* do: the critical section that finds the entry or makes one.             *)
Join(c) ==
  /\ pc[c] = "idle"
  /\ m[KeyOf[c]] # None
  /\ joined' = [joined EXCEPT ![c] = m[KeyOf[c]]]
  /\ pc' = [pc EXCEPT ![c] = "waiting"]
  /\ UNCHANGED <<m, val, closed, cancelled>>

\* Mutant: a call that does not look for a running lookup first.
LeadAnyway(c) ==
  /\ pc[c] = "idle"
  /\ m' = [m EXCEPT ![KeyOf[c]] = c]
  /\ pc' = [pc EXCEPT ![c] = "running"]
  /\ UNCHANGED <<val, closed, joined, cancelled>>

Lead(c) ==
  /\ pc[c] = "idle"
  /\ m[KeyOf[c]] = None
  /\ m' = [m EXCEPT ![KeyOf[c]] = c]
  /\ pc' = [pc EXCEPT ![c] = "running"]
  /\ UNCHANGED <<val, closed, joined, cancelled>>

(* fn returns: the entry's fields are written before the channel closes.   *)
FnReturns(c) ==
  /\ pc[c] = "running"
  /\ \E a \in Answers : val' = [val EXCEPT ![c] = a]
  /\ pc' = [pc EXCEPT ![c] = "ran"]
  /\ UNCHANGED <<m, closed, joined, cancelled>>

(* fn panics: nothing after the call runs, so the entry stays in the map   *)
(* with its channel open.                                                  *)
FnPanics(c) ==
  /\ MayPanic
  /\ pc[c] = "running"
  /\ pc' = [pc EXCEPT ![c] = "panicked"]
  /\ UNCHANGED <<m, val, closed, joined, cancelled>>

(* An error made while the caller's context was cancelled is forgotten.    *)
\* Mutant: every error is forgotten, cancelled or not.
ForgetsFailures(c) == val[c] # "ok"

Forgets(c) == val[c] # "ok" /\ Cancelled(c)

Settle(c) ==
  /\ pc[c] = "ran"
  /\ m' = IF Forgets(c) THEN [m EXCEPT ![KeyOf[c]] = None] ELSE m
  /\ pc' = [pc EXCEPT ![c] = "settled"]
  /\ UNCHANGED <<val, closed, joined, cancelled>>

\* Mutant: an early return after the delete leaves the channel open.
CloseUnlessForgotten(c) ==
  /\ pc[c] = "settled"
  /\ closed' = IF m[KeyOf[c]] = c THEN closed \cup {c} ELSE closed
  /\ pc' = [pc EXCEPT ![c] = "answered"]
  /\ UNCHANGED <<m, val, joined, cancelled>>

Close(c) ==
  /\ pc[c] = "settled"
  /\ closed' = closed \cup {c}
  /\ pc' = [pc EXCEPT ![c] = "answered"]
  /\ UNCHANGED <<m, val, joined, cancelled>>

WaitEnds(c) ==
  /\ pc[c] = "waiting"
  /\ Finished(joined[c])
  /\ pc' = [pc EXCEPT ![c] = "answered"]
  /\ UNCHANGED <<m, val, closed, joined, cancelled>>

Return(c) ==
  LET alias == Canonical[KeyOf[c]] IN
  /\ pc[c] = "answered"
  /\ m' = IF Result(c) = "ok" /\ m[alias] = None
          THEN [m EXCEPT ![alias] = Preset] ELSE m
  /\ pc' = [pc EXCEPT ![c] = "returned"]
  /\ UNCHANGED <<val, closed, joined, cancelled>>

Cancel(x) ==
  /\ x \notin cancelled
  /\ cancelled' = cancelled \cup {x}
  /\ UNCHANGED <<pc, m, val, closed, joined>>

Step(c) ==
  \/ Join(c) \/ Lead(c) \/ FnReturns(c) \/ FnPanics(c)
  \/ Settle(c) \/ Close(c) \/ WaitEnds(c) \/ Return(c)

Next ==
  \/ \E c \in Calls : Step(c)
  \/ \E x \in Ctxs : Cancel(x)

(* Every caller's goroutine keeps running, and a lookup ends: the client   *)
(* has a timeout (NewClient(ClientOptions{Timeout: timeout})).             *)
Fairness == \A c \in Calls : WF_vars(Step(c))

Spec == Init /\ [][Next]_vars

FairSpec == Spec /\ Fairness

-----------------------------------------------------------------------------
(* The calls that ran the lookup themselves.                               *)
Led(c) == pc[c] \in {"running", "ran", "settled", "panicked"}
            \/ (pc[c] \in {"answered", "returned"} /\ joined[c] = None)

(* The lookup of a call is under way (or panicked half way).                *)
Asking(c) == pc[c] \in {"running", "ran", "panicked"}

(* While a lookup of a key is under way, its entry is the one in the map:  *)
(* a later caller joins it and never asks a second time, and no set() or   *)
(* forget of another caller takes its place.                               *)
AskingIsInMap == \A c \in Calls : Asking(c) => m[KeyOf[c]] = c

(* One request at a time per repository (maintainer.go:153-157).           *)
SingleFlight ==
  \A c, d \in Calls :
    Asking(c) /\ Asking(d) /\ KeyOf[c] = KeyOf[d] => c = d

(* "A 404 or a rate limit is asked about once": of the calls that asked    *)
(* for a key with a context nobody cancelled, there is only one, whatever  *)
(* it was answered.                                                        *)
AskedOnce ==
  \A c, d \in Calls :
    /\ Led(c) /\ Led(d) /\ KeyOf[c] = KeyOf[d]
    /\ ~Cancelled(c) /\ ~Cancelled(d)
    => c = d

(* The call whose lookup answered a call, and whether that lookup failed   *)
(* under a context that is cancelled.                                      *)
Asker(c) == IF joined[c] = None THEN c ELSE joined[c]
CutShort(c) == val[c] # "ok" /\ Cancelled(c)

(* Every module is told the same thing about one name of a repository,     *)
(* however the calls interleave and whoever is cancelled: of two calls that*)
(* return different answers for one key, one was told the error of a       *)
(* lookup whose context is cancelled.  Under the two names of a renamed    *)
(* repository the answers may differ: set() replaces no entry.             *)
CallersAgree ==
  \A c, d \in Calls :
    /\ pc[c] = "returned" /\ pc[d] = "returned" /\ KeyOf[c] = KeyOf[d]
    /\ \A e \in {Asker(c), Asker(d)} \ {Preset} : ~CutShort(e)
    => Result(c) = Result(d)

(* What is remembered stays remembered: a key whose entry is finished is   *)
(* never given another one.                                                *)
RememberedForGood ==
  [][\A k \in Keys : m[k] # None /\ Finished(m[k]) => m'[k] = m[k]]_vars

(* What makes AskedOnce and RememberedForGood inductive: an entry that no *)
(* cancellation cut short is still the one in the map, only an asked entry *)
(* can be waited for, and a channel closes after its entry is settled.     *)
IInv ==
  /\ TypeOK
  /\ AskingIsInMap
  /\ \A c \in Calls : Led(c) /\ ~CutShort(c) => m[KeyOf[c]] = c
  /\ \A c \in Calls : pc[c] = "waiting" => joined[c] # None
  /\ \A c \in closed : pc[c] \in {"answered", "returned"}

(* Every call returns, whoever is cancelled or forgotten meanwhile, unless *)
(* a lookup of its key panicked: do has no deferred close (maintainer.go:  *)
(* 532-538).                                                               *)
EveryCallReturns == \A c \in Calls :
  <>( \/ pc[c] = "returned"
     \/ \E d \in Calls : pc[d] = "panicked" /\ KeyOf[d] = KeyOf[c])
=============================================================================
