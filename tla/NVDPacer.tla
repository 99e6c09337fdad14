-------------------------------- MODULE NVDPacer --------------------------------
(***************************************************************************)
(* pkg/scanner/nvdfetch.go: the lookups of several enrichers at NVD, paced *)
(* by one pacer for the whole process.  A lookup reserves a slot, sleeps   *)
(* until it, asks, and retries what was refused or did not arrive.         *)
(*                                                                         *)
(* Time is counted in ticks and a timer fires in the tick it was set for;  *)
(* an answer may take any time.  What a lookup returns is left out: the    *)
(* pacing does not depend on it.                                           *)
(***************************************************************************)
EXTENDS Integers, FiniteSets

CONSTANTS Lookups, Enrichers,
          EnricherOf,            \* [Lookups -> Enrichers]
          KeyOf,                 \* [Enrichers -> "none", "good", "bad" (NVD rejects it) or
                                 \* "unsendable"]
          SpacingKeyless, SpacingKeyed,
          Budget,                \* EnrichBudget
          MaxRetries, BackoffBase, RetryAfterCap,
          RetryAfters,           \* the delays NVD may ask for
          MaxTime                \* bound: no clock of an enricher runs past it

ASSUME EnricherAssumption == EnricherOf \in [Lookups -> Enrichers]
ASSUME SpacingAssumption == /\ SpacingKeyed \in Nat \ {0}
                            /\ SpacingKeyless \in Nat /\ SpacingKeyless >= SpacingKeyed
ASSUME BudgetAssumption == Budget \in Nat /\ MaxRetries \in Nat
ASSUME RetryAfterAssumption == RetryAfterCap \in Nat /\ RetryAfters \subseteq Nat

Never == -1

VARIABLES now,
          next,        \* nvdPacer.next
          deadline,    \* [Enrichers -> time], Never before the first lookup
          rejected,    \* [Enrichers -> BOOLEAN], nvdKeyRejected
          ended,       \* the enrichers whose context has ended
          look,        \* [Lookups -> at, attempt, useKey, start]
          quiet,       \* history: when the spacing after every request so far is over
          delay        \* the latest delay asked for: until when, and who had a slot by then
pacerVars == <<now, next, deadline, rejected, ended, look, quiet, delay>>

Larger(x, y) == IF x > y THEN x ELSE y
Smaller(x, y) == IF x < y THEN x ELSE y

\* nvdBackoffBase << attempt, and no more than the cap.
Backoff(attempt) == Smaller(BackoffBase * 2^attempt, RetryAfterCap)
ASSUME BackoffAssumption == \A attempt \in 0..MaxRetries : Backoff(attempt) \in Nat

AtStep(l, p) == look[l].at = p
Step(l, f) == look' = [look EXCEPT ![l] = f]
Ctx(l) == EnricherOf[l] \in ended
Done == [at |-> "done", attempt |-> 0, useKey |-> FALSE, start |-> Never]

PacerInit ==
  /\ now = 0
  /\ next = 0
  /\ deadline = [e \in Enrichers |-> Never]
  /\ rejected = [e \in Enrichers |-> FALSE]
  /\ ended = {}
  /\ look = [l \in Lookups |->
               [at |-> "idle", attempt |-> 0, useKey |-> FALSE, start |-> Never]]
  /\ quiet = 0
  /\ delay = [until |-> 0, slots |-> {}]

\* fetchNVD is called; the first lookup of an enricher starts its clock (enrichDeadline).
Call(l) ==
  /\ AtStep(l, "idle")
  /\ now + Budget <= MaxTime
  /\ Step(l, [look[l] EXCEPT !.at = "loop"])
  /\ deadline' = [deadline EXCEPT ![EnricherOf[l]] = IF @ = Never THEN now + Budget ELSE @]
  /\ UNCHANGED <<now, next, rejected, ended, quiet, delay>>

\* The top of the loop: whether the key is used is read before the slot is reserved.
ChooseKey(l) ==
  LET e == EnricherOf[l]
  IN  /\ AtStep(l, "loop")
      /\ Step(l, [look[l] EXCEPT !.at = "wait",
                                 !.useKey = KeyOf[e] \in {"good", "bad"} /\ ~rejected[e]])
      /\ rejected' = [rejected EXCEPT ![e] = @ \/ KeyOf[e] = "unsendable"]
      /\ UNCHANGED <<now, next, deadline, ended, quiet, delay>>

\* nvdPacer.wait, its critical section: a slot, or none before the deadline.
SlotStart == Larger(now, next)

TooLate(l) == SlotStart > deadline[EnricherOf[l]]
\* Mutant: the spacings are swapped.
SpacingSwapped(l) == IF look[l].useKey THEN SpacingKeyless ELSE SpacingKeyed
Spacing(l) == IF look[l].useKey THEN SpacingKeyed ELSE SpacingKeyless
ReserveSlot(l) ==
  /\ AtStep(l, "wait")
  /\ ~TooLate(l)
  /\ next' = SlotStart + Spacing(l)
  /\ Step(l, [look[l] EXCEPT !.at = "sleep", !.start = SlotStart])
  /\ UNCHANGED <<now, deadline, rejected, ended, quiet, delay>>
BudgetUsedUp(l) ==
  /\ AtStep(l, "wait")
  /\ TooLate(l)
  /\ Step(l, Done)
  /\ UNCHANGED <<now, next, deadline, rejected, ended, quiet, delay>>

\* The sleep ends, at the slot or with the context.
SendRequest(l) ==
  /\ AtStep(l, "sleep")
  /\ ~Ctx(l)
  /\ now >= look[l].start
  /\ Step(l, [look[l] EXCEPT !.at = "sent"])
  /\ quiet' = Larger(quiet, now + (IF look[l].useKey THEN SpacingKeyed ELSE SpacingKeyless))
  /\ delay' = [delay EXCEPT !.slots = @ \ {l}]
  /\ UNCHANGED <<now, next, deadline, rejected, ended>>
SleepCancelled(l) ==
  /\ AtStep(l, "sleep")
  /\ Ctx(l)
  /\ Step(l, Done)
  /\ UNCHANGED <<now, next, deadline, rejected, ended, quiet, delay>>

\* An answer that ends the lookup: a record, one that cannot be parsed, another status.
LookupAnswered(l) ==
  /\ AtStep(l, "sent")
  /\ ~(look[l].useKey /\ KeyOf[EnricherOf[l]] = "bad")
  /\ Step(l, Done)
  /\ UNCHANGED <<now, next, deadline, rejected, ended, quiet, delay>>
RequestCancelled(l) ==
  /\ AtStep(l, "sent")
  /\ Ctx(l)
  /\ Step(l, Done)
  /\ UNCHANGED <<now, next, deadline, rejected, ended, quiet, delay>>

\* The key is dropped; this was no attempt.
KeyRejected(l) ==
  /\ AtStep(l, "sent")
  /\ look[l].useKey /\ KeyOf[EnricherOf[l]] = "bad"
  /\ rejected' = [rejected EXCEPT ![EnricherOf[l]] = TRUE]
  /\ Step(l, [look[l] EXCEPT !.at = "loop", !.start = Never])
  /\ UNCHANGED <<now, next, deadline, ended, quiet, delay>>

\* Mutant: the refused lookup waits by itself.
DelayedToNothing(t) == next
DelayedTo(t) == Larger(t, next)

\* A 429, 403 or 5xx, with a Retry-After or without, or an error of the network while the context
\* lives: one more attempt, after a delay for every request of the process (delayUntil).
RequestRefused(l) ==
  /\ AtStep(l, "sent")
  /\ IF look[l].attempt >= MaxRetries
     THEN /\ Step(l, Done)
          /\ UNCHANGED <<next, delay>>
     ELSE \E wait \in {Backoff(look[l].attempt)} \union
                       {Smaller(ra, RetryAfterCap) : ra \in RetryAfters} :
            /\ next' = DelayedTo(now + wait)
            /\ Step(l, [look[l] EXCEPT !.at = "loop", !.attempt = @ + 1, !.start = Never])
            /\ delay' = IF now + wait <= delay.until THEN delay
                        ELSE [until |-> now + wait,
                              slots |-> {k \in Lookups : AtStep(k, "sleep")
                                                          /\ look[k].start < now + wait}]
  /\ UNCHANGED <<now, deadline, rejected, ended, quiet>>

ContextEnds(e) ==
  /\ e \notin ended
  /\ ended' = ended \union {e}
  /\ UNCHANGED <<now, next, deadline, rejected, look, quiet, delay>>

\* Time passes when no timer is due.
Tick ==
  /\ now < MaxTime
  /\ \A l \in Lookups : AtStep(l, "sleep") => now < look[l].start
  /\ now' = now + 1
  /\ UNCHANGED <<next, deadline, rejected, ended, look, quiet, delay>>

Lookup(l) ==
  \/ Call(l) \/ ChooseKey(l) \/ ReserveSlot(l) \/ BudgetUsedUp(l)
  \/ SendRequest(l) \/ SleepCancelled(l)
  \/ LookupAnswered(l) \/ RequestCancelled(l) \/ KeyRejected(l) \/ RequestRefused(l)
PacerNext == (\E l \in Lookups : Lookup(l)) \/ (\E e \in Enrichers : ContextEnds(e)) \/ Tick
PacerSpec == PacerInit /\ [][PacerNext]_pacerVars

-----------------------------------------------------------------------------
TypesOfLookups ==
  [at : {"idle", "loop", "wait", "sleep", "sent", "done"}, attempt : 0..MaxRetries,
   useKey : BOOLEAN, start : Nat \union {Never}]
PacerTypeOK ==
  /\ now \in Nat /\ next \in Nat /\ quiet \in Nat
  /\ look \in [Lookups -> TypesOfLookups]
  /\ \A l \in Lookups : AtStep(l, "sleep") => look[l].start \in Nat
  /\ delay \in [until : Nat, slots : SUBSET Lookups]

\* The slots that are taken lie ahead, a spacing apart, after what has been sent and before the
\* next one.
SlotsApart ==
  /\ quiet <= next
  /\ \A l \in Lookups : AtStep(l, "sleep") =>
       /\ now <= look[l].start
       /\ quiet <= look[l].start
       /\ look[l].start + Spacing(l) <= next
  /\ \A l, k \in Lookups : l # k /\ AtStep(l, "sleep") /\ AtStep(k, "sleep") =>
       \/ look[l].start + Spacing(l) <= look[k].start
       \/ look[k].start + Spacing(k) <= look[l].start

\* The next slot, and every one that was taken after a delay was asked for, are after it.
DelayKept ==
  /\ delay.until <= next
  /\ \A l \in Lookups : AtStep(l, "sleep") =>
       look[l].start >= delay.until \/ l \in delay.slots

Sends(l) == AtStep(l, "sleep") /\ look'[l].at = "sent"

\* A request starts a spacing after the last one of the whole process, whoever reserved, was
\* refused, was cancelled or asked for a delay in between: the rate stays under NVD's limit
\* (nvdfetch.go 14-17, vulnenrich.go 51-55).
SpacedOut ==
  [][\A l \in Lookups : Sends(l) => now >= quiet]_pacerVars

\* After a refusal no request starts before the delay is over, but for those that had reserved
\* their slots by then (the delay moves the next slot, not the ones that are taken).
DelayHeeded ==
  [][\A l \in Lookups : Sends(l) => now >= delay.until \/ l \in delay.slots]_pacerVars
=============================================================================
