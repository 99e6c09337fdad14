------------------------------ MODULE CacheFiles ------------------------------
(***************************************************************************)
(* The on-disk caches of pkg/scanner that are written in place             *)
(* (os.WriteFile: vulnenrich.go, threatintel.go): what a file of theirs    *)
(* may hold while several scans, of one process or of many, share the      *)
(* directory.  Time is counted in ticks and an age is kept instead of a    *)
(* date: what is too old to make a difference has the age Old.             *)
(***************************************************************************)
EXTENDS Integers

CONSTANTS CacheTTL,        \* cacheTTL, threatIntelCacheTTL
          MaxLookup,       \* the longest a lookup takes (client timeout, NVD budget)
          Old

ASSUME CacheAssumption == CacheTTL \in Nat /\ MaxLookup \in Nat /\ Old \in Nat /\ CacheTTL < Old

\* A file that is missing, and one that does not parse.
Missing == [age |-> Old, whole |-> FALSE]
Torn == [age |-> 0, whole |-> FALSE]

Older(age) == IF age < Old THEN age + 1 ELSE Old
OlderFile(file, kept) ==
  IF file.whole THEN [file EXCEPT !.age = IF @ <= kept THEN @ + 1 ELSE @] ELSE file

FileEntry(content) == [age |-> 0, whole |-> TRUE, is |-> content]
Within(file, ttl) == file.whole /\ file.age <= ttl

\* WriteFile truncates the file and then writes it.  Of two that overlap the second writes over the
\* first, and what is longer sticks out; a full disk or a crash leaves the file cut short.
Written(entry) == {entry, Torn}
=============================================================================
