---------------------------- MODULE MCOnceCache ----------------------------
(* OnceCache with four calls for the two names of one repository: "old" was*)
(* renamed to "new", so both share a record; each name is asked for under  *)
(* two contexts.                                                           *)
EXTENDS OnceCache

CONSTANTS c1, c2, c3, c4, x1, x2

MCCalls == {c1, c2, c3, c4}
MCKeys == {"old", "new"}
MCKeyOf == [c \in MCCalls |-> IF c \in {c1, c2} THEN "old" ELSE "new"]
MCCanonical == [k \in MCKeys |-> "new"]
MCCtxs == {x1, x2}
MCCtxOf == [c \in MCCalls |-> IF c \in {c1, c3} THEN x1 ELSE x2]
=============================================================================
