------------------------------ MODULE MCRequests ------------------------------
(* How often, and how long, outside services are asked.  The two have no   *)
(* state in common: a behaviour is one of the facts store over HTTP or of  *)
(* the lookups at NVD.                                                     *)
(*                                                                         *)
(* Facts: two callers over three facts, each of which the service may have *)
(* or not; a handful of gets, any of them answered in any way.             *)
(*                                                                         *)
(* NVD: two lookups of an enricher whose key is rejected, and one of       *)
(* another scan without a key.                                             *)
EXTENDS HTTPStore, NVDPacer, TLC

CONSTANTS c1, c2, t1, t2, t3, l1, l2, l3, Services

VARIABLE asks

(* Callers are interchangeable, as are the lookups of an enricher, and no  *)
(* property tells them apart.                                              *)
Symmetric == {p @@ q : p \in Permutations({c1, c2}), q \in Permutations({l1, l2})}

MCEnricherOf == [l \in Lookups |-> IF l = l3 THEN "e2" ELSE "e1"]
MCKeyOf == [e \in Enrichers |-> IF e = "e1" THEN "bad" ELSE "none"]

RequestsInit ==
  /\ asks \in Services /\ Init /\ PacerInit
  /\ asks = "NVD" => known = {}
RequestsNext ==
  /\ UNCHANGED asks
  /\ \/ asks = "facts" /\ Next /\ UNCHANGED pacerVars
     \/ asks = "NVD" /\ PacerNext /\ UNCHANGED vars
RequestsSpec == RequestsInit /\ [][RequestsNext]_<<vars, pacerVars, asks>>
=============================================================================
