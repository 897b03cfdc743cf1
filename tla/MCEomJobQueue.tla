--------------------------- MODULE MCEomJobQueue ----------------------------
(* EomJobQueue with two jobs of one class and one of a less urgent class.  *)
EXTENDS EomJobQueue

CONSTANTS l1, l2, t1

MCClassOf == [j \in Jobs |-> IF j = t1 THEN "thumbnail" ELSE "load"]
=============================================================================
