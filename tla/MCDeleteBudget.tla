--------------------------- MODULE MCDeleteBudget ---------------------------
(* Three deployments: a clean one (f1, d1), a sync whose plan turns directory  *)
(* d2 into a file and which prunes the siblings d3 and d4 and then d5 above    *)
(* them, and a sync that turns d6 into a file.                                 *)
EXTENDS DeleteBudget

CONSTANTS f1, f2, f3, d1, d2, d3, d4, d5, d6

ThreeIn == [e \in Entries |-> CASE e \in {f1, d1} -> 1
                                [] e \in {f3, d6} -> 3
                                [] OTHER -> 2]
ThreeDepth == [d \in Dirs |-> IF d = d5 THEN 1 ELSE 2]
=============================================================================
