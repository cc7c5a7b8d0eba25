------------------------------ MODULE MCTuning ------------------------------
(* A deployment with room to grow twice, and a small one after it.             *)
EXTENDS Tuning

LargeThenSmall == <<10, 2>>
=============================================================================
