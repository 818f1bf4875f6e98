------------------------------ MODULE MCWaPipeline ------------------------------
(* Instances of WaPipeline for TLC.                                        *)
EXTENDS WaPipeline, TLC
Handlers == Permutations(Slot)
================================================================================
