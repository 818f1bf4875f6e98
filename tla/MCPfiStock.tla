---------------------------- MODULE MCPfiStock ----------------------------
(* A small instance of PfiStock.                                           *)
EXTENDS PfiStock, TLC

CONSTANTS o1, o2, p1, p2, e1

(* Orders and PFIs are alike.                                              *)
StockSymmetry == Permutations(Orders) \cup Permutations(Pfis)

(* The bound of the run: one request at a time is between its reading and  *)
(* its writing, and the run stops where a counter has drifted.             *)
OneInFlight ==
  Cardinality({o \in Orders : plan[o] # NoPlan})
    + Cardinality({o \in Orders : assigning[o] # NoAssign})
    + Cardinality({o \in Orders : deleting[o].open})
    + Cardinality(activating) <= 1
NoneDrifted == \A p \in Pfis : Drift(p) = 0
Bound == OneInFlight /\ NoneDrifted
=============================================================================
