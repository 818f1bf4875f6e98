--------------------------- MODULE MCOrderLedger ---------------------------
(* Small instances of OrderLedger.                                         *)
EXTENDS OrderLedger, TLC

CONSTANTS o1, o2, o3, l1, l2

(* Two credits of different size: either over- or underpays some order.    *)
MCLineAmount == [l \in Lines |-> IF l = l1 THEN 1 ELSE 2]

(* Every order draws on one PFI, which each cfg makes deskless or not.     *)
MCPfiOf == [o \in Orders |-> "pfi"]

(* The orders of an instance are alike, and so are its refund ids.         *)
OrderSymmetry == Permutations(Orders) \cup Permutations(Refunds)

(* The bound of the run with merges: lines go to orders only (deposits,    *)
(* sales and deleted uploads are in the other), nothing lapses, and the    *)
(* third order is placed in behaviours where nobody asks for a refund.     *)
NoneAsked == \A r \in Refunds : refund[r] = NoRefund /\ asking[r] = NoAsk
MergesOnly ==
  /\ elsewhere = {} /\ lapsed = {}
  /\ \A l \in Lines : line[l].status # "DELETED"
  /\ (\A o \in Orders : status[o] # "Absent") => NoneAsked
=============================================================================
