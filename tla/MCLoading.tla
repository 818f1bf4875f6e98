------------------------------- MODULE MCLoading -------------------------------
(* A small instance of Loading.                                            *)
EXTENDS Loading, TLC

CONSTANTS o1, o2, d1

(* Pickup orders are alike.                                                *)
LoadingSymmetry == Permutations(Pickup)

(* The bound of the run, which explores two kinds of behaviour, for an     *)
(* order merges with its own kind only: two pickup orders loaded in        *)
(* truckloads of one, or a delivery order with trucks of either size.      *)
Absent(o) == status[o] = "Absent"
PickupOnly ==
  /\ \A o \in Orders \ Pickup : Absent(o)
  /\ \A o \in Pickup : \A i \in Trucks(o) : loads[o][i].qty = 1
DeliveryOnly == \A o \in Pickup : Absent(o)
Bound == PickupOnly \/ DeliveryOnly
=============================================================================
