------------------------------- MODULE MCRequests -------------------------------
(* A small instance of Requests.                                           *)
EXTENDS Requests, TLC

NeedOne  == [r \in Requests |-> 1]
PriceOne == [r \in Requests |-> 1]

(* The bounds of the run: two handlers, or one and a merge, are between    *)
(* two of their steps; while there is more than one request, no money      *)
(* moves and nothing is collected (requests share the shelf, and otherwise *)
(* only a balance); the run stops where a credit is taken back, which the  *)
(* run of the wallets is about, where the books are off, and where         *)
(* cylinders have been made.                                               *)
NothingUndone == backs = Deposits /\ \A k \in Credits : ~Booked(<<"rev", k>>)
UnderWay ==
  Cardinality({d \in Desks : ~Free(d)}) + Cardinality({m \in Screens : merging[m] # NoMerge})
Made == {r \in Requests : status[r] # "None"}
Untouched ==
  /\ away = {} /\ \A r \in Requests : pay[r] = "Unpaid"
  /\ \A k \in Rows : Booked(k) => k \in {"old"} \X Deposits
  /\ alive = Customers /\ \A m \in Screens : merging[m] = NoMerge
OneAtATime == Cardinality(Made) <= 1 \/ (Made \subseteq Lpg /\ Untouched)
Bound == UnderWay <= 2 /\ OneAtATime /\ NothingUndone /\ Balanced /\ Accounted <= 1

Symmetry == Permutations(Customers) \cup Permutations(Desks) \cup Permutations(Slots)
              \cup Permutations(Lpg)
================================================================================
