-------------------------------- MODULE MCOffice --------------------------------
(* Payment requests, commissions and truck-sale payments, which share no    *)
(* table: each behaviour is one of a single part, chosen when it begins.    *)
EXTENDS Expenses, Commissions, TruckSales, TLC

CONSTANTS ann, cyd, k1, x, y
Roles == ann :> {"expenditure_officer", "finance", "admin"} @@ cyd :> {"super_admin"}
OfOne == [o \in Orders |-> k1]
Two == [c \in Credits |-> 2]
(* Two exports of the account that date a credit differently; the second    *)
(* transfer has no reference.                                               *)
Exports == "xlsx" :> {[credit |-> x, day |-> 1], [credit |-> y, day |-> 1]}
        @@ "csv"  :> {[credit |-> x, day |-> 2]}

VARIABLE part
vars == <<part, expVars, comVars, truckVars>>

Init ==
  /\ part \in {"expenses", "commissions", "trucks"}
  /\ InitExpenses /\ InitCommissions /\ InitTruckSales
  /\ part # "expenses" => \A a \in Accounts : group[a] = "administrative"
  /\ part # "commissions" => depotRate = 0
Next ==
  \/ part = "expenses" /\ NextExpenses /\ UNCHANGED <<part, comVars, truckVars>>
  \/ part = "commissions" /\ NextCommissions /\ UNCHANGED <<part, expVars, truckVars>>
  \/ part = "trucks" /\ NextTruckSales /\ UNCHANGED <<part, expVars, comVars>>
Spec == Init /\ [][Next]_vars

(* Bounds: at most one request or account is overwritten unread, no         *)
(* commission is created twice and left unpriced besides, one truck's       *)
(* payments are changed by hand, and nothing is uploaded while money moves. *)
Bound ==
  /\ Cardinality(torn) <= 1
  /\ Cardinality(loose) + Cardinality(twice) <= 1
  /\ Cardinality(shaken) + Cardinality(double) <= 1
  /\ (\E m \in Moves : move[m] # NoMove) => \A u \in Uploads : upload[u] = NoUpload

(* Screens, handlers, uploads and moves share their names, and so do        *)
(* accounts, commissions and trucks.                                        *)
Symmetry == Permutations(Tabs) \cup Permutations(Accounts)
================================================================================
