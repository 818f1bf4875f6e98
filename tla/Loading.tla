-------------------------------- MODULE Loading --------------------------------
(***************************************************************************)
(* The trucks of an order: what is declared, allocated, ticketed, let in   *)
(* and let out, against what the order is for and what of it is paid for   *)
(* or trusted.  Every action is one transaction under the order's lock,    *)
(* but for releaseOrder, which adds up the trucks before it takes it.      *)
(***************************************************************************)
EXTENDS Integers, Sequences, FiniteSets, Functions, FiniteSetsExt

CONSTANTS
  Orders,          \* order ids
  Pickup,          \* the orders customers fetch; the others are delivered
  Quantities,      \* the litres an order is placed for or edited to
  Truckloads,      \* the litres of a truck
  Payments,        \* the litres the money on an order may come to cover
  MaxDeclared,     \* bound: trucks in one declaration or allocation
  MaxTrucks        \* bound: trucks on one order

ASSUME LoadingAssumption ==
  /\ Pickup \subseteq Orders
  /\ Quantities \subseteq Nat \ {0}
  /\ Truckloads \subseteq Nat \ {0}
  /\ Payments \subseteq Nat
  /\ MaxDeclared \in Nat /\ MaxTrucks \in Nat

VARIABLES
  status,          \* orders.status
  qty,             \* orders.quantity
  paid,            \* the litres orders.amount_paid covers at the order's price
  credit,          \* orders.credit_qty
  loads,           \* order_trucks of the order, oldest first
  moved,           \* qty_litres of the order's RELEASE movement, 0 without one
  merged,          \* the orders of some merge, survivors included
  releasing        \* the litres a release has allocated to trucks, 0 for none

vars == <<status, qty, paid, credit, loads, moved, merged, releasing>>

-----------------------------------------------------------------------------
(* Pending stands for Pending and Paid, Dead for Cancelled and Expired.    *)
OrderStatus == {"Absent", "Pending", "Released", "Loading", "Completed", "Dead", "Deleted"}
LoadStatus  == {"pending", "loaded", "gated_in", "gated_out"}
Exists(o) == status[o] \notin {"Absent", "Deleted"}
Lives(o)  == status[o] \in {"Pending", "Released", "Loading", "Completed"}
Gateable  == {"Released", "Loading"}
Ticketable == {"Released", "Loading"}

(* A ticket is named after the order it was cut on and the truck's number  *)
(* there; it keeps that name when a merge moves the truck.                 *)
NoTicket == <<>>
Ticket   == Orders \X Nat
Load     == [qty: Nat, status: LoadStatus, ticket: Ticket \cup {NoTicket}, index: Nat]

Trucks(o)     == DOMAIN loads[o]
LitresIn(s, I) == SumFunctionOnSet([i \in DOMAIN s |-> s[i].qty], I)
LitresOf(s)   == LitresIn(s, DOMAIN s)
LastIndex(o)  == IF loads[o] = <<>> THEN 0 ELSE Max({loads[o][i].index : i \in Trucks(o)})
AllOut(o)     == \A i \in Trucks(o) : loads[o][i].status = "gated_out"

Smaller(a, b)  == IF a < b THEN a ELSE b

(* releasableQuantity: what is paid for and what is trusted, up to the     *)
(* whole order.                                                            *)
Releasable(o) == Smaller(qty[o], paid[o] + credit[o])

(* What a list of trucks becomes on an order that has none.                *)
Declared(split) ==
  [i \in DOMAIN split |-> [qty |-> split[i], status |-> "pending", ticket |-> NoTicket, index |-> i]]

(* The ways to put q litres on trucks.                                     *)
Lists     == UNION {[1..n -> Truckloads] : n \in 1..MaxDeclared}
Splits(q) == {s \in Lists : SumFunction(s) = q}

(* The type of every variable.                                             *)
TypeOK ==
  /\ status \in [Orders -> OrderStatus]
  /\ qty \in [Orders -> Nat]
  /\ paid \in [Orders -> Nat]
  /\ credit \in [Orders -> Nat]
  /\ loads \in [Orders -> Seq(Load)]
  /\ moved \in [Orders -> Nat]
  /\ merged \subseteq Orders
  /\ releasing \in [Orders -> Nat]

Init ==
  /\ status = [o \in Orders |-> "Absent"]
  /\ qty = [o \in Orders |-> 0]
  /\ paid = [o \in Orders |-> 0]
  /\ credit = [o \in Orders |-> 0]
  /\ loads = [o \in Orders |-> <<>>]
  /\ moved = [o \in Orders |-> 0]
  /\ merged = {}
  /\ releasing = [o \in Orders |-> 0]

-----------------------------------------------------------------------------
(* Ordering and paying.                                                    *)

(* A pickup customer may declare trucks for the whole order.  An order     *)
(* raised without a price is born Released, with all of it on credit.      *)
PlaceOrder(o, q, split, unpriced) ==
  /\ status[o] = "Absent"
  /\ o \notin Pickup => split = <<>>
  /\ status' = [status EXCEPT ![o] = IF unpriced THEN "Released" ELSE "Pending"]
  /\ qty' = [qty EXCEPT ![o] = q]
  /\ credit' = [credit EXCEPT ![o] = IF unpriced THEN q ELSE 0]
  /\ loads' = [loads EXCEPT ![o] = Declared(split)]
  /\ UNCHANGED <<paid, moved, merged, releasing>>

(* The money on an order becomes enough for q litres (module OrderLedger). *)
(* A payment that settles a Pending order releases it; the same figures    *)
(* reached by an edit of the price do not.                                 *)
MoneyMoves(o, q, st) ==
  /\ Lives(o)
  /\ q # paid[o]
  /\ st # status[o] => st = "Released" /\ status[o] = "Pending" /\ q >= qty[o]
  /\ paid' = [paid EXCEPT ![o] = q]
  /\ status' = [status EXCEPT ![o] = st]
  /\ UNCHANGED <<qty, credit, loads, moved, merged, releasing>>

AuthoriseCreditRelease(o, q) ==
  /\ Lives(o) /\ status[o] # "Completed"
  /\ q <= qty[o]
  /\ credit' = [credit EXCEPT ![o] = q]
  /\ status' = [status EXCEPT ![o] = IF @ = "Pending" THEN "Released" ELSE @]
  /\ UNCHANGED <<qty, paid, loads, moved, merged, releasing>>

RevokeCreditRelease(o) ==
  /\ Exists(o)
  /\ credit[o] > 0
  /\ LitresOf(loads[o]) <= Smaller(qty[o], paid[o])
  /\ credit' = [credit EXCEPT ![o] = 0]
  /\ UNCHANGED <<status, qty, paid, loads, moved, merged, releasing>>

QuantityEditable == {"Pending"}

(* The part of updateOrder that changes the quantity.  The trucks declared *)
(* for the old one stay as they are.                                       *)
UpdateQuantity(o, q) ==
  /\ status[o] \in QuantityEditable
  /\ q # qty[o]
  /\ qty' = [qty EXCEPT ![o] = q]
  /\ UNCHANGED <<status, paid, credit, loads, moved, merged, releasing>>

(* The customer declares anew, for all of the order or for none of it, as  *)
(* long as nothing has happened to the old trucks.                         *)
UpdatePickupTrucks(o, split) ==
  /\ o \in Pickup
  /\ status[o] \in {"Pending", "Released"}
  /\ \A i \in Trucks(o) : loads[o][i].status = "pending"
  /\ loads' = [loads EXCEPT ![o] = Declared(split)]
  /\ UNCHANGED <<status, qty, paid, credit, moved, merged, releasing>>

-----------------------------------------------------------------------------
(* Release.                                                                *)

(* The desk's trucks are added up against a quantity read without lock.    *)
BeginRelease(o) ==
  /\ o \notin Pickup
  /\ Exists(o)
  /\ releasing[o] = 0
  /\ releasing' = [releasing EXCEPT ![o] = qty[o]]
  /\ UNCHANGED <<status, qty, paid, credit, loads, moved, merged>>

(* canReleaseForLoading: the money covers the order or somebody trusts it. *)
MayRelease(o) ==
  \/ status[o] = "Released"
  \/ status[o] = "Pending" /\ paid[o] >= qty[o]
  \/ status[o] = "Pending" /\ credit[o] > 0

(* An order that has trucks keeps those.                                   *)
ReleaseOrder(o, split) ==
  /\ o \notin Pickup => releasing[o] > 0
  /\ MayRelease(o)
  /\ status' = [status EXCEPT ![o] = "Released"]
  /\ loads' = [loads EXCEPT ![o] = IF @ = <<>> THEN Declared(split) ELSE @]
  /\ releasing' = [releasing EXCEPT ![o] = 0]
  /\ UNCHANGED <<qty, paid, credit, moved, merged>>

RefuseRelease(o) ==
  /\ releasing[o] > 0
  /\ ~MayRelease(o)
  /\ releasing' = [releasing EXCEPT ![o] = 0]
  /\ UNCHANGED <<status, qty, paid, credit, loads, moved, merged>>

-----------------------------------------------------------------------------
(* Tickets.                                                                *)

TicketFree(n) == \A o \in Orders : \A i \in Trucks(o) : loads[o][i].ticket # n

(* Ticketing the trucks I of an order that have no ticket yet: each needs  *)
(* a name no other ticket has.                                             *)
Untickets(o, I) == {i \in I : loads[o][i].ticket = NoTicket}
NamesFree(o, I) ==
  /\ \A i \in Untickets(o, I) : TicketFree(<<o, loads[o][i].index>>)
  /\ \A i, j \in Untickets(o, I) : loads[o][i].index = loads[o][j].index => i = j
Ticketed(o, l) == IF l.ticket = NoTicket THEN [l EXCEPT !.ticket = <<o, l.index>>] ELSE l
MadeLoaded(l)  == IF l.status = "pending" THEN [l EXCEPT !.status = "loaded"] ELSE l

(* The ceiling: everything on the order and everything on the request,     *)
(* trucks on both twice.                                                   *)
TicketTotal(o, again, litres) == LitresOf(loads[o]) + LitresIn(loads[o], again) + litres
WithinCeiling(o, again, litres) == TicketTotal(o, again, litres) <= Releasable(o)

NewTruck(o, q, st, n) == [qty |-> q, status |-> st, ticket |-> <<o, n>>, index |-> n]

(* The trucks again are on the order and recognised, which they are when   *)
(* their litres are written the way the database writes them; at most one  *)
(* is new, the place-th of the request, and takes its number from there.   *)
GenerateTickets(o, again, fresh, place) ==
  LET litres == IF fresh = <<>> THEN 0 ELSE fresh[1]
      known  == [i \in Trucks(o) |-> IF i \in again THEN MadeLoaded(Ticketed(o, loads[o][i]))
                                                    ELSE loads[o][i]]
      new    == IF fresh = <<>> THEN <<>>
                ELSE <<NewTruck(o, litres, "loaded", LastIndex(o) + place)>> IN
  /\ status[o] \in Ticketable
  /\ again # {} \/ fresh # <<>>
  /\ WithinCeiling(o, again, litres)
  /\ NamesFree(o, again)
  /\ loads' = [loads EXCEPT ![o] = known \o new]
  /\ moved' = [moved EXCEPT ![o] = TicketTotal(o, again, litres)]
  /\ status' = [status EXCEPT ![o] = "Loading"]
  /\ UNCHANGED <<qty, paid, credit, merged, releasing>>

(* The ticketing desk's correction: any truck that has not left, on an     *)
(* order in any status.                                                    *)
MarkTruckLoaded(o, i) ==
  /\ Exists(o)
  /\ loads[o][i].status # "gated_out"
  /\ NamesFree(o, {i})
  /\ loads' = [loads EXCEPT ![o][i] = MadeLoaded(Ticketed(o, @))]
  /\ UNCHANGED <<status, qty, paid, credit, moved, merged, releasing>>

OnItsOwn(o, i, q) == q <= qty[o]

(* A correction of the litres keeps the order's trucks within the order.   *)
StillFits(o, i, q) == LitresIn(loads[o], Trucks(o) \ {i}) + q <= qty[o]

UpdateTruckLoad(o, i, q) ==
  /\ Exists(o)
  /\ loads[o][i].status # "gated_out"
  /\ q # loads[o][i].qty
  /\ StillFits(o, i, q)
  /\ loads' = [loads EXCEPT ![o][i].qty = q]
  /\ UNCHANGED <<status, qty, paid, credit, moved, merged, releasing>>

-----------------------------------------------------------------------------
(* The gate.                                                               *)

GateInTruck(o, i) ==
  /\ status[o] \in Gateable
  /\ loads[o][i].status \in {"pending", "loaded"}
  /\ loads' = [loads EXCEPT ![o][i].status = "gated_in"]
  /\ status' = [status EXCEPT ![o] = "Loading"]
  /\ UNCHANGED <<qty, paid, credit, moved, merged, releasing>>

(* A pickup truck nobody declared is captured as it arrives; its number    *)
(* counts the trucks of the order.                                         *)
GateInUndeclared(o, q) ==
  /\ o \in Pickup
  /\ status[o] \in Gateable
  /\ loads' = [loads EXCEPT ![o] =
       Append(@, [qty |-> q, status |-> "gated_in", ticket |-> NoTicket, index |-> Len(@) + 1])]
  /\ status' = [status EXCEPT ![o] = "Loading"]
  /\ UNCHANGED <<qty, paid, credit, moved, merged, releasing>>

OutOfTheGate(o, trucks) == \A i \in DOMAIN trucks : trucks[i].status = "gated_out"

OverTheQuantity(o, trucks) ==
  /\ OutOfTheGate(o, trucks)
  /\ LitresOf(trucks) > qty[o]
  /\ status[o] = "Loading"

(* The order is complete when no truck is left and all of it is on trucks. *)
CompletesWith(o, trucks) ==
  /\ \A i \in DOMAIN trucks : trucks[i].status = "gated_out"
  /\ LitresOf(trucks) >= qty[o]
  /\ status[o] = "Loading"

(* A truck that was never ticketed is ticketed on its way out.             *)
TicketAtExit(o, l) == Ticketed(o, l)

GateOutTruck(o, i) ==
  LET trucks == [loads[o] EXCEPT ![i] = [TicketAtExit(o, @) EXCEPT !.status = "gated_out"]] IN
  /\ Exists(o)
  /\ loads[o][i].status = "gated_in"
  /\ NamesFree(o, {i})
  /\ loads' = [loads EXCEPT ![o] = trucks]
  /\ status' = [status EXCEPT ![o] = IF CompletesWith(o, trucks) THEN "Completed" ELSE @]
  /\ UNCHANGED <<qty, paid, credit, moved, merged, releasing>>

-----------------------------------------------------------------------------
(* Ends and merges.                                                        *)

(* Cancelling or expiring takes the trucks off the order, tickets and all. *)
TrucksDropped(o) == [loads EXCEPT ![o] = <<>>]

EndOrder(o) ==
  /\ status[o] \in {"Pending", "Released"}
  /\ status' = [status EXCEPT ![o] = "Dead"]
  /\ loads' = TrucksDropped(o)
  /\ UNCHANGED <<qty, paid, credit, moved, merged, releasing>>

DeleteOrder(o) ==
  /\ Exists(o)
  /\ o \notin merged
  /\ status' = [status EXCEPT ![o] = "Deleted"]
  /\ qty' = [qty EXCEPT ![o] = 0]
  /\ paid' = [paid EXCEPT ![o] = 0]
  /\ credit' = [credit EXCEPT ![o] = 0]
  /\ loads' = [loads EXCEPT ![o] = <<>>]
  /\ moved' = [moved EXCEPT ![o] = 0]
  /\ UNCHANGED <<merged, releasing>>

FurthestAlong(s1, s2) ==
  IF "Completed" \in {s1, s2} THEN "Completed"
  ELSE IF "Loading" \in {s1, s2} THEN "Loading"
  ELSE IF "Released" \in {s1, s2} THEN "Released" ELSE "Pending"

CombinedStatus(s1, s2) ==
  IF s1 = "Completed" /\ s2 = "Completed" THEN "Completed"
  ELSE IF {s1, s2} \cap {"Loading", "Completed"} # {} THEN "Loading"
  ELSE IF "Released" \in {s1, s2} THEN "Released" ELSE "Pending"

(* The source's trucks follow the target's and are numbered on from them.  *)
Renumbered(source, base) ==
  [i \in Trucks(source) |-> [loads[source][i] EXCEPT !.index = base + i]]

(* One order folded into another of its kind.                              *)
MergeOrders(target, source) ==
  LET q  == qty[target] + qty[source]
      p  == paid[target] + paid[source]
      st == CombinedStatus(status[target], status[source]) IN
  /\ target # source
  /\ Lives(target) /\ Lives(source)
  /\ {target, source} \subseteq Pickup \/ {target, source} \cap Pickup = {}
  /\ status' = [status EXCEPT ![target] = IF st = "Pending" /\ p >= q THEN "Released" ELSE st,
                             ![source] = "Dead"]
  /\ qty' = [qty EXCEPT ![target] = q]
  /\ paid' = [paid EXCEPT ![target] = p, ![source] = 0]
  /\ credit' = [credit EXCEPT ![target] = @ + credit[source], ![source] = 0]
  /\ loads' = [loads EXCEPT ![target] = @ \o Renumbered(source, LastIndex(target)),
                            ![source] = <<>>]
  /\ moved' = [moved EXCEPT ![target] = @ + moved[source], ![source] = 0]
  /\ merged' = merged \cup {target, source}
  /\ UNCHANGED releasing

-----------------------------------------------------------------------------
Room(o) == Len(loads[o]) < MaxTrucks

Next ==
  \/ \E o \in Orders, q \in Quantities, unpriced \in BOOLEAN :
       \E split \in Splits(q) \cup {<<>>} : PlaceOrder(o, q, split, unpriced)
  \/ \E o \in Orders, q \in Payments : \E st \in {status[o], "Released"} : MoneyMoves(o, q, st)
  \/ \E o \in Orders, q \in Truckloads : AuthoriseCreditRelease(o, q)
  \/ \E o \in Orders : \/ RevokeCreditRelease(o) \/ BeginRelease(o) \/ RefuseRelease(o)
                       \/ EndOrder(o) \/ DeleteOrder(o)
  \/ \E o \in Orders, q \in Quantities : UpdateQuantity(o, q)
  \/ \E o \in Orders : \E split \in Splits(qty[o]) \cup {<<>>} : UpdatePickupTrucks(o, split)
  \/ \E o \in Orders : \E split \in (IF o \in Pickup THEN {<<>>} ELSE Splits(releasing[o])) :
       ReleaseOrder(o, split)
  \/ \E o \in Orders : \E again \in SUBSET Trucks(o) :
       \/ GenerateTickets(o, again, <<>>, 0)
       \/ \E q \in Truckloads, place \in 1..Cardinality(again) + 1 :
            Room(o) /\ GenerateTickets(o, again, <<q>>, place)
  \/ \E o \in Orders : \E i \in Trucks(o) :
       \/ MarkTruckLoaded(o, i) \/ GateInTruck(o, i) \/ GateOutTruck(o, i)
       \/ \E q \in Truckloads : UpdateTruckLoad(o, i, q)
  \/ \E o \in Orders, q \in Truckloads : Room(o) /\ GateInUndeclared(o, q)
  \/ \E target, source \in Orders : MergeOrders(target, source)

Spec == Init /\ [][Next]_vars

-----------------------------------------------------------------------------
(* A truck inside the depot keeps its order Loading: gate-in, merge and    *)
(* the completion at gate-out never leave an order finished, cancelled or  *)
(* waiting with a truck at the gantry.                                     *)
InsideIsLoading ==
  \A o \in Orders : \A i \in Trucks(o) : loads[o][i].status = "gated_in" => status[o] = "Loading"

(* Nothing is loaded and nothing leaves without a ticket, also when the    *)
(* truck skipped the ticketing desk or changed its order in a merge, and   *)
(* what has left belongs to an order that is Loading or Completed.         *)
OutIsTicketed ==
  \A o \in Orders : \A i \in Trucks(o) :
    /\ loads[o][i].status \in {"loaded", "gated_out"} => loads[o][i].ticket # NoTicket
    /\ loads[o][i].status = "gated_out" => status[o] \in {"Loading", "Completed"}

(* A completed order has no truck left in the depot and all of its litres  *)
(* on trucks, whatever batches they were ticketed in (gateOutTruck).       *)
CompletedIsLoaded ==
  \A o \in Orders : status[o] = "Completed" => AllOut(o) /\ LitresOf(loads[o]) >= qty[o]

(* The stock movement written at ticketing is never above what the order   *)
(* is for, through later edits and merges, and an order nobody loads has   *)
(* none.                                                                   *)
MovementWithinOrder ==
  \A o \in Orders :
    /\ moved[o] <= qty[o]
    /\ moved[o] > 0 => status[o] \in {"Loading", "Completed"}

(* Cancelling, expiring, deleting and merging away leave no truck behind   *)
(* that the gate could still let in on a dead order.                       *)
DeadHasNoTrucks ==
  \A o \in Orders : status[o] \in {"Absent", "Dead", "Deleted"} => loads[o] = <<>>

(* The number generateOrderTickets gives a new truck names no ticket that  *)
(* exists, although merged trucks keep the ticket of the order they were   *)
(* ticketed on: the insert never meets the unique index.                   *)
NewNumbersAreFree ==
  \A o \in Orders : Lives(o) =>
    \A p \in Orders : \A i \in Trucks(p) :
      loads[p][i].ticket # NoTicket /\ loads[p][i].ticket[1] = o
        => loads[p][i].ticket[2] <= LastIndex(o)

(* The depot is in order: what is inside is loading, what leaves has its   *)
(* ticket, new tickets have new numbers, what moved was ordered, and       *)
(* nothing stands behind on an order that has ended.                       *)
DepotInOrder ==
  /\ InsideIsLoading /\ OutIsTicketed
  /\ MovementWithinOrder /\ DeadHasNoTrucks /\ NewNumbersAreFree

(* An order whose trucks have all left with all of its litres is           *)
(* completed by the last of them; one that stays open was put together by  *)
(* a merge, after which no truck is left to complete it.                   *)
LeftOpen(o) == status[o] = "Loading" /\ AllOut(o) /\ LitresOf(loads[o]) >= qty[o]
LeftOpenOnlyByMerge ==
  [][\A o \in Orders : ~LeftOpen(o) /\ LeftOpen(o)' => \E source \in Orders : MergeOrders(o, source)]_vars

(* The trucks of a delivery order come to carry more than the order only   *)
(* when its quantity changed after releaseOrder had added up the desk's    *)
(* trucks and before it took the lock, or from a merge with such an order. *)
Overfull(o) == LitresOf(loads[o]) > qty[o]
OverfullOnlyByStaleRelease ==
  [][\A o \in Orders \ Pickup : ~Overfull(o) /\ Overfull(o)' =>
       \/ loads[o] = <<>> /\ LitresOf(loads'[o]) = releasing[o] /\ releasing[o] # qty[o]
       \/ \E source \in Orders : Overfull(source) /\ MergeOrders(o, source)]_vars

=============================================================================
