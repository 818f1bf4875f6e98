---------------------------- MODULE LoadingProofs ----------------------------
(* Theorems about Loading, for every set of orders, every quantity and     *)
(* truckload, and any number of trucks on an order.                        *)
EXTENDS Loading, SumLemmas, SequenceTheorems, TLAPS

-----------------------------------------------------------------------------
(* Trucks and their litres.                                                *)

LEMMA NoTicketIsNone == \A o \in Orders, n \in Nat : <<o, n>> # NoTicket
BY DEF NoTicket

LEMMA LitresType ==
  ASSUME NEW s \in Seq(Load), NEW I \in SUBSET DOMAIN s
  PROVE  LitresIn(s, I) \in Nat
<1> DEFINE f == [i \in DOMAIN s |-> s[i].qty]
<1>1. DOMAIN s = 1..Len(s) /\ Len(s) \in Nat /\ \A i \in DOMAIN s : s[i] \in Load
  BY LenProperties, ElementOfSeq
<1>2. IsFiniteSet(I)
  <2>1. IsFiniteSet(DOMAIN s)
    BY <1>1, FS_Interval
  <2> QED
    BY <2>1, FS_Subset
<1>3. \A i \in I : f[i] \in Nat
  BY <1>1 DEF Load
<1> HIDE DEF f
<1>4. SumFunctionOnSet(f, I) \in Nat
  BY <1>2, <1>3, SumNat
<1> QED
  BY <1>4 DEF LitresIn, f

LEMMA LastIndexType ==
  ASSUME TypeOK, NEW o \in Orders
  PROVE  /\ LastIndex(o) \in Nat
         /\ \A i \in Trucks(o) : loads[o][i].index <= LastIndex(o)
<1> DEFINE s == loads[o]
           f == [i \in DOMAIN s |-> s[i].index]
           N == {f[i] : i \in DOMAIN s}
<1>1. s \in Seq(Load)
  BY DEF TypeOK
<1>2. DOMAIN s = 1..Len(s) /\ Len(s) \in Nat /\ \A i \in DOMAIN s : s[i] \in Load
  BY <1>1, LenProperties, ElementOfSeq
<1>3. CASE s = <<>>
  <2>1. Trucks(o) = {} /\ LastIndex(o) = 0
    BY <1>2, <1>3 DEF Trucks, LastIndex
  <2> QED
    BY <2>1
<1>4. CASE s # <<>>
  <2>1. DOMAIN s # {}
    BY <1>1, <1>2, <1>4, EmptySeq
  <2>2. IsFiniteSet(DOMAIN s)
    BY <1>2, FS_Interval
  <2>3. \A i \in DOMAIN s : f[i] \in Nat
    BY <1>2 DEF Load
  <2>4. LastIndex(o) = Max(N)
    BY <1>4 DEF LastIndex, Trucks
  <2>5. IsFiniteSet(N)
    <3> HIDE DEF f
    <3> QED
      BY <2>2, FiniteImage
  <2>6. N # {} /\ \A n \in N : n \in Nat
    BY <2>1, <2>3
  <2>7. \E m \in N : \A n \in N : n <= m
    <3> HIDE DEF N
    <3> QED
      BY <2>5, <2>6, LargestExists
  <2>8. Max(N) \in N /\ \A n \in N : n <= Max(N)
    <3>1. \E m \in N : \A n \in N : m >= n
      BY <2>6, <2>7
    <3>2. Max(N) \in N /\ \A n \in N : Max(N) >= n
      <4> HIDE DEF N
      <4> QED
        BY <3>1 DEF Max
    <3> QED
      BY <2>6, <3>2
  <2>9. \A i \in Trucks(o) : loads[o][i].index \in N
    BY DEF Trucks
  <2> QED
    BY <2>4, <2>6, <2>8, <2>9
<1> QED
  BY <1>3, <1>4

LEMMA DeclaredType ==
  ASSUME NEW split \in Lists \cup {<<>>}
  PROVE  /\ Declared(split) \in Seq(Load)
         /\ \A i \in DOMAIN Declared(split) :
              Declared(split)[i].status = "pending" /\ Declared(split)[i].ticket = NoTicket
<1>1. PICK n \in Nat : split \in [1..n -> Nat]
  <2>1. CASE split \in Lists
    <3>1. PICK n \in 1..MaxDeclared : split \in [1..n -> Truckloads]
      BY <2>1 DEF Lists
    <3>2. Truckloads \subseteq Nat /\ MaxDeclared \in Nat
      BY LoadingAssumption
    <3>3. n \in Nat
      BY <3>2
    <3>4. split \in [1..n -> Nat]
      BY <3>1, <3>2
    <3> QED
      BY <3>3, <3>4
  <2>2. CASE split = <<>>
    <3>1. split \in [1..0 -> Nat]
      BY <2>2
    <3> QED
      BY <3>1
  <2> QED
    BY <2>1, <2>2
<1>2. \A i \in 1..n : [qty |-> split[i], status |-> "pending", ticket |-> NoTicket, index |-> i] \in Load
  BY <1>1 DEF Load, LoadStatus
<1>3. Declared(split) \in [1..n -> Load]
  BY <1>1, <1>2 DEF Declared
<1> QED
  BY <1>1, <1>3, SeqDef DEF Declared

(* What becomes of one truck: it stays the truck it is but for the field   *)
(* in question.                                                            *)
LEMMA TicketedTruck ==
  ASSUME NEW o \in Orders, NEW l \in Load
  PROVE  /\ Ticketed(o, l) \in Load
         /\ Ticketed(o, l).status = l.status
         /\ Ticketed(o, l).index = l.index
         /\ Ticketed(o, l).ticket = IF l.ticket = NoTicket THEN <<o, l.index>> ELSE l.ticket
BY DEF Ticketed, Load, Ticket

LEMMA LoadedTruck ==
  ASSUME NEW l \in Load
  PROVE  /\ MadeLoaded(l) \in Load
         /\ MadeLoaded(l).status = IF l.status = "pending" THEN "loaded" ELSE l.status
         /\ MadeLoaded(l).index = l.index
         /\ MadeLoaded(l).ticket = l.ticket
BY DEF MadeLoaded, Load, LoadStatus

LEMMA RenumberedTruck ==
  ASSUME NEW l \in Load, NEW b \in Nat, NEW i \in Nat
  PROVE  [l EXCEPT !.index = b + i] \in Load
<1>1. b + i \in Nat
  OBVIOUS
<1> QED
  BY <1>1 DEF Load

LEMMA TruckType ==
  ASSUME TypeOK, NEW o \in Orders
  PROVE  /\ loads[o] \in Seq(Load)
         /\ Trucks(o) = 1..Len(loads[o]) /\ Len(loads[o]) \in Nat
         /\ \A i \in Trucks(o) : loads[o][i] \in Load
<1>1. loads[o] \in Seq(Load)
  BY DEF TypeOK
<1> QED
  BY <1>1, LenProperties, ElementOfSeq DEF Trucks

(* The list of trucks after a ticket generation.                           *)
Known(o, again) ==
  [i \in Trucks(o) |-> IF i \in again THEN MadeLoaded(Ticketed(o, loads[o][i])) ELSE loads[o][i]]
Fresh(o, litres, place) == <<NewTruck(o, litres, "loaded", LastIndex(o) + place)>>

LEMMA KnownType ==
  ASSUME TypeOK, NEW o \in Orders, NEW again \in SUBSET Trucks(o)
  PROVE  Known(o, again) \in Seq(Load) /\ Len(Known(o, again)) = Len(loads[o])
<1>1. \A i \in Trucks(o) : (IF i \in again THEN MadeLoaded(Ticketed(o, loads[o][i])) ELSE loads[o][i]) \in Load
  BY TruckType, TicketedTruck, LoadedTruck
<1>2. Known(o, again) \in [1..Len(loads[o]) -> Load] /\ Len(loads[o]) \in Nat
  BY <1>1, TruckType DEF Known
<1> QED
  BY <1>2, SeqDef

LEMMA FreshType ==
  ASSUME TypeOK, NEW o \in Orders, NEW litres \in Nat, NEW place \in Nat
  PROVE  Fresh(o, litres, place) \in Seq(Load) /\ Len(Fresh(o, litres, place)) = 1
<1>1. NewTruck(o, litres, "loaded", LastIndex(o) + place) \in Load
  BY LastIndexType DEF NewTruck, Load, LoadStatus, Ticket
<1> QED
  BY <1>1 DEF Fresh

LEMMA RenumberedType ==
  ASSUME TypeOK, NEW o \in Orders, NEW base \in Nat
  PROVE  Renumbered(o, base) \in Seq(Load) /\ Len(Renumbered(o, base)) = Len(loads[o])
<1>1. ASSUME NEW i \in Trucks(o) PROVE [loads[o][i] EXCEPT !.index = base + i] \in Load
  <2>1. loads[o][i] \in Load /\ i \in Nat
    BY TruckType
  <2> QED
    BY <2>1, RenumberedTruck
<1>2. Renumbered(o, base) \in [1..Len(loads[o]) -> Load] /\ Len(loads[o]) \in Nat
  BY <1>1, TruckType DEF Renumbered
<1> QED
  BY <1>2, SeqDef

(* An action that rewrites one order's list of trucks.                     *)
LEMMA ListType ==
  ASSUME TypeOK, NEW o \in Orders, NEW s \in Seq(Load)
  PROVE  [loads EXCEPT ![o] = s] \in [Orders -> Seq(Load)]
BY DEF TypeOK

LEMMA EmptyList == <<>> \in Seq(Load)
OBVIOUS

LEMMA SumsAreNat ==
  ASSUME NEW f \in [Orders -> Nat], NEW a \in Orders, NEW b \in Orders
  PROVE  /\ [f EXCEPT ![a] = f[a] + f[b], ![b] = 0] \in [Orders -> Nat]
         /\ [f EXCEPT ![a] = f[a] + f[b]] \in [Orders -> Nat]
<1>1. f[a] + f[b] \in Nat
  OBVIOUS
<1> DEFINE v == f[a] + f[b]
<1>2. /\ [f EXCEPT ![a] = v, ![b] = 0] \in [Orders -> Nat]
      /\ [f EXCEPT ![a] = v] \in [Orders -> Nat]
  <2>1. v \in Nat
    BY <1>1
  <2> HIDE DEF v
  <2> QED
    BY <2>1
<1> QED
  BY <1>2

LEMMA TruckChangeType ==
  ASSUME TypeOK, NEW o \in Orders, NEW i \in Trucks(o), NEW l \in Load
  PROVE  /\ [loads[o] EXCEPT ![i] = l] \in Seq(Load)
         /\ DOMAIN [loads[o] EXCEPT ![i] = l] = Trucks(o)
<1>1. loads[o] \in Seq(Load) /\ i \in 1..Len(loads[o])
  BY TruckType
<1> QED
  BY <1>1, ExceptSeq DEF Trucks

-----------------------------------------------------------------------------
(* Type correctness.                                                       *)

LEMMA InitType == Init => TypeOK
<1> SUFFICES ASSUME Init PROVE TypeOK
  OBVIOUS
<1>1. <<>> \in Seq(Load)
  OBVIOUS
<1> QED
  BY <1>1 DEF Init, TypeOK, OrderStatus

LEMMA PlaceOrderType ==
  ASSUME TypeOK, NEW o \in Orders, NEW q \in Quantities, NEW unpriced \in BOOLEAN,
         NEW split \in Splits(q) \cup {<<>>}, PlaceOrder(o, q, split, unpriced)
  PROVE  TypeOK'
<1>1. q \in Nat /\ split \in Lists \cup {<<>>}
  BY LoadingAssumption DEF Splits
<1>2. loads' \in [Orders -> Seq(Load)]
  BY <1>1, DeclaredType, ListType DEF PlaceOrder
<1> QED
  BY <1>1, <1>2 DEF PlaceOrder, TypeOK, OrderStatus

LEMMA GenerateTicketsType ==
  ASSUME TypeOK, NEW o \in Orders, NEW again \in SUBSET Trucks(o),
         NEW fresh, fresh = <<>> \/ (fresh = <<fresh[1]>> /\ fresh[1] \in Nat), NEW place \in Nat,
         GenerateTickets(o, again, fresh, place)
  PROVE  /\ TypeOK'
         /\ loads' = [loads EXCEPT ![o] = Known(o, again) \o
                        (IF fresh = <<>> THEN <<>> ELSE Fresh(o, fresh[1], place))]
<1> DEFINE litres == IF fresh = <<>> THEN 0 ELSE fresh[1]
           new == IF fresh = <<>> THEN <<>> ELSE Fresh(o, fresh[1], place)
           total == TicketTotal(o, again, litres)
<1>1. litres \in Nat /\ new \in Seq(Load)
  BY FreshType
<1>2. Known(o, again) \in Seq(Load)
  BY KnownType
<1>3. Known(o, again) \o new \in Seq(Load)
  <2> HIDE DEF new
  <2> QED
    BY <1>1, <1>2, ConcatProperties
<1>4. loads' = [loads EXCEPT ![o] = Known(o, again) \o new]
  BY DEF GenerateTickets, Known, Fresh
<1>5. loads' \in [Orders -> Seq(Load)]
  <2> HIDE DEF new
  <2> QED
    BY <1>3, <1>4, ListType
<1>6. total \in Nat
  <2>1. LitresOf(loads[o]) \in Nat /\ LitresIn(loads[o], again) \in Nat
    BY TruckType, LitresType DEF LitresOf, Trucks
  <2> HIDE DEF litres
  <2> QED
    BY <1>1, <2>1 DEF TicketTotal
<1>7. moved' = [moved EXCEPT ![o] = total]
  BY DEF GenerateTickets
<1>8. moved' \in [Orders -> Nat]
  <2> HIDE DEF total
  <2> QED
    BY <1>6, <1>7 DEF TypeOK
<1>9. /\ status' = [status EXCEPT ![o] = "Loading"]
      /\ UNCHANGED <<qty, paid, credit, merged, releasing>>
  BY DEF GenerateTickets
<1> QED
  BY <1>4, <1>5, <1>8, <1>9 DEF TypeOK, OrderStatus

LEMMA MergeOrdersType ==
  ASSUME TypeOK, NEW target \in Orders, NEW source \in Orders, MergeOrders(target, source)
  PROVE  TypeOK'
<1> DEFINE new == Renumbered(source, LastIndex(target))
<1>1. /\ loads[target] \in Seq(Load)
      /\ new \in Seq(Load)
  BY LastIndexType, RenumberedType DEF TypeOK
<1>2. loads[target] \o new \in Seq(Load)
  <2> HIDE DEF new
  <2> QED
    BY <1>1, ConcatProperties
<1>3. loads' = [loads EXCEPT ![target] = @ \o new, ![source] = <<>>]
  BY DEF MergeOrders
<1>4. loads' \in [Orders -> Seq(Load)]
  <2> HIDE DEF new
  <2>1. loads' = [[loads EXCEPT ![target] = loads[target] \o new] EXCEPT ![source] = <<>>]
    BY <1>3
  <2>2. [loads EXCEPT ![target] = loads[target] \o new] \in [Orders -> Seq(Load)]
    BY <1>2, ListType
  <2>3. <<>> \in Seq(Load)
    OBVIOUS
  <2> QED
    BY <2>1, <2>2, <2>3
<1>5. CombinedStatus(status[target], status[source]) \in OrderStatus
  BY DEF CombinedStatus, OrderStatus
<1>6. status' \in [Orders -> OrderStatus]
  BY <1>5 DEF MergeOrders, TypeOK, OrderStatus
<1>7. qty' \in [Orders -> Nat] /\ paid' \in [Orders -> Nat] /\ credit' \in [Orders -> Nat]
      /\ moved' \in [Orders -> Nat]
  <2>1. /\ qty' = [qty EXCEPT ![target] = qty[target] + qty[source]]
        /\ paid' = [paid EXCEPT ![target] = paid[target] + paid[source], ![source] = 0]
        /\ credit' = [credit EXCEPT ![target] = credit[target] + credit[source], ![source] = 0]
        /\ moved' = [moved EXCEPT ![target] = moved[target] + moved[source], ![source] = 0]
    BY DEF MergeOrders
  <2>2. /\ qty \in [Orders -> Nat] /\ paid \in [Orders -> Nat] /\ credit \in [Orders -> Nat]
        /\ moved \in [Orders -> Nat]
    BY DEF TypeOK
  <2> QED
    BY <2>1, <2>2, SumsAreNat
<1>8. merged' \subseteq Orders /\ releasing' = releasing
  BY DEF MergeOrders, TypeOK
<1> QED
  BY <1>4, <1>6, <1>7, <1>8 DEF TypeOK

LEMMA PlaceType ==
  ASSUME NEW S, NEW place \in 1..Cardinality(S) + 1
  PROVE  place \in Nat
OBVIOUS

LEMMA StepType == TypeOK /\ [Next]_vars => TypeOK'
<1> SUFFICES ASSUME TypeOK, [Next]_vars PROVE TypeOK'
  OBVIOUS
<1> USE LoadingAssumption
<1>1. ASSUME NEW o \in Orders, NEW q \in Quantities, NEW unpriced \in BOOLEAN,
             NEW split \in Splits(q) \cup {<<>>}, PlaceOrder(o, q, split, unpriced)
      PROVE  TypeOK'
  BY <1>1, PlaceOrderType
<1>2. ASSUME NEW o \in Orders, NEW q \in Payments, NEW st \in {status[o], "Released"},
             MoneyMoves(o, q, st)
      PROVE  TypeOK'
  BY <1>2 DEF MoneyMoves, TypeOK, OrderStatus
<1>3. ASSUME NEW o \in Orders, NEW q \in Truckloads, AuthoriseCreditRelease(o, q)
      PROVE  TypeOK'
  BY <1>3 DEF AuthoriseCreditRelease, TypeOK, OrderStatus
<1>4. ASSUME NEW o \in Orders, RevokeCreditRelease(o) PROVE TypeOK'
  BY <1>4 DEF RevokeCreditRelease, TypeOK
<1>5. ASSUME NEW o \in Orders, BeginRelease(o) PROVE TypeOK'
  BY <1>5 DEF BeginRelease, TypeOK
<1>6. ASSUME NEW o \in Orders, RefuseRelease(o) PROVE TypeOK'
  BY <1>6 DEF RefuseRelease, TypeOK
<1>7. ASSUME NEW o \in Orders, EndOrder(o) PROVE TypeOK'
  <2>1. loads' \in [Orders -> Seq(Load)]
    BY <1>7, EmptyList, ListType DEF EndOrder, TrucksDropped
  <2> QED
    BY <1>7, <2>1 DEF EndOrder, TypeOK, OrderStatus
<1>8. ASSUME NEW o \in Orders, DeleteOrder(o) PROVE TypeOK'
  <2>1. loads' \in [Orders -> Seq(Load)]
    BY <1>8, EmptyList, ListType DEF DeleteOrder
  <2> QED
    BY <1>8, <2>1 DEF DeleteOrder, TypeOK, OrderStatus
<1>9. ASSUME NEW o \in Orders, NEW q \in Quantities, UpdateQuantity(o, q) PROVE TypeOK'
  BY <1>9 DEF UpdateQuantity, TypeOK
<1>10. ASSUME NEW o \in Orders, NEW split \in Splits(qty[o]) \cup {<<>>}, UpdatePickupTrucks(o, split)
       PROVE  TypeOK'
  <2>1. Declared(split) \in Seq(Load)
    BY DeclaredType DEF Splits
  <2>2. loads' \in [Orders -> Seq(Load)]
    BY <1>10, <2>1, ListType DEF UpdatePickupTrucks
  <2> QED
    BY <1>10, <2>2 DEF UpdatePickupTrucks, TypeOK
<1>11. ASSUME NEW o \in Orders, NEW split \in (IF o \in Pickup THEN {<<>>} ELSE Splits(releasing[o])),
              ReleaseOrder(o, split)
       PROVE  TypeOK'
  <2>1. Declared(split) \in Seq(Load)
    BY DeclaredType DEF Splits
  <2>2. loads[o] \in Seq(Load)
    BY DEF TypeOK
  <2>3. loads' \in [Orders -> Seq(Load)]
    BY <1>11, <2>1, <2>2, ListType DEF ReleaseOrder
  <2> QED
    BY <1>11, <2>3 DEF ReleaseOrder, TypeOK, OrderStatus
<1>12. ASSUME NEW o \in Orders, NEW again \in SUBSET Trucks(o), GenerateTickets(o, again, <<>>, 0)
       PROVE  TypeOK'
  <2>1. 0 \in Nat
    OBVIOUS
  <2> QED
    BY <1>12, <2>1, GenerateTicketsType
<1>13. ASSUME NEW o \in Orders, NEW again \in SUBSET Trucks(o), NEW q \in Truckloads,
              NEW place \in 1..Cardinality(again) + 1, GenerateTickets(o, again, <<q>>, place)
       PROVE  TypeOK'
  <2>1. place \in Nat
    BY PlaceType
  <2>2. q \in Nat /\ <<q>> = <<<<q>>[1]>> /\ <<q>>[1] = q
    OBVIOUS
  <2> QED
    BY <1>13, <2>1, <2>2, GenerateTicketsType
<1>14. ASSUME NEW o \in Orders, NEW i \in Trucks(o), MarkTruckLoaded(o, i) PROVE TypeOK'
  <2>1. MadeLoaded(Ticketed(o, loads[o][i])) \in Load
    BY TruckType, TicketedTruck, LoadedTruck
  <2>2. loads' = [loads EXCEPT ![o] = [loads[o] EXCEPT ![i] = MadeLoaded(Ticketed(o, loads[o][i]))]]
    BY <1>14 DEF MarkTruckLoaded
  <2>3. loads' \in [Orders -> Seq(Load)]
    BY <2>1, <2>2, TruckChangeType, ListType
  <2> QED
    BY <1>14, <2>3 DEF MarkTruckLoaded, TypeOK
<1>15. ASSUME NEW o \in Orders, NEW i \in Trucks(o), GateInTruck(o, i) PROVE TypeOK'
  <2>1. [loads[o][i] EXCEPT !.status = "gated_in"] \in Load
    BY TruckType DEF Load, LoadStatus
  <2>2. loads' = [loads EXCEPT ![o] = [loads[o] EXCEPT ![i] = [loads[o][i] EXCEPT !.status = "gated_in"]]]
    BY <1>15 DEF GateInTruck
  <2>3. loads' \in [Orders -> Seq(Load)]
    BY <2>1, <2>2, TruckChangeType, ListType
  <2> QED
    BY <1>15, <2>3 DEF GateInTruck, TypeOK, OrderStatus
<1>16. ASSUME NEW o \in Orders, NEW i \in Trucks(o), GateOutTruck(o, i) PROVE TypeOK'
  <2>1. [TicketAtExit(o, loads[o][i]) EXCEPT !.status = "gated_out"] \in Load
    <3>1. TicketAtExit(o, loads[o][i]) \in Load
      BY TruckType, TicketedTruck DEF TicketAtExit
    <3> QED
      BY <3>1 DEF Load, LoadStatus
  <2>2. loads' = [loads EXCEPT ![o] =
                   [loads[o] EXCEPT ![i] = [TicketAtExit(o, loads[o][i]) EXCEPT !.status = "gated_out"]]]
    BY <1>16 DEF GateOutTruck
  <2>3. loads' \in [Orders -> Seq(Load)]
    BY <2>1, <2>2, TruckChangeType, ListType
  <2>4. status' \in [Orders -> OrderStatus]
    BY <1>16 DEF GateOutTruck, TypeOK, OrderStatus
  <2>5. UNCHANGED <<qty, paid, credit, moved, merged, releasing>>
    BY <1>16 DEF GateOutTruck
  <2> QED
    BY <2>3, <2>4, <2>5 DEF TypeOK
<1>17. ASSUME NEW o \in Orders, NEW i \in Trucks(o), NEW q \in Truckloads, UpdateTruckLoad(o, i, q)
       PROVE  TypeOK'
  <2>1. [loads[o][i] EXCEPT !.qty = q] \in Load
    BY TruckType DEF Load
  <2>2. loads' = [loads EXCEPT ![o] = [loads[o] EXCEPT ![i] = [loads[o][i] EXCEPT !.qty = q]]]
    BY <1>17 DEF UpdateTruckLoad
  <2>3. loads' \in [Orders -> Seq(Load)]
    BY <2>1, <2>2, TruckChangeType, ListType
  <2> QED
    BY <1>17, <2>3 DEF UpdateTruckLoad, TypeOK
<1>18. ASSUME NEW o \in Orders, NEW q \in Truckloads, GateInUndeclared(o, q) PROVE TypeOK'
  <2> DEFINE new == [qty |-> q, status |-> "gated_in", ticket |-> NoTicket, index |-> Len(loads[o]) + 1]
  <2>1. new \in Load
    BY TruckType DEF Load, LoadStatus
  <2>2. Append(loads[o], new) \in Seq(Load)
    <3> HIDE DEF new
    <3> QED
      BY <2>1, TruckType, AppendProperties
  <2>3. loads' = [loads EXCEPT ![o] = Append(loads[o], new)]
    BY <1>18 DEF GateInUndeclared
  <2>4. loads' \in [Orders -> Seq(Load)]
    <3> HIDE DEF new
    <3> QED
      BY <2>2, <2>3, ListType
  <2> QED
    BY <1>18, <2>4 DEF GateInUndeclared, TypeOK, OrderStatus
<1>19. ASSUME NEW target \in Orders, NEW source \in Orders, MergeOrders(target, source) PROVE TypeOK'
  BY <1>19, MergeOrdersType
<1>20. CASE UNCHANGED vars
  BY <1>20 DEF vars, TypeOK
<1> QED
  BY <1>1, <1>2, <1>3, <1>4, <1>5, <1>6, <1>7, <1>8, <1>9, <1>10, <1>11, <1>12, <1>13, <1>14,
     <1>15, <1>16, <1>17, <1>18, <1>19, <1>20 DEF Next

(* The fields hold what they are declared to hold: a truck keeps its four  *)
(* fields through tickets, gates and merges, however many there are.       *)
THEOREM TypeCorrect == Spec => []TypeOK
<1>1. Init => TypeOK
  BY InitType
<1>2. TypeOK /\ [Next]_vars => TypeOK'
  BY StepType
<1> QED
  BY <1>1, <1>2, PTL DEF Spec

-----------------------------------------------------------------------------
(* What a truck's status and ticket say of the order it is on.             *)

(* A truck's ticket carries its own number and order, or the name of an    *)
(* order that a merge has emptied for good.                                *)
Gone(o) == o \in merged /\ status[o] = "Dead"
TicketNames(o, l) ==
  l.ticket # NoTicket =>
    \/ l.ticket[1] = o /\ l.ticket[2] = l.index
    \/ l.ticket[1] # o /\ Gone(l.ticket[1])

StatusFits(o, l) ==
  /\ l.status = "gated_in" => status[o] = "Loading"
  /\ l.status \in {"loaded", "gated_out"} => l.ticket # NoTicket
  /\ l.status = "gated_out" => status[o] \in {"Loading", "Completed"}

TruckFits(o, l) == TicketNames(o, l) /\ StatusFits(o, l)

OrderFits(o) ==
  /\ status[o] \in {"Absent", "Dead", "Deleted"} => loads[o] = <<>>
  /\ \A i \in Trucks(o) : TruckFits(o, loads[o][i])

LoadInv == \A o \in Orders : OrderFits(o)

(* An order emptied by a merge never comes back, and cannot be deleted.    *)
LEMMA GoneStays ==
  ASSUME TypeOK, Next, NEW o \in Orders, Gone(o)
  PROVE  Gone(o)'
<1>1. merged \subseteq merged'
  BY ZenonT(60) DEF Next, PlaceOrder, MoneyMoves, AuthoriseCreditRelease, RevokeCreditRelease, BeginRelease,
         RefuseRelease, EndOrder, DeleteOrder, UpdateQuantity, UpdatePickupTrucks, ReleaseOrder,
         GenerateTickets, MarkTruckLoaded, GateInTruck, GateOutTruck, UpdateTruckLoad,
         GateInUndeclared, MergeOrders
<1>2. status'[o] = "Dead"
  <2>1. ASSUME NEW p \in Orders, NEW q, NEW split, NEW unpriced, PlaceOrder(p, q, split, unpriced)
        PROVE  status'[o] = "Dead"
    BY <2>1 DEF PlaceOrder, Gone, TypeOK
  <2>2. ASSUME NEW p \in Orders, NEW q, NEW st, MoneyMoves(p, q, st) PROVE status'[o] = "Dead"
    BY <2>2 DEF MoneyMoves, Lives, Gone, TypeOK
  <2>3. ASSUME NEW p \in Orders, NEW q, AuthoriseCreditRelease(p, q) PROVE status'[o] = "Dead"
    BY <2>3 DEF AuthoriseCreditRelease, Lives, Gone, TypeOK
  <2>4. ASSUME NEW p \in Orders,
               \/ RevokeCreditRelease(p) \/ BeginRelease(p) \/ RefuseRelease(p)
               \/ EndOrder(p) \/ DeleteOrder(p)
        PROVE  status'[o] = "Dead"
    BY <2>4 DEF RevokeCreditRelease, BeginRelease, RefuseRelease, EndOrder, DeleteOrder, Gone, TypeOK
  <2>5. ASSUME NEW p \in Orders, NEW q, UpdateQuantity(p, q) \/ UpdatePickupTrucks(p, q)
        PROVE  status'[o] = "Dead"
    BY <2>5 DEF UpdateQuantity, UpdatePickupTrucks, Gone
  <2>6. ASSUME NEW p \in Orders, NEW split, ReleaseOrder(p, split) PROVE status'[o] = "Dead"
    BY <2>6 DEF ReleaseOrder, MayRelease, Gone, TypeOK
  <2>7. ASSUME NEW p \in Orders, NEW again, NEW fresh, NEW place, GenerateTickets(p, again, fresh, place)
        PROVE  status'[o] = "Dead"
    BY <2>7 DEF GenerateTickets, Ticketable, Gone, TypeOK
  <2>8. ASSUME NEW p \in Orders, NEW i \in Trucks(p), MarkTruckLoaded(p, i) \/ GateInTruck(p, i)
        PROVE  status'[o] = "Dead"
    BY <2>8 DEF MarkTruckLoaded, GateInTruck, Gateable, Gone, TypeOK
  <2>9. ASSUME NEW p \in Orders, NEW i \in Trucks(p), GateOutTruck(p, i) PROVE status'[o] = "Dead"
    BY <2>9 DEF GateOutTruck, CompletesWith, Gone, TypeOK
  <2>10. ASSUME NEW p \in Orders, NEW i \in Trucks(p), NEW q, UpdateTruckLoad(p, i, q)
         PROVE  status'[o] = "Dead"
    BY <2>10 DEF UpdateTruckLoad, Gone
  <2>11. ASSUME NEW p \in Orders, NEW q, GateInUndeclared(p, q) PROVE status'[o] = "Dead"
    BY <2>11 DEF GateInUndeclared, Gateable, Gone, TypeOK
  <2>12. ASSUME NEW target \in Orders, NEW source \in Orders, MergeOrders(target, source)
         PROVE  status'[o] = "Dead"
    BY <2>12 DEF MergeOrders, Lives, Gone, TypeOK
  <2> QED
    BY <2>1, <2>2, <2>3, <2>4, <2>5, <2>6, <2>7, <2>8, <2>9, <2>10, <2>11, <2>12 DEF Next
<1> QED
  BY <1>1, <1>2 DEF Gone

(* A ticket keeps fitting its truck whatever the step.                     *)
LEMMA StillNamed ==
  ASSUME TypeOK, Next, NEW o \in Orders, NEW l \in Load, TicketNames(o, l)
  PROVE  TicketNames(o, l)'
<1>1. CASE l.ticket = NoTicket
  BY <1>1 DEF TicketNames
<1>2. CASE l.ticket # NoTicket
  <2>1. l.ticket[1] \in Orders
    BY <1>2 DEF Load, Ticket
  <2>2. Gone(l.ticket[1]) => Gone(l.ticket[1])'
    BY <2>1, GoneStays
  <2> QED
    BY <2>2 DEF TicketNames
<1> QED
  BY <1>1, <1>2

(* A truck keeps fitting an order whose status a step leaves alone, an     *)
(* order on its way to the depot, and one that is being loaded.            *)
LEMMA StillTruckFits ==
  ASSUME TypeOK, Next, NEW o \in Orders, NEW l \in Load, TruckFits(o, l),
         \/ status'[o] = status[o]
         \/ status[o] \notin {"Loading", "Completed"}
         \/ status'[o] = "Loading"
  PROVE  TruckFits(o, l)'
<1>1. TicketNames(o, l)'
  BY StillNamed DEF TruckFits
<1>2. StatusFits(o, l)'
  BY DEF TruckFits, StatusFits
<1> QED
  BY <1>1, <1>2 DEF TruckFits

LEMMA FitsNow ==
  ASSUME NEW o, NEW i, NEW l, loads'[o][i] = l, TruckFits(o, l)'
  PROVE  TruckFits(o, loads[o][i])'
BY DEF TruckFits, TicketNames, StatusFits

LEMMA KeptListFits ==
  ASSUME TypeOK, Next, NEW o \in Orders, OrderFits(o), loads'[o] = loads[o],
         \/ status'[o] = status[o]
         \/ status[o] \in {"Pending", "Released"} /\ status'[o] \notin {"Absent", "Dead", "Deleted"}
  PROVE  OrderFits(o)'
<1>1. ASSUME NEW i \in Trucks(o)' PROVE TruckFits(o, loads[o][i])'
  <2>1. i \in Trucks(o)
    BY DEF Trucks
  <2>2. loads[o][i] \in Load /\ TruckFits(o, loads[o][i])
    BY <2>1, TruckType DEF OrderFits
  <2>3. \A l \in Load : TruckFits(o, l) => TruckFits(o, l)'
    BY StillTruckFits
  <2>4. PICK l \in Load : l = loads[o][i] /\ TruckFits(o, l)
    BY <2>2
  <2>5. TruckFits(o, l)' /\ loads'[o][i] = l
    BY <2>3, <2>4
  <2> QED
    BY <2>5, FitsNow
<1> QED
  BY <1>1 DEF OrderFits

LEMMA EmptiedListFits ==
  ASSUME NEW o \in Orders, loads'[o] = <<>>
  PROVE  OrderFits(o)'
BY DEF OrderFits, Trucks

LEMMA DeclaredListFits ==
  ASSUME NEW o \in Orders, NEW split \in Lists \cup {<<>>}, loads'[o] = Declared(split),
         status'[o] \notin {"Absent", "Dead", "Deleted"}
  PROVE  OrderFits(o)'
<1>1. ASSUME NEW i \in Trucks(o)' PROVE TruckFits(o, loads[o][i])'
  <2>1. loads'[o][i].status = "pending" /\ loads'[o][i].ticket = NoTicket
    BY DeclaredType DEF Trucks
  <2> QED
    BY <2>1 DEF TruckFits, TicketNames, StatusFits
<1> QED
  BY <1>1 DEF OrderFits

(* One truck of an order becomes l.                                        *)
LEMMA ChangedListFits ==
  ASSUME TypeOK, NEW o \in Orders, NEW i \in Trucks(o), NEW l \in Load,
         loads'[o] = [loads[o] EXCEPT ![i] = l],
         TruckFits(o, l)',
         \A k \in Load : (\E j \in Trucks(o) \ {i} : k = loads[o][j]) => TruckFits(o, k)',
         status'[o] \notin {"Absent", "Dead", "Deleted"}
  PROVE  OrderFits(o)'
<1>1. ASSUME NEW j \in Trucks(o)' PROVE TruckFits(o, loads[o][j])'
  <2>1. j \in Trucks(o)
    BY TruckChangeType DEF Trucks
  <2>2. CASE j = i
    BY <2>1, <2>2, FitsNow DEF Trucks
  <2>3. CASE j # i
    <3>1. loads[o][j] \in Load /\ loads'[o][j] = loads[o][j]
      BY <2>1, <2>3, TruckType DEF Trucks
    <3>2. PICK k \in Load : k = loads[o][j]
      BY <3>1
    <3>3. TruckFits(o, k)' /\ loads'[o][j] = k
      BY <2>1, <2>3, <3>1, <3>2
    <3> QED
      BY <3>3, FitsNow
  <2> QED
    BY <2>2, <2>3
<1> QED
  BY <1>1 DEF OrderFits

(* A step that concerns one order keeps every other as it was.             *)
LEMMA OneOrderFits ==
  ASSUME TypeOK, Next, LoadInv, NEW o \in Orders, OrderFits(o)',
         \A x \in Orders \ {o} : status'[x] = status[x] /\ loads'[x] = loads[x]
  PROVE  LoadInv'
<1>1. ASSUME NEW x \in Orders \ {o} PROVE OrderFits(x)'
  BY KeptListFits DEF LoadInv
<1> QED
  BY <1>1 DEF LoadInv

(* The trucks of an order other than the one a step is about.              *)
LEMMA OthersFit ==
  ASSUME TypeOK, Next, NEW o \in Orders, OrderFits(o),
         \/ status'[o] = status[o]
         \/ status[o] \notin {"Loading", "Completed"}
         \/ status'[o] = "Loading"
  PROVE  \A k \in Load : (\E j \in Trucks(o) : k = loads[o][j]) => TruckFits(o, k)'
<1> TAKE k \in Load
<1> HAVE \E j \in Trucks(o) : k = loads[o][j]
<1>1. TruckFits(o, k)
  BY DEF OrderFits
<1> QED
  BY <1>1, StillTruckFits

(* An order with a truck is not absent, dead or deleted.                   *)
LEMMA HasTrucks ==
  ASSUME TypeOK, NEW o \in Orders, OrderFits(o), NEW i \in Trucks(o)
  PROVE  status[o] \notin {"Absent", "Dead", "Deleted"}
<1>1. loads[o] # <<>>
  BY TruckType
<1> QED
  BY <1>1 DEF OrderFits

(* The truck k, number i of the order, becomes l.                          *)
LEMMA MarkTruckLoadedFits ==
  ASSUME TypeOK, Next, NEW o \in Orders, OrderFits(o), NEW i \in Trucks(o), MarkTruckLoaded(o, i)
  PROVE  OrderFits(o)'
<1>1. PICK k \in Load : k = loads[o][i] /\ TruckFits(o, k)
  BY TruckType DEF OrderFits
<1> DEFINE l == MadeLoaded(Ticketed(o, k))
<1>2. status' = status
  BY DEF MarkTruckLoaded
<1>3. l \in Load
  BY TicketedTruck, LoadedTruck
<1>4. TruckFits(o, l)
  <2>1. /\ l.status = IF k.status = "pending" THEN "loaded" ELSE k.status
        /\ l.index = k.index
        /\ l.ticket = IF k.ticket = NoTicket THEN <<o, k.index>> ELSE k.ticket
    BY TicketedTruck, LoadedTruck
  <2>2. l.ticket # NoTicket
    BY <2>1, NoTicketIsNone DEF Load
  <2> HIDE DEF l
  <2> QED
    BY <1>1, <2>1, <2>2 DEF TruckFits, TicketNames, StatusFits
<1>5. TruckFits(o, l)'
  <2> HIDE DEF l
  <2> QED
    BY <1>2, <1>3, <1>4, StillTruckFits
<1>6. loads'[o] = [loads[o] EXCEPT ![i] = l]
  BY <1>1 DEF MarkTruckLoaded, TypeOK
<1>7. \A x \in Load : (\E j \in Trucks(o) \ {i} : x = loads[o][j]) => TruckFits(o, x)'
  BY <1>2, OthersFit
<1>8. status'[o] \notin {"Absent", "Dead", "Deleted"}
  BY <1>2, HasTrucks
<1> HIDE DEF l
<1> QED
  BY <1>3, <1>5, <1>6, <1>7, <1>8, ChangedListFits

LEMMA UpdateTruckLoadFits ==
  ASSUME TypeOK, Next, NEW o \in Orders, OrderFits(o), NEW i \in Trucks(o), NEW q \in Nat,
         UpdateTruckLoad(o, i, q)
  PROVE  OrderFits(o)'
<1>1. PICK k \in Load : k = loads[o][i] /\ TruckFits(o, k)
  BY TruckType DEF OrderFits
<1> DEFINE l == [k EXCEPT !.qty = q]
<1>2. status' = status
  BY DEF UpdateTruckLoad
<1>3. l \in Load
  BY DEF Load
<1>4. TruckFits(o, l)
  BY <1>1 DEF TruckFits, TicketNames, StatusFits, Load
<1>5. TruckFits(o, l)'
  <2> HIDE DEF l
  <2> QED
    BY <1>2, <1>3, <1>4, StillTruckFits
<1>6. loads'[o] = [loads[o] EXCEPT ![i] = l]
  BY <1>1 DEF UpdateTruckLoad, TypeOK
<1>7. \A x \in Load : (\E j \in Trucks(o) \ {i} : x = loads[o][j]) => TruckFits(o, x)'
  BY <1>2, OthersFit
<1>8. status'[o] \notin {"Absent", "Dead", "Deleted"}
  BY <1>2, HasTrucks
<1> HIDE DEF l
<1> QED
  BY <1>3, <1>5, <1>6, <1>7, <1>8, ChangedListFits

LEMMA GateInTruckFits ==
  ASSUME TypeOK, Next, NEW o \in Orders, OrderFits(o), NEW i \in Trucks(o), GateInTruck(o, i)
  PROVE  OrderFits(o)'
<1>1. PICK k \in Load : k = loads[o][i] /\ TruckFits(o, k)
  BY TruckType DEF OrderFits
<1> DEFINE l == [k EXCEPT !.status = "gated_in"]
<1>2. status'[o] = "Loading"
  BY DEF GateInTruck, TypeOK
<1>3. l \in Load
  BY DEF Load, LoadStatus
<1>4. TruckFits(o, k)'
  BY <1>1, <1>2, StillTruckFits
<1>5. TruckFits(o, l)'
  BY <1>2, <1>4 DEF TruckFits, TicketNames, StatusFits, Load
<1>6. loads'[o] = [loads[o] EXCEPT ![i] = l]
  BY <1>1 DEF GateInTruck, TypeOK
<1>7. \A x \in Load : (\E j \in Trucks(o) \ {i} : x = loads[o][j]) => TruckFits(o, x)'
  BY <1>2, OthersFit
<1>8. status'[o] \notin {"Absent", "Dead", "Deleted"}
  BY <1>2, HasTrucks
<1> HIDE DEF l
<1> QED
  BY <1>3, <1>5, <1>6, <1>7, <1>8, ChangedListFits

(* The last truck out completes the order, so none is left inside.         *)
LEMMA GateOutTruckFits ==
  ASSUME TypeOK, Next, NEW o \in Orders, OrderFits(o), NEW i \in Trucks(o), GateOutTruck(o, i)
  PROVE  OrderFits(o)'
<1>1. PICK k \in Load : k = loads[o][i] /\ TruckFits(o, k)
  BY TruckType DEF OrderFits
<1> DEFINE l == [Ticketed(o, k) EXCEPT !.status = "gated_out"]
           trucks == [loads[o] EXCEPT ![i] = l]
<1>2. /\ k.status = "gated_in"
      /\ loads' = [loads EXCEPT ![o] = trucks]
      /\ status' = [status EXCEPT ![o] = IF CompletesWith(o, trucks) THEN "Completed" ELSE @]
  BY <1>1 DEF GateOutTruck, TicketAtExit
<1>3. status[o] = "Loading" /\ status'[o] \in {"Loading", "Completed"}
  <2>1. status[o] = "Loading"
    BY <1>1, <1>2 DEF TruckFits, StatusFits
  <2> HIDE DEF trucks
  <2> QED
    BY <1>2, <2>1 DEF TypeOK
<1>4. /\ l \in Load /\ l.status = "gated_out" /\ l.index = k.index
      /\ l.ticket = IF k.ticket = NoTicket THEN <<o, k.index>> ELSE k.ticket
  <2>1. Ticketed(o, k) \in Load
    BY TicketedTruck
  <2>2. /\ l \in Load /\ l.status = "gated_out"
        /\ l.index = Ticketed(o, k).index /\ l.ticket = Ticketed(o, k).ticket
    BY <2>1 DEF Load, LoadStatus
  <2> QED
    BY <2>2, TicketedTruck
<1>5. TicketNames(o, k)'
  BY <1>1, StillNamed DEF TruckFits
<1>6. TruckFits(o, l)'
  <2>1. l.ticket # NoTicket
    BY <1>4, NoTicketIsNone DEF Load
  <2> HIDE DEF l
  <2> QED
    BY <1>3, <1>4, <1>5, <2>1 DEF TruckFits, TicketNames, StatusFits
<1>7. loads'[o] = trucks
  BY <1>2 DEF TypeOK
<1>8. \A x \in Load : (\E j \in Trucks(o) \ {i} : x = loads[o][j]) => TruckFits(o, x)'
  <2> TAKE x \in Load
  <2> HAVE \E j \in Trucks(o) \ {i} : x = loads[o][j]
  <2>1. PICK j \in Trucks(o) \ {i} : x = loads[o][j]
    OBVIOUS
  <2>2. CASE status'[o] = "Loading"
    BY <1>3, <2>1, <2>2, OthersFit
  <2>3. CASE status'[o] = "Completed"
    <3>1. CompletesWith(o, trucks)
      <4> HIDE DEF trucks
      <4> QED
        BY <1>2, <1>3, <2>3 DEF TypeOK
    <3>2. j \in DOMAIN trucks /\ trucks[j] = x
      BY <2>1, TruckType DEF Trucks
    <3>3. x.status = "gated_out"
      <4> HIDE DEF trucks
      <4> QED
        BY <3>1, <3>2 DEF CompletesWith
    <3>4. TruckFits(o, x)
      BY <2>1 DEF OrderFits
    <3>5. TicketNames(o, x)'
      BY <3>4, StillNamed DEF TruckFits
    <3> QED
      BY <1>3, <3>3, <3>4, <3>5 DEF TruckFits, StatusFits
  <2> QED
    BY <1>3, <2>2, <2>3
<1> HIDE DEF l
<1> QED
  BY <1>3, <1>4, <1>6, <1>7, <1>8, ChangedListFits DEF trucks

(* A list of trucks that is one list followed by another.                  *)
LEMMA JoinedDomain ==
  ASSUME NEW a \in Seq(Load), NEW b \in Seq(Load)
  PROVE  DOMAIN (a \o b) = 1..Len(a) + Len(b) /\ Len(a) \in Nat /\ Len(b) \in Nat
BY ConcatProperties, LenProperties

LEMMA JoinedListFits ==
  ASSUME NEW o \in Orders, NEW a \in Seq(Load), NEW b \in Seq(Load), loads'[o] = a \o b,
         \A i \in 1..Len(a) : \A l \in Load : l = a[i] => TruckFits(o, l)',
         \A i \in 1..Len(b) : \A l \in Load : l = b[i] => TruckFits(o, l)',
         status'[o] \notin {"Absent", "Dead", "Deleted"}
  PROVE  OrderFits(o)'
<1>1. /\ Len(a) \in Nat /\ Len(b) \in Nat
      /\ DOMAIN (a \o b) = 1..Len(a) + Len(b)
      /\ \A i \in 1..Len(a) : a[i] \in Load
      /\ \A i \in 1..Len(b) : b[i] \in Load
  BY ConcatProperties, LenProperties, ElementOfSeq
<1>2. ASSUME NEW i \in Trucks(o)' PROVE TruckFits(o, loads[o][i])'
  <2>1. i \in 1..Len(a) + Len(b)
    BY <1>1 DEF Trucks
  <2>2. CASE i \in 1..Len(a)
    <3>1. loads'[o][i] = a[i]
      BY <1>1, <2>2, ConcatProperties
    <3>2. PICK l \in Load : l = a[i] /\ TruckFits(o, l)'
      BY <1>1, <2>2
    <3> QED
      BY <3>1, <3>2, FitsNow
  <2>3. CASE i \notin 1..Len(a)
    <3> DEFINE j == i - Len(a)
    <3>1. j \in 1..Len(b)
      BY <1>1, <2>1, <2>3
    <3>2. loads'[o][i] = b[j]
      BY <1>1, <2>1, <2>3, ConcatProperties
    <3>3. PICK l \in Load : l = b[j] /\ TruckFits(o, l)'
      BY <1>1, <3>1
    <3> QED
      BY <3>2, <3>3, FitsNow
  <2> QED
    BY <2>2, <2>3
<1> QED
  BY <1>2 DEF OrderFits

LEMMA GenerateTicketsFits ==
  ASSUME TypeOK, Next, NEW o \in Orders, OrderFits(o), NEW again \in SUBSET Trucks(o),
         NEW fresh, fresh = <<>> \/ (fresh = <<fresh[1]>> /\ fresh[1] \in Nat), NEW place \in Nat,
         GenerateTickets(o, again, fresh, place)
  PROVE  OrderFits(o)'
<1>1. PICK a \in Seq(Load) : a = Known(o, again)
  BY KnownType
<1>2. PICK b \in Seq(Load) : b = IF fresh = <<>> THEN <<>> ELSE Fresh(o, fresh[1], place)
  <2>1. CASE fresh = <<>>
    BY <2>1, EmptyList
  <2>2. CASE fresh # <<>>
    <3>1. Fresh(o, fresh[1], place) \in Seq(Load)
      BY <2>2, FreshType
    <3> QED
      BY <2>2, <3>1
  <2> QED
    BY <2>1, <2>2
<1>3. loads'[o] = a \o b
  <2>1. loads' = [loads EXCEPT ![o] = Known(o, again) \o
                   (IF fresh = <<>> THEN <<>> ELSE Fresh(o, fresh[1], place))]
    BY ZenonT(60), GenerateTicketsType
  <2>2. loads' = [loads EXCEPT ![o] = a \o b]
    BY <1>1, <1>2, <2>1
  <2> QED
    BY <2>2 DEF TypeOK
<1>4. status'[o] = "Loading"
  BY DEF GenerateTickets, TypeOK
<1>5. ASSUME NEW i \in 1..Len(a), NEW l \in Load, l = a[i] PROVE TruckFits(o, l)'
  <2>1. i \in Trucks(o)
    BY <1>1, KnownType, TruckType
  <2>2. PICK k \in Load : k = loads[o][i] /\ TruckFits(o, k)
    BY <2>1, TruckType DEF OrderFits
  <2>3. l = IF i \in again THEN MadeLoaded(Ticketed(o, k)) ELSE k
    BY <1>1, <1>5, <2>1, <2>2 DEF Known
  <2>4. CASE i \notin again
    BY <1>4, <2>2, <2>3, <2>4, StillTruckFits
  <2>5. CASE i \in again
    <3>1. /\ l.index = k.index
          /\ l.ticket = IF k.ticket = NoTicket THEN <<o, k.index>> ELSE k.ticket
          /\ l.status = IF k.status = "pending" THEN "loaded" ELSE k.status
      BY <2>3, <2>5, TicketedTruck, LoadedTruck
    <3>2. l.ticket # NoTicket
      BY <3>1, NoTicketIsNone DEF Load
    <3>3. TicketNames(o, k)'
      BY <2>2, StillNamed DEF TruckFits
    <3> QED
      BY <1>4, <2>2, <3>1, <3>2, <3>3 DEF TruckFits, TicketNames, StatusFits
  <2> QED
    BY <2>4, <2>5
<1>6. ASSUME NEW i \in 1..Len(b), NEW l \in Load, l = b[i] PROVE TruckFits(o, l)'
  <2>1. fresh # <<>>
    BY <1>2
  <2>2. l = NewTruck(o, fresh[1], "loaded", LastIndex(o) + place)
    BY <1>2, <1>6, <2>1 DEF Fresh
  <2>3. l.ticket = <<o, LastIndex(o) + place>> /\ l.index = LastIndex(o) + place /\ l.status = "loaded"
    BY <2>2 DEF NewTruck
  <2>4. l.ticket # NoTicket
    BY <2>3, LastIndexType, NoTicketIsNone
  <2> QED
    BY <2>3, <2>4 DEF TruckFits, TicketNames, StatusFits
<1> QED
  BY <1>3, <1>4, <1>5, <1>6, JoinedListFits

LEMMA GateInUndeclaredFits ==
  ASSUME TypeOK, Next, NEW o \in Orders, OrderFits(o), NEW q \in Nat, GateInUndeclared(o, q)
  PROVE  OrderFits(o)'
<1>1. PICK a \in Seq(Load) : a = loads[o]
  BY TruckType
<1>2. PICK k \in Load : k = [qty |-> q, status |-> "gated_in", ticket |-> NoTicket, index |-> Len(loads[o]) + 1]
  <2>1. Len(loads[o]) + 1 \in Nat
    BY TruckType
  <2>2. [qty |-> q, status |-> "gated_in", ticket |-> NoTicket, index |-> Len(loads[o]) + 1] \in Load
    BY <2>1 DEF Load, LoadStatus
  <2> QED
    BY <2>2
<1>3. <<k>> \in Seq(Load) /\ Len(<<k>>) = 1 /\ <<k>>[1] = k
  OBVIOUS
<1>4. Append(a, k) = a \o <<k>>
  BY AppendIsConcat
<1>5. loads'[o] = a \o <<k>>
  BY <1>1, <1>2, <1>4 DEF GateInUndeclared, TypeOK
<1>6. status'[o] = "Loading"
  BY DEF GateInUndeclared, TypeOK
<1>7. ASSUME NEW i \in 1..Len(a), NEW l \in Load, l = a[i] PROVE TruckFits(o, l)'
  <2>1. i \in Trucks(o) /\ l = loads[o][i]
    BY <1>1, <1>7, TruckType
  <2> QED
    BY <1>6, <2>1, OthersFit
<1>8. ASSUME NEW i \in 1..Len(<<k>>), NEW l \in Load, l = <<k>>[i] PROVE TruckFits(o, l)'
  <2>1. l = k
    BY <1>3, <1>8
  <2>2. l.ticket = NoTicket /\ l.status = "gated_in"
    BY <1>2, <2>1
  <2> QED
    BY <1>6, <2>2 DEF TruckFits, TicketNames, StatusFits
<1> QED
  BY <1>3, <1>5, <1>6, <1>7, <1>8, JoinedListFits

(* The target stays Loading with a truck inside, and open or Completed     *)
(* with a truck that left; the source's tickets name an order gone for     *)
(* good, and none of them names the target, which is not.                  *)
LEMMA MergeOrdersFits ==
  ASSUME TypeOK, Next, NEW target \in Orders, NEW source \in Orders,
         OrderFits(target), OrderFits(source), MergeOrders(target, source)
  PROVE  OrderFits(target)' /\ OrderFits(source)'
<1> DEFINE s1 == status[target]
           s2 == status[source]
           st == CombinedStatus(s1, s2)
<1>1. /\ target # source /\ Lives(target) /\ Lives(source)
      /\ loads' = [loads EXCEPT ![target] = @ \o Renumbered(source, LastIndex(target)), ![source] = <<>>]
      /\ merged' = merged \cup {target, source}
  BY DEF MergeOrders
<1>2. status'[source] = "Dead" /\ (status'[target] = st \/ (st = "Pending" /\ status'[target] = "Released"))
  BY <1>1 DEF MergeOrders, TypeOK
<1>3. /\ status'[target] \notin {"Absent", "Dead", "Deleted"}
      /\ (s1 = "Loading" \/ s2 = "Loading") => status'[target] = "Loading"
      /\ (s1 \in {"Loading", "Completed"} \/ s2 \in {"Loading", "Completed"})
           => status'[target] \in {"Loading", "Completed"}
  BY <1>2 DEF CombinedStatus
<1>4. OrderFits(source)'
  BY <1>1, EmptiedListFits DEF TypeOK
<1>5. PICK a \in Seq(Load) : a = loads[target]
  BY TruckType
<1>6. PICK b \in Seq(Load) : b = Renumbered(source, LastIndex(target))
  BY LastIndexType, RenumberedType
<1>7. loads'[target] = a \o b
  BY <1>1, <1>5, <1>6 DEF TypeOK
<1>8. ASSUME NEW i \in 1..Len(a), NEW l \in Load, l = a[i] PROVE TruckFits(target, l)'
  <2>1. i \in Trucks(target) /\ l = loads[target][i]
    BY <1>5, <1>8, TruckType
  <2>2. TruckFits(target, l)
    BY <2>1 DEF OrderFits
  <2>3. TicketNames(target, l)'
    BY <2>2, StillNamed DEF TruckFits
  <2>4. StatusFits(target, l)'
    BY <1>3, <2>2 DEF TruckFits, StatusFits
  <2> QED
    BY <2>3, <2>4 DEF TruckFits
<1>9. ASSUME NEW i \in 1..Len(b), NEW l \in Load, l = b[i] PROVE TruckFits(target, l)'
  <2>1. i \in Trucks(source)
    BY <1>6, LastIndexType, RenumberedType, TruckType
  <2>2. PICK k \in Load : k = loads[source][i] /\ TruckFits(source, k)
    BY <2>1, TruckType DEF OrderFits
  <2>3. l = [k EXCEPT !.index = LastIndex(target) + i]
    BY <1>6, <1>9, <2>1, <2>2 DEF Renumbered
  <2>4. l.ticket = k.ticket /\ l.status = k.status
    BY <2>3 DEF Load
  <2>5. StatusFits(target, l)'
    BY <1>3, <2>2, <2>4 DEF TruckFits, StatusFits
  <2>6. ASSUME k.ticket # NoTicket PROVE k.ticket[1] # target /\ Gone(k.ticket[1])'
    <3>1. k.ticket[1] \in Orders
      BY <2>6 DEF Load, Ticket
    <3>2. CASE k.ticket[1] = source
      BY <1>1, <1>2, <3>2 DEF Gone
    <3>3. CASE k.ticket[1] # source
      <4>1. Gone(k.ticket[1])
        BY <2>2, <2>6, <3>3 DEF TruckFits, TicketNames
      <4>2. k.ticket[1] # target
        BY <1>1, <4>1 DEF Gone, Lives
      <4> QED
        BY <3>1, <4>1, <4>2, GoneStays
    <3> QED
      BY <3>2, <3>3
  <2>7. TicketNames(target, l)'
    BY <2>4, <2>6 DEF TicketNames
  <2> QED
    BY <2>5, <2>7 DEF TruckFits
<1>10. OrderFits(target)'
  <2> HIDE DEF st
  <2> QED
    BY <1>3, <1>7, <1>8, <1>9, JoinedListFits
<1> QED
  BY <1>4, <1>10

LEMMA InitFits == Init => LoadInv
BY DEF Init, LoadInv, OrderFits, Trucks

LEMMA StepFits == TypeOK /\ LoadInv /\ [Next]_vars => LoadInv'
<1> SUFFICES ASSUME TypeOK, LoadInv, [Next]_vars PROVE LoadInv'
  OBVIOUS
<1>0. CASE UNCHANGED vars
  BY <1>0 DEF vars, LoadInv, OrderFits, TruckFits, TicketNames, StatusFits, Trucks, Gone
<1> SUFFICES ASSUME Next PROVE LoadInv'
  BY <1>0
<1> USE LoadingAssumption
<1>1. ASSUME NEW o \in Orders, OrderFits(o)',
             \A x \in Orders \ {o} : status'[x] = status[x] /\ loads'[x] = loads[x]
      PROVE  LoadInv'
  BY <1>1, OneOrderFits
<1>2. ASSUME NEW o \in Orders, loads' = loads,
             \A x \in Orders \ {o} : status'[x] = status[x],
             \/ status'[o] = status[o]
             \/ status[o] \in {"Pending", "Released"} /\ status'[o] \notin {"Absent", "Dead", "Deleted"}
      PROVE  LoadInv'
  <2>1. OrderFits(o)'
    BY <1>2, KeptListFits DEF LoadInv
  <2> QED
    BY <1>1, <1>2, <2>1
<1>3. ASSUME NEW o \in Orders, NEW q \in Quantities, NEW unpriced \in BOOLEAN,
             NEW split \in Splits(q) \cup {<<>>}, PlaceOrder(o, q, split, unpriced)
      PROVE  LoadInv'
  <2>1. split \in Lists \cup {<<>>}
    BY DEF Splits
  <2>2. /\ loads' = [loads EXCEPT ![o] = Declared(split)]
        /\ \E st \in {"Released", "Pending"} : status' = [status EXCEPT ![o] = st]
    BY <1>3 DEF PlaceOrder
  <2>3. OrderFits(o)'
    BY <2>1, <2>2, DeclaredListFits DEF TypeOK
  <2> QED
    BY <1>1, <2>2, <2>3 DEF TypeOK
<1>4. ASSUME NEW o \in Orders, NEW q \in Payments, NEW st \in {status[o], "Released"}, MoneyMoves(o, q, st)
      PROVE  LoadInv'
  BY <1>2, <1>4 DEF MoneyMoves, TypeOK
<1>5. ASSUME NEW o \in Orders, NEW q \in Truckloads, AuthoriseCreditRelease(o, q) PROVE LoadInv'
  BY <1>2, <1>5 DEF AuthoriseCreditRelease, TypeOK
<1>6. ASSUME NEW o \in Orders, RevokeCreditRelease(o) \/ BeginRelease(o) \/ RefuseRelease(o)
      PROVE  LoadInv'
  BY <1>2, <1>6 DEF RevokeCreditRelease, BeginRelease, RefuseRelease
<1>7. ASSUME NEW o \in Orders, EndOrder(o) PROVE LoadInv'
  <2>1. OrderFits(o)'
    BY <1>7, EmptiedListFits DEF EndOrder, TrucksDropped, TypeOK
  <2> QED
    BY <1>1, <1>7, <2>1 DEF EndOrder, TrucksDropped, TypeOK
<1>8. ASSUME NEW o \in Orders, DeleteOrder(o) PROVE LoadInv'
  <2>1. OrderFits(o)'
    BY <1>8, EmptiedListFits DEF DeleteOrder, TypeOK
  <2> QED
    BY <1>1, <1>8, <2>1 DEF DeleteOrder, TypeOK
<1>9. ASSUME NEW o \in Orders, NEW q \in Quantities, UpdateQuantity(o, q) PROVE LoadInv'
  BY <1>2, <1>9 DEF UpdateQuantity
<1>10. ASSUME NEW o \in Orders, NEW split \in Splits(qty[o]) \cup {<<>>}, UpdatePickupTrucks(o, split)
       PROVE  LoadInv'
  <2>1. split \in Lists \cup {<<>>}
    BY DEF Splits
  <2>2. OrderFits(o)'
    BY <1>10, <2>1, DeclaredListFits DEF UpdatePickupTrucks, TypeOK
  <2> QED
    BY <1>1, <1>10, <2>2 DEF UpdatePickupTrucks, TypeOK
<1>11. ASSUME NEW o \in Orders, NEW split \in (IF o \in Pickup THEN {<<>>} ELSE Splits(releasing[o])),
              ReleaseOrder(o, split)
       PROVE  LoadInv'
  <2>1. split \in Lists \cup {<<>>}
    BY DEF Splits
  <2>2. /\ status[o] \in {"Pending", "Released"}
        /\ status' = [status EXCEPT ![o] = "Released"]
        /\ loads' = [loads EXCEPT ![o] = IF @ = <<>> THEN Declared(split) ELSE @]
    BY <1>11 DEF ReleaseOrder, MayRelease
  <2>3. CASE loads[o] = <<>>
    <3>1. OrderFits(o)'
      BY <2>1, <2>2, <2>3, DeclaredListFits DEF TypeOK
    <3> QED
      BY <1>1, <2>2, <3>1 DEF TypeOK
  <2>4. CASE loads[o] # <<>>
    <3>1. loads' = loads
      BY <2>2, <2>4 DEF TypeOK
    <3> QED
      BY <1>2, <2>2, <3>1 DEF TypeOK
  <2> QED
    BY <2>3, <2>4
<1>12. ASSUME NEW o \in Orders, NEW again \in SUBSET Trucks(o), GenerateTickets(o, again, <<>>, 0)
       PROVE  LoadInv'
  <2>1. 0 \in Nat
    OBVIOUS
  <2>2. OrderFits(o)'
    BY <1>12, <2>1, GenerateTicketsFits DEF LoadInv
  <2> QED
    BY <1>1, <1>12, <2>2 DEF GenerateTickets, TypeOK
<1>13. ASSUME NEW o \in Orders, NEW again \in SUBSET Trucks(o), NEW q \in Truckloads,
              NEW place \in 1..Cardinality(again) + 1, GenerateTickets(o, again, <<q>>, place)
       PROVE  LoadInv'
  <2>1. place \in Nat
    BY PlaceType
  <2>2. q \in Nat /\ <<q>> = <<<<q>>[1]>> /\ <<q>>[1] = q
    OBVIOUS
  <2>3. OrderFits(o)'
    BY <1>13, <2>1, <2>2, GenerateTicketsFits DEF LoadInv
  <2> QED
    BY <1>1, <1>13, <2>3 DEF GenerateTickets, TypeOK
<1>14. ASSUME NEW o \in Orders, NEW i \in Trucks(o), MarkTruckLoaded(o, i) PROVE LoadInv'
  <2>1. OrderFits(o)'
    BY <1>14, MarkTruckLoadedFits DEF LoadInv
  <2> QED
    BY <1>1, <1>14, <2>1 DEF MarkTruckLoaded, TypeOK
<1>15. ASSUME NEW o \in Orders, NEW i \in Trucks(o), GateInTruck(o, i) PROVE LoadInv'
  <2>1. OrderFits(o)'
    BY <1>15, GateInTruckFits DEF LoadInv
  <2> QED
    BY <1>1, <1>15, <2>1 DEF GateInTruck, TypeOK
<1>16. ASSUME NEW o \in Orders, NEW i \in Trucks(o), GateOutTruck(o, i) PROVE LoadInv'
  <2>1. OrderFits(o)'
    BY <1>16, GateOutTruckFits DEF LoadInv
  <2> QED
    BY <1>1, <1>16, <2>1 DEF GateOutTruck, TypeOK
<1>17. ASSUME NEW o \in Orders, NEW i \in Trucks(o), NEW q \in Truckloads, UpdateTruckLoad(o, i, q)
       PROVE  LoadInv'
  <2>1. q \in Nat
    OBVIOUS
  <2>2. OrderFits(o)'
    BY <1>17, <2>1, UpdateTruckLoadFits DEF LoadInv
  <2> QED
    BY <1>1, <1>17, <2>2 DEF UpdateTruckLoad, TypeOK
<1>18. ASSUME NEW o \in Orders, NEW q \in Truckloads, GateInUndeclared(o, q) PROVE LoadInv'
  <2>1. q \in Nat
    OBVIOUS
  <2>2. OrderFits(o)'
    BY <1>18, <2>1, GateInUndeclaredFits DEF LoadInv
  <2> QED
    BY <1>1, <1>18, <2>2 DEF GateInUndeclared, TypeOK
<1>19. ASSUME NEW target \in Orders, NEW source \in Orders, MergeOrders(target, source) PROVE LoadInv'
  <2>1. OrderFits(target)' /\ OrderFits(source)'
    BY <1>19, MergeOrdersFits DEF LoadInv
  <2>2. ASSUME NEW x \in Orders \ {target, source} PROVE OrderFits(x)'
    <3>1. status'[x] = status[x] /\ loads'[x] = loads[x]
      BY <1>19 DEF MergeOrders, TypeOK
    <3> QED
      BY <3>1, KeptListFits DEF LoadInv
  <2> QED
    BY <2>1, <2>2 DEF LoadInv
<1> QED
  BY <1>3, <1>4, <1>5, <1>6, <1>7, <1>8, <1>9, <1>10, <1>11, <1>12, <1>13, <1>14,
     <1>15, <1>16, <1>17, <1>18, <1>19 DEF Next

LEMMA AllFit == Spec => [](TypeOK /\ LoadInv)
<1>1. Init => TypeOK /\ LoadInv
  BY InitType, InitFits
<1>2. TypeOK /\ LoadInv /\ [Next]_vars => (TypeOK /\ LoadInv)'
  BY StepType, StepFits
<1> QED
  BY <1>1, <1>2, PTL DEF Spec

(* A truck inside the depot keeps its order Loading, however many orders   *)
(* and trucks there are (gateInTruck, gateOutTruck, mergeOrders).          *)
THEOREM InsideKeepsLoading == Spec => []InsideIsLoading
<1>1. LoadInv => InsideIsLoading
  BY DEF LoadInv, OrderFits, TruckFits, StatusFits, InsideIsLoading
<1> QED
  BY <1>1, AllFit, PTL

(* No truck is loaded or gone without a ticket, and what is gone belongs   *)
(* to an order that is Loading or Completed.                               *)
THEOREM NothingLeavesUnticketed == Spec => []OutIsTicketed
<1>1. LoadInv => OutIsTicketed
  BY DEF LoadInv, OrderFits, TruckFits, StatusFits, OutIsTicketed
<1> QED
  BY <1>1, AllFit, PTL

(* Cancelling, expiring, deleting and merging away leave no truck behind.  *)
THEOREM EndsDropTrucks == Spec => []DeadHasNoTrucks
<1>1. LoadInv => DeadHasNoTrucks
  BY DEF LoadInv, OrderFits, DeadHasNoTrucks
<1> QED
  BY <1>1, AllFit, PTL

(* The number a new truck gets on a living order has never been printed on *)
(* a ticket, wherever merges have taken the tickets since.                 *)
THEOREM NumbersNeverCollide == Spec => []NewNumbersAreFree
<1>1. TypeOK /\ LoadInv => NewNumbersAreFree
  <2> SUFFICES ASSUME TypeOK, LoadInv, NEW o \in Orders, Lives(o), NEW p \in Orders, NEW i \in Trucks(p),
                      loads[p][i].ticket # NoTicket, loads[p][i].ticket[1] = o
               PROVE  loads[p][i].ticket[2] <= LastIndex(o)
    BY DEF NewNumbersAreFree
  <2>1. TicketNames(p, loads[p][i])
    BY DEF LoadInv, OrderFits, TruckFits
  <2>2. ~Gone(o)
    BY DEF Gone, Lives
  <2>3. p = o /\ loads[p][i].ticket[2] = loads[p][i].index
    BY <2>1, <2>2 DEF TicketNames
  <2> QED
    BY <2>3, LastIndexType
<1> QED
  BY <1>1, AllFit, PTL

-----------------------------------------------------------------------------
(* The stock movement of an order.                                         *)

LEMMA ReleasableWithinOrder ==
  ASSUME TypeOK, NEW o \in Orders
  PROVE  Releasable(o) <= qty[o]
<1>1. qty[o] \in Nat /\ paid[o] \in Nat /\ credit[o] \in Nat
  BY DEF TypeOK
<1> QED
  BY <1>1 DEF Releasable, Smaller

LEMMA GenerateTicketsMoves ==
  ASSUME TypeOK, MovementWithinOrder, NEW o \in Orders, NEW again, NEW fresh, NEW place,
         GenerateTickets(o, again, fresh, place), moved' \in [Orders -> Nat]
  PROVE  MovementWithinOrder'
<1> DEFINE total == TicketTotal(o, again, IF fresh = <<>> THEN 0 ELSE fresh[1])
<1>1. /\ total <= Releasable(o)
      /\ moved' = [moved EXCEPT ![o] = total]
      /\ status' = [status EXCEPT ![o] = "Loading"]
      /\ qty' = qty
  BY DEF GenerateTickets, WithinCeiling
<1> HIDE DEF total
<1>2. moved'[o] = total /\ moved'[o] \in Nat
  BY <1>1 DEF TypeOK
<1>3. total <= qty[o]
  <2>1. Releasable(o) \in Int /\ qty[o] \in Int /\ total \in Int
    BY <1>2 DEF TypeOK, Releasable, Smaller
  <2> QED
    BY <1>1, <2>1, ReleasableWithinOrder
<1> QED
  BY <1>1, <1>2, <1>3 DEF MovementWithinOrder, TypeOK

LEMMA MergeOrdersMoves ==
  ASSUME TypeOK, MovementWithinOrder, NEW target \in Orders, NEW source \in Orders,
         MergeOrders(target, source)
  PROVE  MovementWithinOrder'
<1> DEFINE s1 == status[target]
           s2 == status[source]
           st == CombinedStatus(s1, s2)
<1>1. /\ target # source
      /\ qty' = [qty EXCEPT ![target] = qty[target] + qty[source]]
      /\ moved' = [moved EXCEPT ![target] = moved[target] + moved[source], ![source] = 0]
  BY DEF MergeOrders
<1>2. /\ status'[source] = "Dead"
      /\ status'[target] = st \/ (st = "Pending" /\ status'[target] = "Released")
      /\ \A x \in Orders \ {target, source} : status'[x] = status[x]
  BY <1>1 DEF MergeOrders, TypeOK
<1>3. (s1 \in {"Loading", "Completed"} \/ s2 \in {"Loading", "Completed"})
        => status'[target] \in {"Loading", "Completed"}
  BY <1>2 DEF CombinedStatus
<1>4. /\ moved[target] \in Nat /\ moved[source] \in Nat /\ qty[target] \in Nat /\ qty[source] \in Nat
      /\ moved[target] <= qty[target] /\ moved[source] <= qty[source]
      /\ moved[target] > 0 => s1 \in {"Loading", "Completed"}
      /\ moved[source] > 0 => s2 \in {"Loading", "Completed"}
  BY DEF TypeOK, MovementWithinOrder
<1>5. /\ moved'[target] = moved[target] + moved[source] /\ moved'[source] = 0
      /\ qty'[target] = qty[target] + qty[source] /\ qty'[source] = qty[source]
      /\ \A x \in Orders \ {target, source} : moved'[x] = moved[x] /\ qty'[x] = qty[x]
  BY <1>1 DEF TypeOK
<1>6. moved'[target] <= qty'[target] /\ moved'[source] <= qty'[source]
  BY <1>4, <1>5
<1>7. moved'[target] > 0 => status'[target] \in {"Loading", "Completed"}
  <2>1. moved'[target] > 0 => moved[target] > 0 \/ moved[source] > 0
    BY <1>4, <1>5
  <2> QED
    BY <1>3, <1>4, <2>1
<1>8. ~(moved'[source] > 0)
  BY <1>5
<1> HIDE DEF st
<1> QED
  BY <1>2, <1>5, <1>6, <1>7, <1>8 DEF MovementWithinOrder

LEMMA StepMoves == TypeOK /\ MovementWithinOrder /\ [Next]_vars => MovementWithinOrder'
<1> SUFFICES ASSUME TypeOK, MovementWithinOrder, [Next]_vars PROVE MovementWithinOrder'
  OBVIOUS
<1> USE LoadingAssumption
<1>0. TypeOK'
  BY StepType
<1>1. ASSUME NEW o \in Orders, NEW q \in Quantities, NEW unpriced \in BOOLEAN,
             NEW split \in Splits(q) \cup {<<>>}, PlaceOrder(o, q, split, unpriced)
      PROVE  MovementWithinOrder'
  BY <1>1 DEF PlaceOrder, MovementWithinOrder, TypeOK
<1>2. ASSUME NEW o \in Orders, NEW q \in Payments, NEW st \in {status[o], "Released"}, MoneyMoves(o, q, st)
      PROVE  MovementWithinOrder'
  BY <1>2 DEF MoneyMoves, MovementWithinOrder, TypeOK
<1>3. ASSUME NEW o \in Orders, NEW q \in Truckloads, AuthoriseCreditRelease(o, q)
      PROVE  MovementWithinOrder'
  BY <1>3 DEF AuthoriseCreditRelease, MovementWithinOrder, TypeOK
<1>4. ASSUME NEW o \in Orders, RevokeCreditRelease(o) \/ BeginRelease(o) \/ RefuseRelease(o)
      PROVE  MovementWithinOrder'
  BY <1>4 DEF RevokeCreditRelease, BeginRelease, RefuseRelease, MovementWithinOrder, TypeOK
<1>5. ASSUME NEW o \in Orders, EndOrder(o)
      PROVE  MovementWithinOrder'
  BY <1>5 DEF EndOrder, MovementWithinOrder, TypeOK
<1>6. ASSUME NEW o \in Orders, DeleteOrder(o)
      PROVE  MovementWithinOrder'
  BY <1>6 DEF DeleteOrder, MovementWithinOrder, TypeOK
<1>7. ASSUME NEW o \in Orders, NEW q \in Quantities, UpdateQuantity(o, q)
      PROVE  MovementWithinOrder'
  BY <1>7 DEF UpdateQuantity, QuantityEditable, MovementWithinOrder, TypeOK
<1>8. ASSUME NEW o \in Orders, NEW split, UpdatePickupTrucks(o, split)
      PROVE  MovementWithinOrder'
  BY <1>8 DEF UpdatePickupTrucks, MovementWithinOrder, TypeOK
<1>9. ASSUME NEW o \in Orders, NEW split, ReleaseOrder(o, split)
      PROVE  MovementWithinOrder'
  BY <1>9 DEF ReleaseOrder, MayRelease, MovementWithinOrder, TypeOK
<1>10. ASSUME NEW o \in Orders, NEW again, NEW fresh, NEW place, GenerateTickets(o, again, fresh, place)
      PROVE  MovementWithinOrder'
  BY <1>10, <1>0, GenerateTicketsMoves DEF TypeOK
<1>11. ASSUME NEW o \in Orders, NEW i \in Trucks(o), MarkTruckLoaded(o, i)
      PROVE  MovementWithinOrder'
  BY <1>11 DEF MarkTruckLoaded, MovementWithinOrder, TypeOK
<1>12. ASSUME NEW o \in Orders, NEW i \in Trucks(o), GateInTruck(o, i)
      PROVE  MovementWithinOrder'
  BY <1>12 DEF GateInTruck, MovementWithinOrder, TypeOK
<1>13. ASSUME NEW o \in Orders, NEW i \in Trucks(o), GateOutTruck(o, i)
      PROVE  MovementWithinOrder'
  BY <1>13 DEF GateOutTruck, CompletesWith, MovementWithinOrder, TypeOK
<1>14. ASSUME NEW o \in Orders, NEW i \in Trucks(o), NEW q, UpdateTruckLoad(o, i, q)
      PROVE  MovementWithinOrder'
  BY <1>14 DEF UpdateTruckLoad, MovementWithinOrder, TypeOK
<1>15. ASSUME NEW o \in Orders, NEW q, GateInUndeclared(o, q)
      PROVE  MovementWithinOrder'
  BY <1>15 DEF GateInUndeclared, MovementWithinOrder, TypeOK
<1>16. ASSUME NEW target \in Orders, NEW source \in Orders, MergeOrders(target, source)
      PROVE  MovementWithinOrder'
  BY <1>16, MergeOrdersMoves
<1>17. CASE UNCHANGED vars
  BY <1>17 DEF vars, MovementWithinOrder
<1> QED
  BY <1>1, <1>2, <1>3, <1>4, <1>5, <1>6, <1>7, <1>8, <1>9, <1>10, <1>11, <1>12, <1>13, <1>14, <1>15, <1>16, <1>17 DEF Next

(* The stock movement of an order never exceeds what the order is for, and *)
(* an order nobody loads has none: releasing, editing, merging and ending  *)
(* an order all keep it so (generateOrderTickets' ceiling).                *)
THEOREM MovementNeverExceeds == Spec => []MovementWithinOrder
<1>1. Init => TypeOK /\ MovementWithinOrder
  BY InitType DEF Init, MovementWithinOrder
<1>2. TypeOK /\ MovementWithinOrder /\ [Next]_vars => (TypeOK /\ MovementWithinOrder)'
  BY StepType, StepMoves
<1> QED
  BY <1>1, <1>2, PTL DEF Spec

-----------------------------------------------------------------------------
(* A completed order has all its litres on trucks.                         *)

(* The litres of two lists, one after the other.                           *)
LEMMA JoinedLitres ==
  ASSUME NEW a \in Seq(Load), NEW b \in Seq(Load)
  PROVE  LitresOf(a \o b) = LitresOf(a) + LitresOf(b)
<1> DEFINE c == a \o b
           m == Len(a)
           n == Len(b)
           f == [i \in DOMAIN c |-> c[i].qty]
           fa == [i \in DOMAIN a |-> a[i].qty]
           fb == [i \in DOMAIN b |-> b[i].qty]
           g == [i \in 1..n |-> m + i]
           R == {g[i] : i \in 1..n}
<1>1. /\ m \in Nat /\ n \in Nat /\ DOMAIN a = 1..m /\ DOMAIN b = 1..n /\ DOMAIN c = 1..m + n
      /\ \A i \in 1..m : c[i] = a[i] /\ a[i] \in Load
      /\ \A i \in 1..n : c[m + i] = b[i] /\ b[i] \in Load
  <2>1. /\ m \in Nat /\ n \in Nat /\ DOMAIN a = 1..m /\ DOMAIN b = 1..n /\ DOMAIN c = 1..m + n
        /\ \A i \in 1..m : a[i] \in Load
        /\ \A i \in 1..n : b[i] \in Load
    BY ConcatProperties, LenProperties, ElementOfSeq
  <2>2. \A i \in 1..m + n : c[i] = IF i <= m THEN a[i] ELSE b[i - m]
    BY ConcatProperties
  <2>3. \A i \in 1..m : c[i] = a[i]
    <3> HIDE DEF c
    <3> QED
      BY <2>1, <2>2
  <2>4. \A i \in 1..n : c[m + i] = b[i]
    <3> TAKE i \in 1..n
    <3>1. m + i \in 1..m + n /\ ~(m + i <= m) /\ (m + i) - m = i
      BY <2>1
    <3> HIDE DEF c
    <3> QED
      BY <2>2, <3>1
  <2> QED
    BY <2>1, <2>3, <2>4
<1>2. \A i \in 1..m : f[i] = fa[i] /\ fa[i] \in Int
  BY <1>1 DEF Load
<1>3. \A i \in 1..n : g[i] = m + i /\ f[g[i]] = fb[i] /\ fb[i] \in Int /\ f[g[i]] \in Int
  <2> TAKE i \in 1..n
  <2>1. g[i] = m + i /\ m + i \in DOMAIN c
    BY <1>1
  <2>2. f[m + i] = c[m + i].qty
    BY <2>1
  <2> QED
    BY <1>1, <2>1, <2>2 DEF Load
<1>4. R = (m + 1)..(m + n)
  <2>1. ASSUME NEW x \in (m + 1)..(m + n) PROVE x \in R
    <3>1. x - m \in 1..n /\ x = m + (x - m)
      BY <1>1
    <3> QED
      BY <3>1
  <2>2. R \subseteq (m + 1)..(m + n)
    BY <1>1
  <2> QED
    BY <2>1, <2>2
<1>5. DOMAIN c = 1..m \cup R /\ 1..m \cap R = {}
  BY <1>1, <1>4
<1>6. IsFiniteSet(1..m) /\ IsFiniteSet(R) /\ IsFiniteSet(1..n)
  <2>1. IsFiniteSet(1..m) /\ IsFiniteSet(1..n)
    BY <1>1, FS_Interval
  <2>2. m + 1 \in Int /\ m + n \in Int
    BY <1>1
  <2>3. IsFiniteSet((m + 1)..(m + n))
    BY <2>2, FS_Interval
  <2> QED
    BY <1>4, <2>1, <2>3
<1>7. \A x \in R : f[x] \in Int
  BY <1>3
<1>8. \A i, j \in 1..n : g[i] = g[j] => i = j
  BY <1>1, <1>3
<1> HIDE DEF f, fa, fb, g, c, m, n
<1>9. SumFunctionOnSet(f, 1..m) = SumFunctionOnSet(fa, 1..m)
  BY <1>2, <1>6, SumSame
<1>10. SumFunctionOnSet(f, R) = SumFunctionOnSet(fb, 1..n)
  <2> DEFINE N == 1..n
  <2>1. /\ IsFiniteSet(N)
        /\ \A x, y \in N : g[x] = g[y] => x = y
        /\ \A x \in N : fb[x] \in Int /\ f[g[x]] = fb[x]
    BY <1>3, <1>6, <1>8
  <2>2. R = {g[i] : i \in N}
    OBVIOUS
  <2>3. SumFunctionOnSet(f, {g[i] : i \in N}) = SumFunctionOnSet(fb, N)
    <3> HIDE DEF N, R
    <3> QED
      BY <2>1, SumRenamed
  <2> HIDE DEF R
  <2> QED
    BY <2>2, <2>3
<1>11. SumFunctionOnSet(f, 1..m \cup R) = SumFunctionOnSet(f, 1..m) + SumFunctionOnSet(f, R)
  <2>1. \A x \in 1..m \cup R : f[x] \in Int
    BY <1>2, <1>7
  <2> HIDE DEF R
  <2> QED
    BY <1>5, <1>6, <2>1, SumUnion
<1>12. LitresOf(a) = SumFunctionOnSet(fa, 1..m) /\ LitresOf(b) = SumFunctionOnSet(fb, 1..n)
  BY <1>1 DEF LitresOf, LitresIn, fa, fb
<1>13. LitresOf(c) = SumFunctionOnSet(f, 1..m \cup R)
  <2>1. LitresOf(c) = SumFunctionOnSet(f, DOMAIN c)
    BY DEF LitresOf, LitresIn, f
  <2> QED
    BY <1>5, <2>1
<1> QED
  BY <1>9, <1>10, <1>11, <1>12, <1>13 DEF c

(* Renumbering a list leaves its litres.                                   *)
LEMMA RenumberedLitres ==
  ASSUME TypeOK, NEW o \in Orders, NEW base \in Nat
  PROVE  LitresOf(Renumbered(o, base)) = LitresOf(loads[o])
<1>1. DOMAIN Renumbered(o, base) = DOMAIN loads[o]
  BY DEF Renumbered, Trucks
<1>2. ASSUME NEW i \in Trucks(o) PROVE Renumbered(o, base)[i].qty = loads[o][i].qty
  BY TruckType DEF Renumbered, Load
<1>3. [i \in DOMAIN Renumbered(o, base) |-> Renumbered(o, base)[i].qty]
        = [i \in DOMAIN loads[o] |-> loads[o][i].qty]
  BY <1>1, <1>2 DEF Trucks
<1> QED
  BY <1>1, <1>3 DEF LitresOf, LitresIn

(* Only gate-out and merging can complete an order; what else touches a    *)
(* completed order finds no truck it may change.                           *)
LEMMA MergeOrdersCompletes ==
  ASSUME TypeOK, CompletedIsLoaded, NEW target \in Orders, NEW source \in Orders,
         MergeOrders(target, source)
  PROVE  CompletedIsLoaded'
<1>1. /\ target # source
      /\ qty' = [qty EXCEPT ![target] = qty[target] + qty[source]]
      /\ loads' = [loads EXCEPT ![target] = @ \o Renumbered(source, LastIndex(target)), ![source] = <<>>]
      /\ status'[source] = "Dead"
      /\ status'[target] = "Completed" => status[target] = "Completed" /\ status[source] = "Completed"
      /\ \A x \in Orders \ {target, source} : status'[x] = status[x]
  BY DEF MergeOrders, CombinedStatus, TypeOK
<1>2. ASSUME status'[target] = "Completed" PROVE AllOut(target)' /\ LitresOf(loads[target])' >= qty'[target]
  <2> DEFINE a == loads[target]
             b == Renumbered(source, LastIndex(target))
  <2>1. /\ AllOut(target) /\ LitresOf(loads[target]) >= qty[target]
        /\ AllOut(source) /\ LitresOf(loads[source]) >= qty[source]
    BY <1>1, <1>2 DEF CompletedIsLoaded
  <2>2. a \in Seq(Load) /\ b \in Seq(Load) /\ Len(b) = Len(loads[source])
    BY TruckType, LastIndexType, RenumberedType
  <2>3. loads'[target] = a \o b /\ qty'[target] = qty[target] + qty[source]
    BY <1>1 DEF TypeOK
  <2>4. \A i \in 1..Len(a) : a[i].status = "gated_out"
    BY <2>1, TruckType DEF AllOut
  <2>5. ASSUME NEW i \in 1..Len(b) PROVE b[i].status = "gated_out"
    <3>1. i \in Trucks(source) /\ loads[source][i] \in Load /\ loads[source][i].status = "gated_out"
      BY <2>1, <2>2, TruckType DEF AllOut
    <3>2. b[i] = [loads[source][i] EXCEPT !.index = LastIndex(target) + i]
      BY <3>1 DEF Renumbered
    <3> HIDE DEF b
    <3> QED
      BY <3>1, <3>2 DEF Load
  <2>6. AllOut(target)'
    <3> HIDE DEF a, b
    <3>1. DOMAIN (a \o b) = 1..Len(a) + Len(b) /\ Len(a) \in Nat /\ Len(b) \in Nat
      BY <2>2, JoinedDomain
    <3>2. ASSUME NEW i \in 1..Len(a) + Len(b) PROVE (a \o b)[i].status = "gated_out"
      <4>1. CASE i <= Len(a)
        BY <2>2, <2>4, <3>1, <4>1, ConcatProperties
      <4>2. CASE ~(i <= Len(a))
        <5>1. i - Len(a) \in 1..Len(b) /\ (a \o b)[i] = b[i - Len(a)]
          BY <2>2, <3>1, <4>2, ConcatProperties
        <5> QED
          BY <2>5, <5>1
      <4> QED
        BY <4>1, <4>2
    <3> QED
      BY <2>3, <3>1, <3>2 DEF AllOut, Trucks
  <2>7. LitresOf(loads'[target]) = LitresOf(loads[target]) + LitresOf(loads[source])
    <3>1. LitresOf(a \o b) = LitresOf(a) + LitresOf(b)
      <4> HIDE DEF a, b
      <4> QED
        BY <2>2, JoinedLitres
    <3>2. LitresOf(b) = LitresOf(loads[source])
      BY LastIndexType, RenumberedLitres
    <3> QED
      BY <2>3, <3>1, <3>2
  <2>8. /\ LitresOf(loads[target]) \in Nat /\ LitresOf(loads[source]) \in Nat
        /\ qty[target] \in Nat /\ qty[source] \in Nat
    BY TruckType, LitresType DEF LitresOf, Trucks, TypeOK
  <2>9. LitresOf(loads[target])' >= qty'[target]
    BY <2>1, <2>3, <2>7, <2>8
  <2> QED
    BY <2>6, <2>9
<1>3. ASSUME NEW x \in Orders \ {target, source}, status'[x] = "Completed"
      PROVE  AllOut(x)' /\ LitresOf(loads[x])' >= qty'[x]
  <2>1. /\ status[x] = "Completed"
        /\ loads'[x] = loads[x] /\ qty'[x] = qty[x]
    BY <1>1, <1>3 DEF TypeOK
  <2> QED
    BY <2>1 DEF CompletedIsLoaded, AllOut, Trucks
<1> QED
  BY <1>1, <1>2, <1>3 DEF CompletedIsLoaded

(* An order the step leaves alone, or that is not complete after it.       *)
LEMMA StillComplete ==
  ASSUME TypeOK, CompletedIsLoaded, NEW o \in Orders,
         \A x \in Orders \ {o} : status'[x] = status[x] /\ loads'[x] = loads[x] /\ qty'[x] = qty[x],
         \/ status'[o] # "Completed"
         \/ status'[o] = status[o] /\ loads'[o] = loads[o] /\ qty'[o] = qty[o]
         \/ AllOut(o)' /\ LitresOf(loads[o])' >= qty'[o]
  PROVE  CompletedIsLoaded'
<1>1. ASSUME NEW x \in Orders, status'[x] = "Completed"
      PROVE  AllOut(x)' /\ LitresOf(loads[x])' >= qty'[x]
  <2>1. CASE status'[x] = status[x] /\ loads'[x] = loads[x] /\ qty'[x] = qty[x]
    BY <1>1, <2>1 DEF CompletedIsLoaded, AllOut, Trucks
  <2>2. CASE ~(status'[x] = status[x] /\ loads'[x] = loads[x] /\ qty'[x] = qty[x])
    BY <1>1, <2>2
  <2> QED
    BY <2>1, <2>2
<1> QED
  BY <1>1 DEF CompletedIsLoaded

LEMMA GateOutTruckCompletes ==
  ASSUME TypeOK, CompletedIsLoaded, NEW o \in Orders, NEW i \in Trucks(o), GateOutTruck(o, i)
  PROVE  CompletedIsLoaded'
<1> DEFINE trucks == [loads[o] EXCEPT ![i] = [TicketAtExit(o, @) EXCEPT !.status = "gated_out"]]
<1>1. /\ loads[o][i].status = "gated_in"
      /\ loads' = [loads EXCEPT ![o] = trucks]
      /\ status' = [status EXCEPT ![o] = IF CompletesWith(o, trucks) THEN "Completed" ELSE @]
      /\ qty' = qty
  BY DEF GateOutTruck
<1> HIDE DEF trucks
<1>2. status[o] # "Completed"
  BY <1>1 DEF CompletedIsLoaded, AllOut
<1>3. status'[o] = "Completed" => AllOut(o)' /\ LitresOf(loads[o])' >= qty'[o]
  <2> SUFFICES ASSUME status'[o] = "Completed" PROVE AllOut(o)' /\ LitresOf(loads[o])' >= qty'[o]
    OBVIOUS
  <2>1. CompletesWith(o, trucks)
    BY <1>1, <1>2 DEF TypeOK
  <2>2. loads'[o] = trucks
    BY <1>1 DEF TypeOK
  <2> QED
    BY <1>1, <2>1, <2>2 DEF CompletesWith, AllOut, Trucks
<1>4. \A x \in Orders \ {o} : status'[x] = status[x] /\ loads'[x] = loads[x] /\ qty'[x] = qty[x]
  BY <1>1 DEF TypeOK
<1> QED
  BY <1>3, <1>4, StillComplete

LEMMA StepCompletes == TypeOK /\ CompletedIsLoaded /\ [Next]_vars => CompletedIsLoaded'
<1> SUFFICES ASSUME TypeOK, CompletedIsLoaded, [Next]_vars PROVE CompletedIsLoaded'
  OBVIOUS
<1> USE LoadingAssumption
<1>1. ASSUME NEW o \in Orders, NEW q \in Quantities, NEW unpriced \in BOOLEAN, NEW split,
             PlaceOrder(o, q, split, unpriced)
      PROVE  CompletedIsLoaded'
  BY <1>1, StillComplete DEF PlaceOrder, TypeOK
<1>2. ASSUME NEW o \in Orders, NEW q \in Payments, NEW st \in {status[o], "Released"}, MoneyMoves(o, q, st)
      PROVE  CompletedIsLoaded'
  BY <1>2, StillComplete DEF MoneyMoves, TypeOK
<1>3. ASSUME NEW o \in Orders, NEW q \in Truckloads, AuthoriseCreditRelease(o, q)
      PROVE  CompletedIsLoaded'
  BY <1>3, StillComplete DEF AuthoriseCreditRelease, TypeOK
<1>4. ASSUME NEW o \in Orders, RevokeCreditRelease(o) \/ BeginRelease(o) \/ RefuseRelease(o)
      PROVE  CompletedIsLoaded'
  BY <1>4, StillComplete DEF RevokeCreditRelease, BeginRelease, RefuseRelease, TypeOK
<1>5. ASSUME NEW o \in Orders, EndOrder(o)
      PROVE  CompletedIsLoaded'
  BY <1>5, StillComplete DEF EndOrder, TrucksDropped, TypeOK
<1>6. ASSUME NEW o \in Orders, DeleteOrder(o)
      PROVE  CompletedIsLoaded'
  BY <1>6, StillComplete DEF DeleteOrder, TypeOK
<1>7. ASSUME NEW o \in Orders, NEW q \in Quantities, UpdateQuantity(o, q)
      PROVE  CompletedIsLoaded'
  BY <1>7, StillComplete DEF UpdateQuantity, QuantityEditable, TypeOK
<1>8. ASSUME NEW o \in Orders, NEW split, UpdatePickupTrucks(o, split)
      PROVE  CompletedIsLoaded'
  BY <1>8, StillComplete DEF UpdatePickupTrucks, TypeOK
<1>9. ASSUME NEW o \in Orders, NEW split, ReleaseOrder(o, split)
      PROVE  CompletedIsLoaded'
  BY <1>9, StillComplete DEF ReleaseOrder, MayRelease, TypeOK
<1>10. ASSUME NEW o \in Orders, NEW again, NEW fresh, NEW place, GenerateTickets(o, again, fresh, place)
      PROVE  CompletedIsLoaded'
  BY <1>10, StillComplete DEF GenerateTickets, TypeOK
<1>11. ASSUME NEW o \in Orders, NEW i \in Trucks(o), MarkTruckLoaded(o, i)
      PROVE  CompletedIsLoaded'
  BY <1>11, StillComplete DEF MarkTruckLoaded, CompletedIsLoaded, AllOut, TypeOK
<1>12. ASSUME NEW o \in Orders, NEW i \in Trucks(o), GateInTruck(o, i)
      PROVE  CompletedIsLoaded'
  BY <1>12, StillComplete DEF GateInTruck, TypeOK
<1>13. ASSUME NEW o \in Orders, NEW i \in Trucks(o), GateOutTruck(o, i)
      PROVE  CompletedIsLoaded'
  BY <1>13, GateOutTruckCompletes
<1>14. ASSUME NEW o \in Orders, NEW i \in Trucks(o), NEW q, UpdateTruckLoad(o, i, q)
      PROVE  CompletedIsLoaded'
  BY <1>14, StillComplete DEF UpdateTruckLoad, CompletedIsLoaded, AllOut, TypeOK
<1>15. ASSUME NEW o \in Orders, NEW q, GateInUndeclared(o, q)
      PROVE  CompletedIsLoaded'
  BY <1>15, StillComplete DEF GateInUndeclared, TypeOK
<1>16. ASSUME NEW target \in Orders, NEW source \in Orders, MergeOrders(target, source)
      PROVE  CompletedIsLoaded'
  BY <1>16, MergeOrdersCompletes
<1>17. CASE UNCHANGED vars
  BY <1>17 DEF vars, CompletedIsLoaded, AllOut, Trucks
<1> QED
  BY <1>1, <1>2, <1>3, <1>4, <1>5, <1>6, <1>7, <1>8, <1>9, <1>10, <1>11, <1>12, <1>13, <1>14, <1>15, <1>16, <1>17 DEF Next

(* A completed order has every truck out and all of its litres on them,    *)
(* also one that a merge put together from completed orders.               *)
THEOREM CompletedHasAllLitres == Spec => []CompletedIsLoaded
<1>1. Init => TypeOK /\ CompletedIsLoaded
  BY InitType DEF Init, CompletedIsLoaded
<1>2. TypeOK /\ CompletedIsLoaded /\ [Next]_vars => (TypeOK /\ CompletedIsLoaded)'
  BY StepType, StepCompletes
<1> QED
  BY <1>1, <1>2, PTL DEF Spec

(* The depot stays in order: trucks inside keep their order Loading,       *)
(* nothing leaves unticketed or beyond what was ordered, dead orders drop  *)
(* their trucks and new numbers are free.                                  *)
THEOREM DepotStaysInOrder == Spec => []DepotInOrder
BY InsideKeepsLoading, NothingLeavesUnticketed, MovementNeverExceeds, EndsDropTrucks, NumbersNeverCollide,
   PTL DEF DepotInOrder

-----------------------------------------------------------------------------
(* Litres of a list that changes.                                          *)

LEMMA SameLitres ==
  ASSUME NEW s, NEW t, DOMAIN s = DOMAIN t, \A i \in DOMAIN s : s[i].qty = t[i].qty
  PROVE  LitresOf(s) = LitresOf(t)
<1>1. [i \in DOMAIN s |-> s[i].qty] = [i \in DOMAIN t |-> t[i].qty]
  OBVIOUS
<1> QED
  BY <1>1 DEF LitresOf, LitresIn

LEMMA NoLitres == LitresOf(<<>>) = 0
<1>1. DOMAIN <<>> = {}
  OBVIOUS
<1> QED
  BY <1>1, SumEmpty DEF LitresOf, LitresIn

LEMMA OneLitres ==
  ASSUME NEW l \in Load
  PROVE  LitresOf(<<l>>) = l.qty
<1> DEFINE f == [i \in DOMAIN <<l>> |-> <<l>>[i].qty]
<1>1. DOMAIN <<l>> = {1} /\ f[1] = l.qty /\ l.qty \in Nat
  BY DEF Load
<1>2. IsFiniteSet({1}) /\ {1} \ {1} = {}
  BY FS_Singleton
<1>3. SumFunctionOnSet(f, {1}) = f[1] + SumFunctionOnSet(f, {1} \ {1})
  <2>1. \A x \in {1} : f[x] \in Int
    BY <1>1
  <2> HIDE DEF f
  <2> QED
    BY <1>2, <2>1, SumWithout
<1>4. SumFunctionOnSet(f, {}) = 0
  BY SumEmpty
<1> QED
  BY <1>1, <1>2, <1>3, <1>4 DEF LitresOf, LitresIn

(* A truck that keeps its litres keeps the order's.                        *)
LEMMA QtyKept ==
  ASSUME NEW o \in Orders, NEW l \in Load
  PROVE  Ticketed(o, l).qty = l.qty /\ MadeLoaded(l).qty = l.qty
BY DEF Ticketed, MadeLoaded, Load, Ticket

LEMMA KnownLitres ==
  ASSUME TypeOK, NEW o \in Orders, NEW again \in SUBSET Trucks(o)
  PROVE  LitresOf(Known(o, again)) = LitresOf(loads[o])
<1>1. DOMAIN Known(o, again) = DOMAIN loads[o]
  BY DEF Known, Trucks
<1>2. ASSUME NEW i \in Trucks(o) PROVE Known(o, again)[i].qty = loads[o][i].qty
  <2>1. PICK l \in Load : l = loads[o][i]
    BY TruckType
  <2>2. Ticketed(o, l) \in Load
    BY TicketedTruck
  <2>3. Known(o, again)[i] = IF i \in again THEN MadeLoaded(Ticketed(o, l)) ELSE l
    BY <2>1 DEF Known
  <2> QED
    BY <2>1, <2>2, <2>3, QtyKept
<1> QED
  BY <1>1, <1>2, SameLitres DEF Trucks

LEMMA ChangedLitres ==
  ASSUME TypeOK, NEW o \in Orders, NEW i \in Trucks(o), NEW l \in Load
  PROVE  LitresOf([loads[o] EXCEPT ![i] = l]) = LitresIn(loads[o], Trucks(o) \ {i}) + l.qty
<1> DEFINE s == loads[o]
           t == [s EXCEPT ![i] = l]
           D == Trucks(o)
           f == [j \in DOMAIN s |-> s[j].qty]
           e == [j \in DOMAIN t |-> t[j].qty]
<1>1. /\ D = 1..Len(s) /\ Len(s) \in Nat /\ DOMAIN s = D /\ DOMAIN t = D
      /\ \A j \in D : s[j] \in Load
  BY TruckType DEF Trucks
<1>2. IsFiniteSet(D) /\ IsFiniteSet(D \ {i})
  <2>1. IsFiniteSet(1..Len(s))
    BY <1>1, FS_Interval
  <2>2. IsFiniteSet(D) /\ D \ {i} \subseteq D
    BY <1>1, <2>1
  <2> HIDE DEF D
  <2> QED
    BY <2>2, FS_Subset
<1>3. \A j \in D : t[j] \in Load /\ (j # i => t[j] = s[j])
  BY <1>1
<1>4. t[i] = l
  BY <1>1
<1>5. /\ \A j \in D : f[j] \in Int /\ e[j] \in Int
      /\ \A j \in D \ {i} : e[j] = f[j]
      /\ e[i] = l.qty
  BY <1>1, <1>3, <1>4 DEF Load
<1>6. SumFunctionOnSet(e, D) = e[i] + SumFunctionOnSet(e, D \ {i})
  <2>1. i \in D /\ \A j \in D : e[j] \in Int
    BY <1>5
  <2> HIDE DEF e, D
  <2> QED
    BY <1>2, <2>1, SumWithout
<1>7. SumFunctionOnSet(e, D \ {i}) = SumFunctionOnSet(f, D \ {i})
  <2>1. \A j \in D \ {i} : f[j] \in Int /\ e[j] = f[j]
    BY <1>5
  <2> HIDE DEF e, f, D
  <2> QED
    BY <1>2, <2>1, SumSame
<1>8. SumFunctionOnSet(f, D \ {i}) \in Int
  <2>1. \A j \in D \ {i} : f[j] \in Int
    BY <1>5
  <2> HIDE DEF f, D
  <2> QED
    BY <1>2, <2>1, SumType
<1>9. LitresOf(t) = SumFunctionOnSet(e, D) /\ LitresIn(s, D \ {i}) = SumFunctionOnSet(f, D \ {i})
  BY <1>1 DEF LitresOf, LitresIn
<1>10. l.qty \in Int
  BY DEF Load
<1> QED
  BY <1>5, <1>6, <1>7, <1>8, <1>9, <1>10

(* What the desk and the gate write on a truck: all but its litres.        *)
Rewritten(o, i) ==
  \E l \in Load : loads'[o] = [loads[o] EXCEPT ![i] = l] /\ l.qty = loads[o][i].qty

LEMMA RewrittenLitres ==
  ASSUME TypeOK, NEW o \in Orders, NEW i \in Trucks(o), Rewritten(o, i)
  PROVE  LitresOf(loads'[o]) = LitresOf(loads[o])
<1>1. PICK l \in Load : loads'[o] = [loads[o] EXCEPT ![i] = l] /\ l.qty = loads[o][i].qty
  BY DEF Rewritten
<1>2. DOMAIN loads'[o] = DOMAIN loads[o]
  BY <1>1
<1>3. \A j \in DOMAIN loads'[o] : loads'[o][j].qty = loads[o][j].qty
  BY <1>1
<1> QED
  BY <1>2, <1>3, SameLitres

LEMMA DeskRewrites ==
  ASSUME TypeOK, NEW o \in Orders, NEW i \in Trucks(o),
         MarkTruckLoaded(o, i) \/ GateInTruck(o, i) \/ GateOutTruck(o, i)
  PROVE  Rewritten(o, i)
<1>1. PICK k \in Load : k = loads[o][i]
  BY TruckType
<1>2. Ticketed(o, k) \in Load /\ Ticketed(o, k).qty = k.qty
  BY TicketedTruck, QtyKept
<1>3. CASE MarkTruckLoaded(o, i)
  <2> DEFINE l == MadeLoaded(Ticketed(o, k))
  <2>1. l \in Load /\ l.qty = k.qty
    BY <1>2, LoadedTruck, QtyKept
  <2>2. loads'[o] = [loads[o] EXCEPT ![i] = l]
    BY <1>1, <1>3 DEF MarkTruckLoaded, TypeOK
  <2> HIDE DEF l
  <2> QED
    BY <1>1, <2>1, <2>2 DEF Rewritten
<1>4. CASE GateInTruck(o, i)
  <2> DEFINE l == [k EXCEPT !.status = "gated_in"]
  <2>1. l \in Load /\ l.qty = k.qty
    BY DEF Load, LoadStatus
  <2>2. loads'[o] = [loads[o] EXCEPT ![i] = l]
    BY <1>1, <1>4 DEF GateInTruck, TypeOK
  <2> HIDE DEF l
  <2> QED
    BY <1>1, <2>1, <2>2 DEF Rewritten
<1>5. CASE GateOutTruck(o, i)
  <2> DEFINE l == [Ticketed(o, k) EXCEPT !.status = "gated_out"]
  <2>1. l \in Load /\ l.qty = k.qty
    BY <1>2 DEF Load, LoadStatus
  <2>2. loads' = [loads EXCEPT ![o] = [loads[o] EXCEPT ![i] = l]]
    BY <1>1, <1>5 DEF GateOutTruck, TicketAtExit
  <2> HIDE DEF l
  <2>3. loads'[o] = [loads[o] EXCEPT ![i] = l]
    BY <2>2 DEF TypeOK
  <2> QED
    BY <1>1, <2>1, <2>3 DEF Rewritten
<1> QED
  BY <1>3, <1>4, <1>5

LEMMA CorrectedLitres ==
  ASSUME TypeOK, NEW o \in Orders, NEW i \in Trucks(o), NEW q \in Nat, UpdateTruckLoad(o, i, q)
  PROVE  LitresOf(loads'[o]) <= qty[o]
<1>1. PICK k \in Load : k = loads[o][i]
  BY TruckType
<1> DEFINE l == [k EXCEPT !.qty = q]
<1>2. l \in Load /\ l.qty = q
  BY DEF Load
<1>3. loads'[o] = [loads[o] EXCEPT ![i] = l]
  BY <1>1 DEF UpdateTruckLoad, TypeOK
<1>4. LitresOf(loads'[o]) = LitresIn(loads[o], Trucks(o) \ {i}) + q
  <2> HIDE DEF l
  <2> QED
    BY <1>2, <1>3, ChangedLitres
<1> QED
  BY <1>4 DEF UpdateTruckLoad, StillFits

LEMMA TicketedLitres ==
  ASSUME TypeOK, NEW o \in Orders, NEW again \in SUBSET Trucks(o),
         NEW fresh, fresh = <<>> \/ (fresh = <<fresh[1]>> /\ fresh[1] \in Nat), NEW place \in Nat,
         GenerateTickets(o, again, fresh, place)
  PROVE  LitresOf(loads'[o]) <= qty[o]
<1> DEFINE litres == IF fresh = <<>> THEN 0 ELSE fresh[1]
<1>1. PICK a \in Seq(Load) : a = Known(o, again)
  BY KnownType
<1>2. PICK b \in Seq(Load) : /\ b = IF fresh = <<>> THEN <<>> ELSE Fresh(o, fresh[1], place)
                             /\ LitresOf(b) = litres
  <2>1. CASE fresh = <<>>
    BY <2>1, EmptyList, NoLitres
  <2>2. CASE fresh # <<>>
    <3> DEFINE l == NewTruck(o, fresh[1], "loaded", LastIndex(o) + place)
    <3>1. Fresh(o, fresh[1], place) \in Seq(Load)
      BY <2>2, FreshType
    <3>2. l \in Load /\ l.qty = fresh[1]
      BY <2>2, LastIndexType DEF NewTruck, Load, LoadStatus, Ticket
    <3>3. Fresh(o, fresh[1], place) = <<l>>
      BY DEF Fresh
    <3>4. LitresOf(<<l>>) = fresh[1]
      <4> HIDE DEF l
      <4> QED
        BY <3>2, OneLitres
    <3> QED
      BY <2>2, <3>1, <3>3, <3>4
  <2> QED
    BY <2>1, <2>2
<1>3. loads'[o] = a \o b
  <2>1. loads' = [loads EXCEPT ![o] = Known(o, again) \o
                   (IF fresh = <<>> THEN <<>> ELSE Fresh(o, fresh[1], place))]
    BY ZenonT(60), GenerateTicketsType
  <2>2. loads' = [loads EXCEPT ![o] = a \o b]
    BY <1>1, <1>2, <2>1
  <2> QED
    BY <2>2 DEF TypeOK
<1>4. LitresOf(loads'[o]) = LitresOf(loads[o]) + litres
  <2>1. LitresOf(a) = LitresOf(loads[o])
    BY <1>1, KnownLitres
  <2> QED
    BY <1>2, <1>3, <2>1, JoinedLitres
<1>5. TicketTotal(o, again, litres) <= Releasable(o)
  BY DEF GenerateTickets, WithinCeiling
<1>6. /\ LitresOf(loads[o]) \in Nat /\ LitresIn(loads[o], again) \in Nat
      /\ litres \in Nat /\ qty[o] \in Nat /\ Releasable(o) \in Int
  BY TruckType, LitresType DEF LitresOf, Trucks, TypeOK, Releasable, Smaller
<1>7. Releasable(o) <= qty[o]
  BY ReleasableWithinOrder
<1> HIDE DEF litres
<1> QED
  BY <1>4, <1>5, <1>6, <1>7 DEF TicketTotal

LEMMA DeclaredLitres ==
  ASSUME NEW q \in Nat, NEW split \in Splits(q)
  PROVE  LitresOf(Declared(split)) = q
<1>1. split \in Lists /\ SumFunction(split) = q
  BY DEF Splits
<1>2. split = [i \in DOMAIN split |-> split[i]]
  BY <1>1 DEF Lists
<1>3. DOMAIN Declared(split) = DOMAIN split /\ \A i \in DOMAIN split : Declared(split)[i].qty = split[i]
  BY DEF Declared
<1>4. [i \in DOMAIN Declared(split) |-> Declared(split)[i].qty] = split
  BY <1>2, <1>3
<1> QED
  BY <1>1, <1>3, <1>4 DEF LitresOf, LitresIn, SumFunction

LEMMA MergedLitres ==
  ASSUME TypeOK, NEW target \in Orders, NEW source \in Orders, MergeOrders(target, source)
  PROVE  LitresOf(loads'[target]) = LitresOf(loads[target]) + LitresOf(loads[source])
<1>1. PICK a \in Seq(Load) : a = loads[target]
  BY TruckType
<1>2. PICK b \in Seq(Load) : b = Renumbered(source, LastIndex(target))
  BY LastIndexType, RenumberedType
<1>3. loads' = [loads EXCEPT ![target] = a \o b, ![source] = <<>>] /\ target # source
  BY <1>1, <1>2 DEF MergeOrders
<1>4. loads'[target] = a \o b
  BY <1>3 DEF TypeOK
<1>5. LitresOf(b) = LitresOf(loads[source])
  BY <1>2, LastIndexType, RenumberedLitres
<1> QED
  BY <1>1, <1>4, <1>5, JoinedLitres

-----------------------------------------------------------------------------
(* An order left open with everything gone is a merge's.                   *)

LEMMA TicketsLeaveOpen ==
  ASSUME TypeOK, LoadInv, NEW o \in Orders, NEW again \in SUBSET Trucks(o),
         NEW fresh, fresh = <<>> \/ (fresh = <<fresh[1]>> /\ fresh[1] \in Nat), NEW place \in Nat,
         GenerateTickets(o, again, fresh, place), LeftOpen(o)'
  PROVE  LeftOpen(o)
<1>1. PICK a \in Seq(Load) : a = Known(o, again) /\ Len(a) = Len(loads[o])
  BY KnownType
<1>2. PICK b \in Seq(Load) : b = IF fresh = <<>> THEN <<>> ELSE Fresh(o, fresh[1], place)
  <2>1. CASE fresh = <<>>
    BY <2>1, EmptyList
  <2>2. CASE fresh # <<>>
    <3>1. Fresh(o, fresh[1], place) \in Seq(Load)
      BY <2>2, FreshType
    <3> QED
      BY <2>2, <3>1
  <2> QED
    BY <2>1, <2>2
<1>3. loads'[o] = a \o b
  <2>1. loads' = [loads EXCEPT ![o] = Known(o, again) \o
                   (IF fresh = <<>> THEN <<>> ELSE Fresh(o, fresh[1], place))]
    BY ZenonT(60), GenerateTicketsType
  <2>2. loads' = [loads EXCEPT ![o] = a \o b]
    BY <1>1, <1>2, <2>1
  <2> QED
    BY <2>2 DEF TypeOK
<1>4. \A i \in DOMAIN (a \o b) : (a \o b)[i].status = "gated_out"
  BY <1>3 DEF LeftOpen, AllOut, Trucks
<1>5. fresh = <<>>
  <2> SUFFICES ASSUME fresh # <<>> PROVE FALSE
    OBVIOUS
  <2>1. b = <<NewTruck(o, fresh[1], "loaded", LastIndex(o) + place)>>
    BY <1>2 DEF Fresh
  <2>2. Len(b) = 1 /\ b[1].status = "loaded"
    BY <2>1 DEF NewTruck
  <2>3. /\ DOMAIN (a \o b) = 1..Len(a) + Len(b) /\ Len(a) \in Nat
        /\ (a \o b)[Len(a) + 1] = b[1]
    <3>1. DOMAIN (a \o b) = 1..Len(a) + Len(b) /\ Len(a) \in Nat
      BY JoinedDomain
    <3>2. Len(a) + 1 \in Len(a) + 1 .. Len(a) + Len(b) /\ (Len(a) + 1) - Len(a) = 1
      BY <2>2, <3>1
    <3>3. (a \o b)[Len(a) + 1] = b[(Len(a) + 1) - Len(a)]
      BY <3>2, ConcatProperties
    <3> QED
      BY <3>1, <3>2, <3>3
  <2>4. Len(a) + 1 \in DOMAIN (a \o b)
    BY <2>2, <2>3
  <2> QED
    BY <1>4, <2>2, <2>3, <2>4
<1>6. a \o b = a
  BY <1>2, <1>5
<1>7. ASSUME NEW i \in Trucks(o) PROVE loads[o][i].status = "gated_out"
  <2>1. PICK l \in Load : l = loads[o][i]
    BY TruckType
  <2>2. Ticketed(o, l) \in Load /\ Ticketed(o, l).status = l.status
    BY TicketedTruck
  <2>3. MadeLoaded(Ticketed(o, l)).status = IF l.status = "pending" THEN "loaded" ELSE l.status
    BY <2>2, LoadedTruck
  <2>4. a[i] = IF i \in again THEN MadeLoaded(Ticketed(o, l)) ELSE l
    BY <1>1, <2>1 DEF Known
  <2>5. a[i].status = "gated_out"
    <3>1. i \in DOMAIN a
      BY <1>1 DEF Known
    <3> QED
      BY <1>4, <1>6, <3>1
  <2> QED
    BY <2>1, <2>3, <2>4, <2>5
<1>8. status[o] = "Loading"
  <2>1. again # {} /\ status[o] \in {"Released", "Loading"}
    BY <1>5 DEF GenerateTickets, Ticketable
  <2>2. PICK i \in Trucks(o) : loads[o][i].status = "gated_out"
    BY <1>7, <2>1
  <2>3. StatusFits(o, loads[o][i])
    BY DEF LoadInv, OrderFits, TruckFits
  <2> QED
    BY <2>1, <2>2, <2>3 DEF StatusFits
<1>9. LitresOf(loads'[o]) = LitresOf(loads[o]) /\ qty'[o] = qty[o]
  BY <1>1, <1>3, <1>6, KnownLitres DEF GenerateTickets
<1>10. LitresOf(loads[o]) >= qty[o]
  BY <1>9 DEF LeftOpen
<1> QED
  BY <1>7, <1>8, <1>10 DEF LeftOpen, AllOut

(* The truck a step works on has not left, so its order is not left open.  *)
LEMMA TruckHoldsOpen ==
  ASSUME TypeOK, NEW o \in Orders, NEW i \in Trucks(o), NEW l \in Load, l.status # "gated_out",
         loads'[o] = [loads[o] EXCEPT ![i] = l]
  PROVE  ~LeftOpen(o)'
<1>1. i \in DOMAIN loads'[o] /\ loads'[o][i] = l
  BY DEF Trucks
<1> QED
  BY <1>1 DEF LeftOpen, AllOut, Trucks

LEMMA GateOutCloses ==
  ASSUME TypeOK, NEW o \in Orders, NEW i \in Trucks(o), GateOutTruck(o, i)
  PROVE  ~LeftOpen(o)'
<1> SUFFICES ASSUME LeftOpen(o)' PROVE FALSE
  OBVIOUS
<1> DEFINE trucks == [loads[o] EXCEPT ![i] = [TicketAtExit(o, @) EXCEPT !.status = "gated_out"]]
<1>1. /\ loads' = [loads EXCEPT ![o] = trucks]
      /\ status' = [status EXCEPT ![o] = IF CompletesWith(o, trucks) THEN "Completed" ELSE @]
      /\ qty' = qty
  BY DEF GateOutTruck
<1> HIDE DEF trucks
<1>2. loads'[o] = trucks /\ status'[o] = "Loading"
  BY <1>1 DEF TypeOK, LeftOpen
<1>3. ~CompletesWith(o, trucks) /\ status[o] = "Loading"
  BY <1>1, <1>2 DEF TypeOK
<1> QED
  BY <1>1, <1>2, <1>3 DEF CompletesWith, LeftOpen, AllOut, Trucks

LEMMA StepOpens ==
  ASSUME TypeOK, LoadInv, [Next]_vars, NEW o \in Orders, ~LeftOpen(o), LeftOpen(o)'
  PROVE  \E source \in Orders : MergeOrders(o, source)
<1> USE LoadingAssumption
<1>1. /\ status'[o] = "Loading"
      /\ ~(status'[o] = status[o] /\ loads'[o] = loads[o] /\ qty'[o] = qty[o])
  BY DEF LeftOpen, AllOut, Trucks
<1>2. ASSUME NEW x \in Orders, NEW q \in Quantities, NEW unpriced \in BOOLEAN, NEW split,
             PlaceOrder(x, q, split, unpriced)
      PROVE  FALSE
  BY <1>1, <1>2 DEF PlaceOrder, TypeOK
<1>3. ASSUME NEW x \in Orders, NEW q \in Payments, NEW st \in {status[x], "Released"}, MoneyMoves(x, q, st)
      PROVE  FALSE
  BY <1>1, <1>3 DEF MoneyMoves, TypeOK
<1>4. ASSUME NEW x \in Orders, NEW q \in Truckloads, AuthoriseCreditRelease(x, q)
      PROVE  FALSE
  BY <1>1, <1>4 DEF AuthoriseCreditRelease, TypeOK
<1>5. ASSUME NEW x \in Orders, RevokeCreditRelease(x) \/ BeginRelease(x) \/ RefuseRelease(x)
      PROVE  FALSE
  BY <1>1, <1>5 DEF RevokeCreditRelease, BeginRelease, RefuseRelease
<1>6. ASSUME NEW x \in Orders, EndOrder(x) \/ DeleteOrder(x)
      PROVE  FALSE
  BY <1>1, <1>6 DEF EndOrder, DeleteOrder, TrucksDropped, TypeOK
<1>7. ASSUME NEW x \in Orders, NEW q \in Quantities, UpdateQuantity(x, q)
      PROVE  FALSE
  BY <1>1, <1>7 DEF UpdateQuantity, QuantityEditable, TypeOK
<1>8. ASSUME NEW x \in Orders, NEW split, UpdatePickupTrucks(x, split)
      PROVE  FALSE
  BY <1>1, <1>8 DEF UpdatePickupTrucks, TypeOK
<1>9. ASSUME NEW x \in Orders, NEW split, ReleaseOrder(x, split)
      PROVE  FALSE
  BY <1>1, <1>9 DEF ReleaseOrder, MayRelease, TypeOK
<1>10. ASSUME NEW x \in Orders, NEW again \in SUBSET Trucks(x),
              NEW fresh, fresh = <<>> \/ (fresh = <<fresh[1]>> /\ fresh[1] \in Nat), NEW place \in Nat,
              GenerateTickets(x, again, fresh, place)
       PROVE  FALSE
  <2>1. CASE x = o
    <3> HIDE DEF LeftOpen
    <3>1. LeftOpen(x)'
      BY <2>1
    <3>2. LeftOpen(x)
      BY <1>10, <3>1, TicketsLeaveOpen
    <3> QED
      BY <2>1, <3>2
  <2>2. CASE x # o
    BY <1>1, <1>10, <2>2 DEF GenerateTickets, TypeOK
  <2> QED
    BY <2>1, <2>2
<1>11. ASSUME NEW x \in Orders, NEW i \in Trucks(x), MarkTruckLoaded(x, i)
       PROVE  FALSE
  <2>1. x = o
    BY <1>1, <1>11 DEF MarkTruckLoaded, TypeOK
  <2>2. PICK k \in Load : k = loads[x][i] /\ k.status # "gated_out"
    BY <1>11, TruckType DEF MarkTruckLoaded
  <2> DEFINE l == MadeLoaded(Ticketed(x, k))
  <2>3. l \in Load /\ l.status # "gated_out"
    <3>1. Ticketed(x, k) \in Load /\ Ticketed(x, k).status = k.status
      BY TicketedTruck
    <3> QED
      BY <2>2, <3>1, LoadedTruck
  <2>4. loads'[x] = [loads[x] EXCEPT ![i] = l]
    BY <1>11, <2>2 DEF MarkTruckLoaded, TypeOK
  <2> HIDE DEF l
  <2> QED
    BY <2>1, <2>3, <2>4, TruckHoldsOpen
<1>12. ASSUME NEW x \in Orders, NEW i \in Trucks(x), GateInTruck(x, i)
       PROVE  FALSE
  <2>1. x = o
    BY <1>1, <1>12 DEF GateInTruck, TypeOK
  <2>2. PICK k \in Load : k = loads[x][i]
    BY TruckType
  <2> DEFINE l == [k EXCEPT !.status = "gated_in"]
  <2>3. l \in Load /\ l.status # "gated_out"
    BY DEF Load, LoadStatus
  <2>4. loads'[x] = [loads[x] EXCEPT ![i] = l]
    BY <1>12, <2>2 DEF GateInTruck, TypeOK
  <2> HIDE DEF l
  <2> QED
    BY <2>1, <2>3, <2>4, TruckHoldsOpen
<1>13. ASSUME NEW x \in Orders, NEW i \in Trucks(x), GateOutTruck(x, i)
       PROVE  FALSE
  <2>1. CASE x = o
    BY <1>13, <2>1, GateOutCloses
  <2>2. CASE x # o
    <3>1. status'[o] = status[o] /\ loads'[o] = loads[o] /\ qty'[o] = qty[o]
      BY <1>13, <2>2 DEF GateOutTruck, TypeOK
    <3> QED
      BY <1>1, <3>1
  <2> QED
    BY <2>1, <2>2
<1>14. ASSUME NEW x \in Orders, NEW i \in Trucks(x), NEW q \in Nat, UpdateTruckLoad(x, i, q)
       PROVE  FALSE
  <2>1. x = o
    BY <1>1, <1>14 DEF UpdateTruckLoad, TypeOK
  <2>2. PICK k \in Load : k = loads[x][i] /\ k.status # "gated_out"
    BY <1>14, TruckType DEF UpdateTruckLoad
  <2> DEFINE l == [k EXCEPT !.qty = q]
  <2>3. l \in Load /\ l.status # "gated_out"
    BY <2>2 DEF Load
  <2>4. loads'[x] = [loads[x] EXCEPT ![i] = l]
    BY <1>14, <2>2 DEF UpdateTruckLoad, TypeOK
  <2> HIDE DEF l
  <2> QED
    BY <2>1, <2>3, <2>4, TruckHoldsOpen
<1>15. ASSUME NEW x \in Orders, NEW q \in Nat, GateInUndeclared(x, q)
       PROVE  FALSE
  <2>1. x = o
    BY <1>1, <1>15 DEF GateInUndeclared, TypeOK
  <2>2. PICK s \in Seq(Load) : s = loads[x]
    BY TruckType
  <2> DEFINE n == [qty |-> q, status |-> "gated_in", ticket |-> NoTicket, index |-> Len(s) + 1]
  <2>3. loads'[x] = Append(s, n)
    BY <1>15, <2>2 DEF GateInUndeclared, TypeOK
  <2>4. Len(s) \in Nat /\ n \in Load /\ n.status = "gated_in"
    BY LenProperties DEF Load, LoadStatus
  <2> HIDE DEF n
  <2>5. DOMAIN Append(s, n) = 1..Len(s) + 1 /\ Append(s, n)[Len(s) + 1] = n
    BY <2>4, AppendProperties, LenProperties
  <2>6. Len(s) + 1 \in DOMAIN loads'[x] /\ loads'[x][Len(s) + 1].status = "gated_in"
    BY <2>3, <2>4, <2>5
  <2> QED
    BY <2>1, <2>6 DEF LeftOpen, AllOut, Trucks
<1>16. ASSUME NEW target \in Orders, NEW source \in Orders, MergeOrders(target, source)
       PROVE  \E s \in Orders : MergeOrders(o, s)
  <2>1. CASE target = o
    BY <1>16, <2>1
  <2>2. CASE source = o
    BY <1>1, <1>16, <2>2 DEF MergeOrders, TypeOK
  <2>3. CASE o \notin {target, source}
    BY <1>1, <1>16, <2>3 DEF MergeOrders, TypeOK
  <2> QED
    BY <2>1, <2>2, <2>3
<1>17. CASE UNCHANGED vars
  BY <1>1, <1>17 DEF vars
<1>18. ASSUME NEW x \in Orders, NEW again \in SUBSET Trucks(x), GenerateTickets(x, again, <<>>, 0)
       PROVE  FALSE
  <2>1. 0 \in Nat
    OBVIOUS
  <2> QED
    BY <1>10, <1>18, <2>1
<1>19. ASSUME NEW x \in Orders, NEW again \in SUBSET Trucks(x), NEW q \in Truckloads,
              NEW place \in 1..Cardinality(again) + 1, GenerateTickets(x, again, <<q>>, place)
       PROVE  FALSE
  <2>1. place \in Nat
    BY PlaceType
  <2>2. q \in Nat /\ <<q>> = <<<<q>>[1]>> /\ <<q>>[1] = q
    OBVIOUS
  <2> QED
    BY <1>10, <1>19, <2>1, <2>2
<1>20. Truckloads \subseteq Nat
  OBVIOUS
<1> QED
  BY <1>2, <1>3, <1>4, <1>5, <1>6, <1>7, <1>8, <1>9, <1>18, <1>19, <1>11, <1>12, <1>13, <1>14,
     <1>15, <1>16, <1>17, <1>20 DEF Next

(* An order left open with all of its trucks and litres gone was merged    *)
(* in that very step: the last truck out completes any other.              *)
THEOREM OpenIsMerged == Spec => LeftOpenOnlyByMerge
<1>1. TypeOK /\ LoadInv /\ [Next]_vars
        => [\A o \in Orders : ~LeftOpen(o) /\ LeftOpen(o)' => \E source \in Orders : MergeOrders(o, source)]_vars
  BY StepOpens
<1>2. Spec => [](TypeOK /\ LoadInv) /\ [][Next]_vars
  BY AllFit, PTL DEF Spec
<1> QED
  BY <1>1, <1>2, PTL DEF LeftOpenOnlyByMerge

-----------------------------------------------------------------------------
(* The trucks of a delivery order come to carry too much from a release    *)
(* that read an older quantity.                                            *)

(* A delivery order has its trucks from its release on.                    *)
PendingEmpty == \A o \in Orders \ Pickup : status[o] = "Pending" => loads[o] = <<>>

LEMMA DeclaredNone == Declared(<<>>) = <<>>
BY DEF Declared

(* A step that leaves or makes an order anything but Pending, or keeps its *)
(* trucks.                                                                 *)
LEMMA StillPendingEmpty ==
  ASSUME PendingEmpty, NEW o \in Orders,
         \A x \in Orders \ {o} : status'[x] = status[x] /\ loads'[x] = loads[x],
         \/ o \in Pickup
         \/ status'[o] # "Pending"
         \/ status'[o] = status[o] /\ loads'[o] = loads[o]
         \/ loads'[o] = <<>>
  PROVE  PendingEmpty'
<1>1. ASSUME NEW x \in Orders \ Pickup, status'[x] = "Pending" PROVE loads'[x] = <<>>
  BY <1>1 DEF PendingEmpty
<1> QED
  BY <1>1 DEF PendingEmpty

LEMMA StepPendingEmpty == TypeOK /\ PendingEmpty /\ [Next]_vars => PendingEmpty'
<1> SUFFICES ASSUME TypeOK, PendingEmpty, [Next]_vars PROVE PendingEmpty'
  OBVIOUS
<1> USE LoadingAssumption
<1>1. ASSUME NEW o \in Orders, NEW q \in Quantities, NEW unpriced \in BOOLEAN, NEW split,
             PlaceOrder(o, q, split, unpriced)
      PROVE  PendingEmpty'
  <2>1. o \in Pickup \/ loads'[o] = <<>>
    BY <1>1, DeclaredNone DEF PlaceOrder, TypeOK
  <2>2. \A x \in Orders \ {o} : status'[x] = status[x] /\ loads'[x] = loads[x]
    BY <1>1 DEF PlaceOrder, TypeOK
  <2> QED
    BY <2>1, <2>2, StillPendingEmpty
<1>2. ASSUME NEW o \in Orders, NEW q \in Payments, NEW st \in {status[o], "Released"}, MoneyMoves(o, q, st)
      PROVE  PendingEmpty'
  BY <1>2, StillPendingEmpty DEF MoneyMoves, TypeOK
<1>3. ASSUME NEW o \in Orders, NEW q \in Truckloads, AuthoriseCreditRelease(o, q)
      PROVE  PendingEmpty'
  BY <1>3, StillPendingEmpty DEF AuthoriseCreditRelease, TypeOK
<1>4. ASSUME NEW o \in Orders, RevokeCreditRelease(o) \/ BeginRelease(o) \/ RefuseRelease(o)
      PROVE  PendingEmpty'
  BY <1>4 DEF RevokeCreditRelease, BeginRelease, RefuseRelease, PendingEmpty
<1>5. ASSUME NEW o \in Orders, EndOrder(o)
      PROVE  PendingEmpty'
  BY <1>5, StillPendingEmpty DEF EndOrder, TrucksDropped, TypeOK
<1>6. ASSUME NEW o \in Orders, DeleteOrder(o)
      PROVE  PendingEmpty'
  BY <1>6, StillPendingEmpty DEF DeleteOrder, TypeOK
<1>7. ASSUME NEW o \in Orders, NEW q \in Quantities, UpdateQuantity(o, q)
      PROVE  PendingEmpty'
  BY <1>7 DEF UpdateQuantity, PendingEmpty
<1>8. ASSUME NEW o \in Orders, NEW split, UpdatePickupTrucks(o, split)
      PROVE  PendingEmpty'
  BY <1>8, StillPendingEmpty DEF UpdatePickupTrucks, TypeOK
<1>9. ASSUME NEW o \in Orders, NEW split, ReleaseOrder(o, split)
      PROVE  PendingEmpty'
  BY <1>9, StillPendingEmpty DEF ReleaseOrder, TypeOK
<1>10. ASSUME NEW o \in Orders, NEW again, NEW fresh, NEW place, GenerateTickets(o, again, fresh, place)
      PROVE  PendingEmpty'
  BY <1>10, StillPendingEmpty DEF GenerateTickets, TypeOK
<1>11. ASSUME NEW o \in Orders, NEW i \in Trucks(o), NEW q,
              MarkTruckLoaded(o, i) \/ UpdateTruckLoad(o, i, q) \/ GateOutTruck(o, i)
      PROVE  PendingEmpty'
  <2>1. loads[o] # <<>>
    BY DEF Trucks
  <2>2. o \in Pickup \/ status[o] # "Pending"
    BY <2>1 DEF PendingEmpty
  <2>3. \A x \in Orders \ {o} : status'[x] = status[x] /\ loads'[x] = loads[x]
    BY <1>11 DEF MarkTruckLoaded, UpdateTruckLoad, GateOutTruck, TypeOK
  <2>4. status'[o] \in {status[o], "Completed"}
    <3> DEFINE trucks == [loads[o] EXCEPT ![i] = [TicketAtExit(o, @) EXCEPT !.status = "gated_out"]]
    <3>1. CASE GateOutTruck(o, i)
      <4>1. status' = [status EXCEPT ![o] = IF CompletesWith(o, trucks) THEN "Completed" ELSE @]
        BY <3>1 DEF GateOutTruck
      <4> HIDE DEF trucks
      <4> QED
        BY <4>1 DEF TypeOK
    <3>2. CASE MarkTruckLoaded(o, i) \/ UpdateTruckLoad(o, i, q)
      BY <3>2 DEF MarkTruckLoaded, UpdateTruckLoad
    <3> QED
      BY <1>11, <3>1, <3>2
  <2> QED
    BY <2>2, <2>3, <2>4, StillPendingEmpty
<1>12. ASSUME NEW o \in Orders, NEW i \in Trucks(o), GateInTruck(o, i)
      PROVE  PendingEmpty'
  BY <1>12, StillPendingEmpty DEF GateInTruck, TypeOK
<1>13. ASSUME NEW o \in Orders, NEW q, GateInUndeclared(o, q)
      PROVE  PendingEmpty'
  BY <1>13, StillPendingEmpty DEF GateInUndeclared, TypeOK
<1>14. ASSUME NEW target \in Orders, NEW source \in Orders, MergeOrders(target, source)
      PROVE  PendingEmpty'
  <2>1. /\ target # source
        /\ \A x \in Orders \ {target, source} : status'[x] = status[x] /\ loads'[x] = loads[x]
        /\ status'[source] = "Dead"
        /\ target \notin Pickup => source \notin Pickup
    BY <1>14 DEF MergeOrders, TypeOK
  <2>2. ASSUME target \notin Pickup, status'[target] = "Pending" PROVE loads'[target] = <<>>
    <3>1. CombinedStatus(status[target], status[source]) = "Pending"
      BY <1>14, <2>1, <2>2 DEF MergeOrders, TypeOK
    <3>2. status[target] = "Pending" /\ status[source] = "Pending"
      BY <1>14, <3>1 DEF MergeOrders, CombinedStatus, Lives
    <3>3. loads[target] = <<>> /\ loads[source] = <<>>
      BY <2>1, <2>2, <3>2 DEF PendingEmpty
    <3>4. Renumbered(source, LastIndex(target)) = <<>>
      BY <3>3 DEF Renumbered, Trucks
    <3>5. loads' = [loads EXCEPT ![target] = <<>> \o <<>>, ![source] = <<>>]
      BY <1>14, <3>3, <3>4 DEF MergeOrders, TypeOK
    <3> QED
      BY <2>1, <3>5 DEF TypeOK
  <2> QED
    BY <2>1, <2>2 DEF PendingEmpty
<1>15. CASE UNCHANGED vars
  BY <1>15 DEF vars, PendingEmpty
<1> QED
  BY <1>1, <1>2, <1>3, <1>4, <1>5, <1>6, <1>7, <1>8, <1>9, <1>10, <1>11, <1>12, <1>13, <1>14, <1>15 DEF Next

LEMMA LitresAreNat ==
  ASSUME TypeOK, NEW o \in Orders
  PROVE  LitresOf(loads[o]) \in Nat /\ qty[o] \in Nat
BY TruckType, LitresType DEF LitresOf, Trucks, TypeOK

StaleRelease(o) == loads[o] = <<>> /\ LitresOf(loads'[o]) = releasing[o] /\ releasing[o] # qty[o]

LEMMA StepOverfills ==
  ASSUME TypeOK, PendingEmpty, [Next]_vars, NEW o \in Orders \ Pickup, ~Overfull(o), Overfull(o)'
  PROVE  \/ StaleRelease(o)
         \/ \E source \in Orders : Overfull(source) /\ MergeOrders(o, source)
<1> USE LoadingAssumption
<1>0. TypeOK'
  BY StepType
<1>1. /\ LitresOf(loads[o]) \in Nat /\ qty[o] \in Nat /\ LitresOf(loads'[o]) \in Nat /\ qty'[o] \in Nat
      /\ LitresOf(loads[o]) <= qty[o] /\ LitresOf(loads'[o]) > qty'[o]
  <2>1. (LitresOf(loads[o]) \in Nat /\ qty[o] \in Nat)'
    BY <1>0, LitresType, LenProperties DEF LitresOf, TypeOK
  <2> QED
    BY <2>1, LitresAreNat DEF Overfull
<1>2. ~(LitresOf(loads'[o]) = LitresOf(loads[o]) /\ qty'[o] = qty[o])
  BY <1>1
<1>3. loads'[o] # <<>>
  BY <1>1, NoLitres
<1>4. ASSUME NEW x \in Orders, NEW q \in Quantities, NEW unpriced \in BOOLEAN, NEW split,
             PlaceOrder(x, q, split, unpriced)
      PROVE  FALSE
  <2>1. x = o
    BY <1>2, <1>4 DEF PlaceOrder, TypeOK
  <2> QED
    BY <1>3, <1>4, <2>1, DeclaredNone DEF PlaceOrder, TypeOK
<1>5. ASSUME NEW x \in Orders, NEW q \in Payments, NEW st \in {status[x], "Released"}, MoneyMoves(x, q, st)
      PROVE  FALSE
  BY <1>2, <1>5 DEF MoneyMoves
<1>6. ASSUME NEW x \in Orders, NEW q \in Truckloads, AuthoriseCreditRelease(x, q)
      PROVE  FALSE
  BY <1>2, <1>6 DEF AuthoriseCreditRelease
<1>7. ASSUME NEW x \in Orders, RevokeCreditRelease(x) \/ BeginRelease(x) \/ RefuseRelease(x)
      PROVE  FALSE
  BY <1>2, <1>7 DEF RevokeCreditRelease, BeginRelease, RefuseRelease
<1>8. ASSUME NEW x \in Orders, EndOrder(x) \/ DeleteOrder(x)
      PROVE  FALSE
  BY <1>2, <1>3, <1>8 DEF EndOrder, DeleteOrder, TrucksDropped, TypeOK
<1>9. ASSUME NEW x \in Orders, NEW q \in Quantities, UpdateQuantity(x, q)
      PROVE  FALSE
  <2>1. x = o /\ loads' = loads /\ status[o] = "Pending"
    BY <1>2, <1>9 DEF UpdateQuantity, QuantityEditable, TypeOK
  <2> QED
    BY <1>3, <2>1 DEF PendingEmpty
<1>10. ASSUME NEW x \in Orders, NEW split, UpdatePickupTrucks(x, split)
       PROVE  FALSE
  BY <1>2, <1>10 DEF UpdatePickupTrucks, TypeOK
<1>11. ASSUME NEW x \in Orders, NEW split \in (IF x \in Pickup THEN {<<>>} ELSE Splits(releasing[x])),
              ReleaseOrder(x, split)
       PROVE  StaleRelease(o)
  <2>1. x = o /\ loads[o] = <<>>
    BY <1>2, <1>11 DEF ReleaseOrder, TypeOK
  <2>2. split \in Splits(releasing[o]) /\ releasing[o] \in Nat
    BY <2>1 DEF TypeOK
  <2>3. loads'[o] = Declared(split) /\ qty'[o] = qty[o]
    BY <1>11, <2>1 DEF ReleaseOrder, TypeOK
  <2>4. LitresOf(loads'[o]) = releasing[o]
    BY <2>2, <2>3, DeclaredLitres
  <2> QED
    BY <1>1, <2>1, <2>3, <2>4 DEF StaleRelease
<1>12. ASSUME NEW x \in Orders, NEW again \in SUBSET Trucks(x),
              NEW fresh, fresh = <<>> \/ (fresh = <<fresh[1]>> /\ fresh[1] \in Nat), NEW place \in Nat,
              GenerateTickets(x, again, fresh, place)
       PROVE  FALSE
  <2>1. x = o
    BY <1>2, <1>12 DEF GenerateTickets, TypeOK
  <2>2. LitresOf(loads'[x]) <= qty[x]
    BY <1>12, TicketedLitres
  <2>3. qty' = qty
    BY <1>12 DEF GenerateTickets
  <2> QED
    BY <1>1, <2>1, <2>2, <2>3
<1>13. ASSUME NEW x \in Orders, NEW i \in Trucks(x),
              MarkTruckLoaded(x, i) \/ GateInTruck(x, i) \/ GateOutTruck(x, i)
       PROVE  FALSE
  <2>1. qty' = qty /\ \A y \in Orders \ {x} : loads'[y] = loads[y]
    BY <1>13 DEF MarkTruckLoaded, GateInTruck, GateOutTruck, TypeOK
  <2>2. LitresOf(loads'[x]) = LitresOf(loads[x])
    BY <1>13, DeskRewrites, RewrittenLitres
  <2> QED
    BY <1>2, <2>1, <2>2
<1>14. ASSUME NEW x \in Orders, NEW i \in Trucks(x), NEW q \in Nat, UpdateTruckLoad(x, i, q)
       PROVE  FALSE
  <2>1. x = o /\ qty' = qty
    BY <1>2, <1>14 DEF UpdateTruckLoad, TypeOK
  <2>2. LitresOf(loads'[x]) <= qty[x]
    BY <1>14, CorrectedLitres
  <2> QED
    BY <1>1, <2>1, <2>2
<1>15. ASSUME NEW x \in Orders, NEW q, GateInUndeclared(x, q)
       PROVE  FALSE
  BY <1>2, <1>15 DEF GateInUndeclared, TypeOK
<1>16. ASSUME NEW target \in Orders, NEW source \in Orders, MergeOrders(target, source)
       PROVE  \E s \in Orders : Overfull(s) /\ MergeOrders(o, s)
  <2>1. target = o
    <3>1. /\ target # source
          /\ \A x \in Orders \ {target, source} : loads'[x] = loads[x] /\ qty'[x] = qty[x]
          /\ loads'[source] = <<>>
      BY <1>16 DEF MergeOrders, TypeOK
    <3> QED
      BY <1>2, <1>3, <3>1
  <2>2. LitresOf(loads'[o]) = LitresOf(loads[o]) + LitresOf(loads[source])
    BY <1>16, <2>1, MergedLitres
  <2>3. qty'[o] = qty[o] + qty[source]
    BY <1>16, <2>1 DEF MergeOrders, TypeOK
  <2>4. LitresOf(loads[source]) \in Nat /\ qty[source] \in Nat
    BY LitresAreNat
  <2>5. Overfull(source)
    BY <1>1, <2>2, <2>3, <2>4 DEF Overfull
  <2> QED
    BY <1>16, <2>1, <2>5
<1>17. CASE UNCHANGED vars
  BY <1>2, <1>17 DEF vars
<1>18. ASSUME NEW x \in Orders, NEW again \in SUBSET Trucks(x), GenerateTickets(x, again, <<>>, 0)
       PROVE  FALSE
  <2>1. 0 \in Nat
    OBVIOUS
  <2> QED
    BY <1>12, <1>18, <2>1
<1>19. ASSUME NEW x \in Orders, NEW again \in SUBSET Trucks(x), NEW q \in Truckloads,
              NEW place \in 1..Cardinality(again) + 1, GenerateTickets(x, again, <<q>>, place)
       PROVE  FALSE
  <2>1. place \in Nat
    BY PlaceType
  <2>2. q \in Nat /\ <<q>> = <<<<q>>[1]>> /\ <<q>>[1] = q
    OBVIOUS
  <2> QED
    BY <1>12, <1>19, <2>1, <2>2
<1>20. Truckloads \subseteq Nat
  OBVIOUS
<1> QED
  BY <1>4, <1>5, <1>6, <1>7, <1>8, <1>9, <1>10, <1>11, <1>18, <1>19, <1>13, <1>14, <1>15, <1>16,
     <1>17, <1>20 DEF Next

(* A delivery order's trucks come to carry more than the order only from a *)
(* release that added them up against another quantity, or from a merge    *)
(* with an order to which that had happened.                               *)
THEOREM OverfullIsStale == Spec => OverfullOnlyByStaleRelease
<1>1. Init => TypeOK /\ PendingEmpty
  BY InitType DEF Init, PendingEmpty
<1>2. TypeOK /\ PendingEmpty /\ [Next]_vars => (TypeOK /\ PendingEmpty)'
  BY StepType, StepPendingEmpty
<1>3. TypeOK /\ PendingEmpty /\ [Next]_vars
        => [\A o \in Orders \ Pickup : ~Overfull(o) /\ Overfull(o)' =>
              \/ loads[o] = <<>> /\ LitresOf(loads'[o]) = releasing[o] /\ releasing[o] # qty[o]
              \/ \E source \in Orders : Overfull(source) /\ MergeOrders(o, source)]_vars
  BY StepOverfills DEF StaleRelease
<1> QED
  BY <1>1, <1>2, <1>3, PTL DEF Spec, OverfullOnlyByStaleRelease

=============================================================================
