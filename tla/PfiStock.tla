-------------------------------- MODULE PfiStock --------------------------------
(***************************************************************************)
(* The litres of a PFI (a cargo that is sold by the litre): the counter    *)
(* pfis.sold_qty_litres, the allocation rows by which orders hold litres,  *)
(* and the stock movement a ticketed order leaves.  An action is one       *)
(* database transaction; an operation that reads before it holds the lock  *)
(* that protects what it read is split there, and plan, assigning and      *)
(* deleting hold what it carries across.                                   *)
(***************************************************************************)
EXTENDS Integers, FiniteSets, Functions

CONSTANTS
  Orders,          \* order ids
  Pfis,            \* PFI ids
  Finds,           \* ids of evacuation surplus entries
  Quantities,      \* the litres an order is placed for or edited to
  Tanks,           \* the starting quantities a PFI is given
  TypedStatus,     \* the statuses, and ...
  TypedSold,       \* ... the sold figures typed into the edit form
  FindLitres,      \* the litres an evacuation surplus is recorded for
  NoPfi

ASSUME StockAssumption ==
  /\ IsFiniteSet(Orders) /\ IsFiniteSet(Pfis) /\ IsFiniteSet(Finds)
  /\ NoPfi \notin Pfis
  /\ Quantities \subseteq Nat \ {0}
  /\ Tanks \subseteq Nat
  /\ TypedStatus \subseteq {"not_started", "active", "finished"}
  /\ TypedSold \subseteq Nat
  /\ FindLitres \subseteq Nat \ {0}

VARIABLES
  status,          \* orders.status as far as stock depends on it
  qty,             \* orders.quantity
  pfi,             \* orders.pfi_id
  held,            \* order_pfi_allocations: litres by order and PFI
  moved,           \* the PFI of the order's RELEASE row in pfi_movements
  merged,          \* the orders of some merge, survivors included
  pstatus,         \* pfis.status
  tank,            \* pfis.starting_qty_litres
  found,           \* pfis.evacuation_surplus_litres
  find,            \* pfi_evacuation_surpluses
  sold,            \* pfis.sold_qty_litres
  plan,            \* what a placing has been offered by findPfiForOrder
  assigning,       \* what a bulk assignment has read of an order
  deleting,        \* the allocation rows a deletion has read
  activating       \* the PFIs an activation has found not started

orderVars  == <<status, qty, pfi, held, moved, merged>>
pfiVars    == <<pstatus, tank, found, find, sold>>
flightVars == <<plan, assigning, deleting, activating>>
vars == <<orderVars, pfiVars, flightVars>>

-----------------------------------------------------------------------------
(* Pending stands for Pending and Paid, Rolling for Loading and Completed, *)
(* Dead for Cancelled and Expired: stock treats the members of each alike. *)
PfiStatus   == {"not_started", "active", "finished"}
OrderStatus == {"Absent", "Pending", "Released", "Rolling", "Dead", "Deleted"}
Exists(o) == status[o] \notin {"Absent", "Deleted"}
Lives(o)  == status[o] \in {"Pending", "Released", "Rolling"}

(* Amounts of litres, one per PFI.                                         *)
Litres     == [Pfis -> Nat]
Nothing    == [p \in Pfis |-> 0]
Only(p, q) == [x \in Pfis |-> IF x = p THEN q ELSE 0]
Plus(a, b) == [p \in Pfis |-> a[p] + b[p]]
Total(a)   == SumFunctionOnSet(a, Pfis)

Stock(p)    == tank[p] + found[p]
Sellable(p) == IF Stock(p) > sold[p] THEN Stock(p) - sold[p] ELSE 0

(* releaseStock: litres come off the counter, never below zero, and a      *)
(* finished PFI that has litres again trades again.                        *)
SoldAfterReturn(give) ==
  [p \in Pfis |-> IF sold[p] > give[p] THEN sold[p] - give[p] ELSE 0]
StatusAfterReturn(give) ==
  [p \in Pfis |-> IF give[p] > 0 /\ pstatus[p] = "finished" THEN "active" ELSE pstatus[p]]

(* reserveStock on each PFI of take: one guarded update, so an active PFI  *)
(* with the litres left, or the whole transaction rolls back.              *)
Reservable(take, s, st) ==
  \A p \in Pfis : take[p] > 0 => st[p] = "active" /\ s[p] + take[p] <= Stock(p)

(* markFinishedIfComplete on the PFIs of S.                                *)
StatusWhenSoldOut(S, s, st) ==
  [p \in Pfis |-> IF p \in S /\ s[p] >= Stock(p) THEN "finished" ELSE st[p]]

(* What an order gives back: its allocation rows or, if it has none, its   *)
(* whole quantity on the PFI it points at.                                 *)
GiveBack(from, q, rows) ==
  IF from = NoPfi THEN Nothing ELSE IF rows # Nothing THEN rows ELSE Only(from, q)

NoPlan   == [qty |-> 0, take |-> Nothing, pfi |-> NoPfi]
NoAssign == [to |-> NoPfi, from |-> NoPfi, qty |-> 0, rows |-> Nothing, moved |-> FALSE]
NoDelete == [open |-> FALSE, rows |-> Nothing]
NoFind   == [pfi |-> NoPfi, qty |-> 0, live |-> FALSE]

(* The type of every variable.                                             *)
TypeOK ==
  /\ status \in [Orders -> OrderStatus]
  /\ qty \in [Orders -> Nat]
  /\ pfi \in [Orders -> Pfis \cup {NoPfi}]
  /\ held \in [Orders -> Litres]
  /\ moved \in [Orders -> Pfis \cup {NoPfi}]
  /\ merged \subseteq Orders
  /\ pstatus \in [Pfis -> PfiStatus]
  /\ tank \in [Pfis -> Nat]
  /\ found \in [Pfis -> Int]
  /\ find \in [Finds -> [pfi: Pfis \cup {NoPfi}, qty: Nat, live: BOOLEAN]]
  /\ sold \in [Pfis -> Nat]
  /\ plan \in [Orders -> [qty: Nat, take: Litres, pfi: Pfis \cup {NoPfi}]]
  /\ assigning \in [Orders -> [to: Pfis \cup {NoPfi}, from: Pfis \cup {NoPfi}, qty: Nat,
                               rows: Litres, moved: BOOLEAN]]
  /\ deleting \in [Orders -> [open: BOOLEAN, rows: Litres]]
  /\ activating \subseteq Pfis

Init ==
  /\ status = [o \in Orders |-> "Absent"]
  /\ qty = [o \in Orders |-> 0]
  /\ pfi = [o \in Orders |-> NoPfi]
  /\ held = [o \in Orders |-> Nothing]
  /\ moved = [o \in Orders |-> NoPfi]
  /\ merged = {}
  /\ pstatus = [p \in Pfis |-> "not_started"]
  /\ tank \in [Pfis -> Tanks]
  /\ found = Nothing
  /\ find = [e \in Finds |-> NoFind]
  /\ sold = Nothing
  /\ plan = [o \in Orders |-> NoPlan]
  /\ assigning = [o \in Orders |-> NoAssign]
  /\ deleting = [o \in Orders |-> NoDelete]
  /\ activating = {}

-----------------------------------------------------------------------------
(* Placing an order.                                                       *)

(* findPfiForOrder fills greedily from the active PFIs, so it empties each *)
(* PFI it draws on but the last, and offers less than was asked for only   *)
(* when every one of them is empty.  In which order they are tried depends *)
(* on the depot.                                                           *)
Greedy(q, take) ==
  /\ \A p \in Pfis : take[p] <= IF pstatus[p] = "active" THEN Sellable(p) ELSE 0
  /\ Total(take) <= q
  /\ Cardinality({p \in Pfis : take[p] > 0 /\ take[p] < Sellable(p)}) <= 1
  /\ Total(take) < q => \A p \in Pfis : pstatus[p] = "active" => take[p] = Sellable(p)

(* The offer is read before the transaction; the first PFI of it becomes   *)
(* the order's own.                                                        *)
FindPfi(o, q, take, p) ==
  /\ status[o] = "Absent"
  /\ plan[o] = NoPlan
  /\ Greedy(q, take)
  /\ IF take = Nothing THEN p = NoPfi ELSE p # NoPfi /\ take[p] > 0
  /\ plan' = [plan EXCEPT ![o] = [qty |-> q, take |-> take, pfi |-> p]]
  /\ UNCHANGED <<orderVars, pfiVars, assigning, deleting, activating>>

(* An order whose ticket was written by hand is born Released.             *)
PlaceOrder(o, st) ==
  LET take == plan[o].take IN
  /\ plan[o] # NoPlan
  /\ Reservable(take, sold, pstatus)
  /\ sold' = Plus(sold, take)
  /\ pstatus' = StatusWhenSoldOut({p \in Pfis : take[p] > 0}, sold', pstatus)
  /\ held' = [held EXCEPT ![o] = take]
  /\ status' = [status EXCEPT ![o] = st]
  /\ qty' = [qty EXCEPT ![o] = plan[o].qty]
  /\ pfi' = [pfi EXCEPT ![o] = plan[o].pfi]
  /\ plan' = [plan EXCEPT ![o] = NoPlan]
  /\ UNCHANGED <<moved, merged, tank, found, find, assigning, deleting, activating>>

(* The stock is gone, or something else about the request fails.           *)
RefusePlace(o) ==
  /\ plan[o] # NoPlan
  /\ plan' = [plan EXCEPT ![o] = NoPlan]
  /\ UNCHANGED <<orderVars, pfiVars, assigning, deleting, activating>>

-----------------------------------------------------------------------------
(* An order on its way.                                                    *)

(* Payment, credit or the release screen.                                  *)
Release(o) ==
  /\ status[o] = "Pending"
  /\ status' = [status EXCEPT ![o] = "Released"]
  /\ UNCHANGED <<qty, pfi, held, moved, merged, pfiVars, flightVars>>

(* Ticket generation, the first time or again: the one RELEASE row of the  *)
(* order is inserted on the order's PFI; if it is there, only its litres   *)
(* change.                                                                 *)
GenerateTickets(o) ==
  /\ status[o] \in {"Released", "Rolling"}
  /\ status' = [status EXCEPT ![o] = "Rolling"]
  /\ moved' = [moved EXCEPT ![o] = IF @ = NoPfi THEN pfi[o] ELSE @]
  /\ UNCHANGED <<qty, pfi, held, merged, pfiVars, flightVars>>

(* A truck without tickets at the gate opens loading and moves no stock.   *)
GateIn(o) ==
  /\ status[o] = "Released"
  /\ status' = [status EXCEPT ![o] = "Rolling"]
  /\ UNCHANGED <<qty, pfi, held, moved, merged, pfiVars, flightVars>>

RowsKept(o) == held

(* releaseOrderResources deletes the rows it has given back.               *)
RowsDeleted(o) == IF pfi[o] = NoPfi THEN held ELSE [held EXCEPT ![o] = Nothing]

(* cancelOrder and expireOrder, both under the order's lock.               *)
EndOrder(o) ==
  LET give == GiveBack(pfi[o], qty[o], held[o]) IN
  /\ status[o] \in {"Pending", "Released"}
  /\ status' = [status EXCEPT ![o] = "Dead"]
  /\ sold' = SoldAfterReturn(give)
  /\ pstatus' = StatusAfterReturn(give)
  /\ held' = RowsDeleted(o)
  /\ UNCHANGED <<qty, pfi, moved, merged, tank, found, find, flightVars>>

(* The rows of an order after it has given back what it held under from    *)
(* and reserved q litres on to.                                            *)
RowsAfterMove(o, from, to, q) ==
  LET kept == IF from = NoPfi THEN held[o] ELSE Nothing IN
  IF to = NoPfi THEN kept ELSE Plus(kept, Only(to, q))

(* The unique index on (order, PFI) refuses a second row on the new PFI.   *)
RowFree(o, from, to) == from = NoPfi /\ to # NoPfi => held[o][to] = 0

MovementForgotten(o, to) == moved

(* The movements of an order travel with it.                               *)
MovementAfterMove(o, to) ==
  [moved EXCEPT ![o] = IF @ = NoPfi THEN NoPfi ELSE to]

(* The part of updateOrder that changes quantity or PFI: give back, then   *)
(* reserve.  An order that has moved stock cannot be left without a PFI.   *)
UpdateOrder(o, q, to) ==
  LET give  == GiveBack(pfi[o], qty[o], held[o])
      take  == IF to = NoPfi THEN Nothing ELSE Only(to, q)
      after == SoldAfterReturn(give)
      st    == StatusAfterReturn(give) IN
  /\ Lives(o)
  /\ q # qty[o] \/ to # pfi[o]
  /\ q # qty[o] => status[o] = "Pending"
  /\ to = NoPfi => to = pfi[o] \/ moved[o] = NoPfi
  /\ Reservable(take, after, st)
  /\ RowFree(o, pfi[o], to)
  /\ sold' = Plus(after, take)
  /\ pstatus' = StatusWhenSoldOut(IF to # pfi[o] THEN {to} ELSE {}, sold', st)
  /\ held' = [held EXCEPT ![o] = RowsAfterMove(o, pfi[o], to, q)]
  /\ moved' = IF to # pfi[o] THEN MovementAfterMove(o, to) ELSE moved
  /\ pfi' = [pfi EXCEPT ![o] = to]
  /\ qty' = [qty EXCEPT ![o] = q]
  /\ UNCHANGED <<status, merged, tank, found, find, flightVars>>

-----------------------------------------------------------------------------
(* Merging.                                                                *)

(* An order from before allocation rows holds its quantity on its PFI; the *)
(* merge writes that out as a row first.                                   *)
RowsForMerge(o) ==
  IF pfi[o] # NoPfi /\ held[o] = Nothing THEN Only(pfi[o], qty[o]) ELSE held[o]

CombinedStatus(s1, s2) ==
  IF "Rolling" \in {s1, s2} THEN "Rolling"
  ELSE IF "Released" \in {s1, s2} THEN "Released" ELSE "Pending"

(* One order folded into another.  Orders whose movements name different   *)
(* PFIs cannot be merged.                                                  *)
MergeOrders(target, source) ==
  /\ target # source
  /\ Lives(target) /\ Lives(source)
  /\ pfi[target] = pfi[source]
  /\ moved[target] = moved[source] \/ NoPfi \in {moved[target], moved[source]}
  /\ status' = [status EXCEPT ![target] = CombinedStatus(status[target], status[source]),
                             ![source] = "Dead"]
  /\ qty' = [qty EXCEPT ![target] = @ + qty[source]]
  /\ held' = [held EXCEPT ![target] = Plus(RowsForMerge(target), RowsForMerge(source)),
                         ![source] = Nothing]
  /\ moved' = [moved EXCEPT ![target] = IF @ = NoPfi THEN moved[source] ELSE @,
                           ![source] = NoPfi]
  /\ merged' = merged \cup {target, source}
  /\ UNCHANGED <<pfi, pfiVars, flightVars>>

-----------------------------------------------------------------------------
(* Bulk assignment, which locks no order and asks for no order status.     *)

(* The order, and in the transaction its allocation rows, are read ...     *)
BeginAssign(o, to) ==
  /\ Exists(o)
  /\ assigning[o] = NoAssign
  /\ pstatus[to] = "active"
  /\ pfi[o] # to
  /\ assigning' = [assigning EXCEPT ![o] =
       [to |-> to, from |-> pfi[o], qty |-> qty[o], rows |-> held[o], moved |-> moved[o] # NoPfi]]
  /\ UNCHANGED <<orderVars, pfiVars, plan, deleting, activating>>

AssignGives(o) == GiveBack(assigning[o].from, assigning[o].qty, assigning[o].rows)

(* ... and what was read then is given back, whatever has become of the    *)
(* order.  Its movements are repointed before the order row is written, so *)
(* one inserted in between may be missed.                                  *)
CommitAssign(o) ==
  LET a     == assigning[o]
      take  == Only(a.to, a.qty)
      after == SoldAfterReturn(AssignGives(o))
      st    == StatusAfterReturn(AssignGives(o)) IN
  /\ a # NoAssign
  /\ Exists(o)
  /\ Reservable(take, after, st)
  /\ RowFree(o, a.from, a.to)
  /\ sold' = Plus(after, take)
  /\ pstatus' = StatusWhenSoldOut({a.to}, sold', st)
  /\ held' = [held EXCEPT ![o] = RowsAfterMove(o, a.from, a.to, a.qty)]
  /\ \E seen \in {a.moved, moved[o] # NoPfi} :
       moved' = IF seen THEN MovementAfterMove(o, a.to) ELSE moved
  /\ pfi' = [pfi EXCEPT ![o] = a.to]
  /\ assigning' = [assigning EXCEPT ![o] = NoAssign]
  /\ UNCHANGED <<status, qty, merged, tank, found, find, plan, deleting, activating>>

RefuseAssign(o) ==
  /\ assigning[o] # NoAssign
  /\ assigning' = [assigning EXCEPT ![o] = NoAssign]
  /\ UNCHANGED <<orderVars, pfiVars, plan, deleting, activating>>

-----------------------------------------------------------------------------
(* Deleting an order: its rows are read without its lock ...               *)

BeginDelete(o) ==
  /\ Exists(o)
  /\ ~deleting[o].open
  /\ deleting' = [deleting EXCEPT ![o] = [open |-> TRUE, rows |-> held[o]]]
  /\ UNCHANGED <<orderVars, pfiVars, plan, assigning, activating>>

(* ... and given back.  Rows and movements go with the order; an order of  *)
(* a merge cannot be deleted.                                              *)
CommitDelete(o) ==
  /\ deleting[o].open
  /\ Exists(o)
  /\ o \notin merged
  /\ sold' = SoldAfterReturn(deleting[o].rows)
  /\ pstatus' = StatusAfterReturn(deleting[o].rows)
  /\ status' = [status EXCEPT ![o] = "Deleted"]
  /\ qty' = [qty EXCEPT ![o] = 0]
  /\ pfi' = [pfi EXCEPT ![o] = NoPfi]
  /\ held' = [held EXCEPT ![o] = Nothing]
  /\ moved' = [moved EXCEPT ![o] = NoPfi]
  /\ deleting' = [deleting EXCEPT ![o] = NoDelete]
  /\ UNCHANGED <<merged, tank, found, find, plan, assigning, activating>>

RefuseDelete(o) ==
  /\ deleting[o].open
  /\ deleting' = [deleting EXCEPT ![o] = NoDelete]
  /\ UNCHANGED <<orderVars, pfiVars, plan, assigning, activating>>

-----------------------------------------------------------------------------
(* The PFI itself.                                                         *)

(* Activation reads the status before its transaction ...                  *)
BeginActivate(p) ==
  /\ pstatus[p] = "not_started"
  /\ activating' = activating \cup {p}
  /\ UNCHANGED <<orderVars, pfiVars, plan, assigning, deleting>>

(* ... which writes the new one whatever the old has become.               *)
Activate(p) ==
  /\ p \in activating
  /\ activating' = activating \ {p}
  /\ pstatus' = [pstatus EXCEPT ![p] = "active"]
  /\ UNCHANGED <<orderVars, tank, found, find, sold, plan, assigning, deleting>>

(* Closed by the desk, with or without litres left.                        *)
FinishPfi(p) ==
  /\ pstatus[p] # "finished"
  /\ pstatus' = [pstatus EXCEPT ![p] = "finished"]
  /\ UNCHANGED <<orderVars, tank, found, find, sold, flightVars>>

(* The edit form writes whatever it is given: any status, the quantity it  *)
(* started with, and the sold figure itself.                               *)
UpdatePfi(p, st, t, s) ==
  /\ pstatus' = [pstatus EXCEPT ![p] = st]
  /\ tank' = [tank EXCEPT ![p] = t]
  /\ sold' = [sold EXCEPT ![p] = s]
  /\ <<pstatus', tank', sold'>> # <<pstatus, tank, sold>>
  /\ UNCHANGED <<orderVars, found, find, flightVars>>

Typed(p) ==
  \E st \in TypedStatus \cup {pstatus[p]}, t \in Tanks \cup {tank[p]}, s \in TypedSold \cup {sold[p]} :
    UpdatePfi(p, st, t, s)

RecordSurplus(e, p, q) ==
  /\ find[e] = NoFind
  /\ pstatus[p] # "not_started"
  /\ find' = [find EXCEPT ![e] = [pfi |-> p, qty |-> q, live |-> TRUE]]
  /\ found' = [found EXCEPT ![p] = @ + q]
  /\ pstatus' = [pstatus EXCEPT ![p] = "active"]
  /\ UNCHANGED <<orderVars, tank, sold, flightVars>>

LitresLeft(p, q) == sold[p] <= Stock(p)

(* Taken back once, and only while none of it is on an order.              *)
StillUnsold(p, q) == sold[p] <= Stock(p) - q

EverRecorded(e) == find[e] # NoFind
Standing(e)     == find[e].live

VoidSurplus(e) ==
  LET p == find[e].pfi  q == find[e].qty IN
  /\ Standing(e)
  /\ StillUnsold(p, q)
  /\ find' = [find EXCEPT ![e].live = FALSE]
  /\ found' = [found EXCEPT ![p] = @ - q]
  /\ pstatus' = [pstatus EXCEPT ![p] =
       IF @ = "active" /\ sold[p] >= Stock(p) - q THEN "finished" ELSE @]
  /\ UNCHANGED <<orderVars, tank, sold, flightVars>>

-----------------------------------------------------------------------------
Next ==
  \/ \E o \in Orders, q \in Quantities, p \in Pfis \cup {NoPfi} :
       \E take \in [Pfis -> 0..q] : FindPfi(o, q, take, p)
  \/ \E o \in Orders, st \in {"Pending", "Released"} : PlaceOrder(o, st)
  \/ \E o \in Orders : \/ RefusePlace(o) \/ Release(o) \/ GenerateTickets(o) \/ GateIn(o)
                       \/ EndOrder(o) \/ CommitAssign(o) \/ RefuseAssign(o)
                       \/ BeginDelete(o) \/ CommitDelete(o) \/ RefuseDelete(o)
  \/ \E o \in Orders, to \in Pfis \cup {NoPfi} :
       \E q \in Quantities \cup {qty[o]} : UpdateOrder(o, q, to)
  \/ \E target, source \in Orders : MergeOrders(target, source)
  \/ \E o \in Orders, to \in Pfis : BeginAssign(o, to)
  \/ \E p \in Pfis : BeginActivate(p) \/ Activate(p) \/ FinishPfi(p)
  \/ \E p \in Pfis : Typed(p)
  \/ \E e \in Finds, p \in Pfis, q \in FindLitres : RecordSurplus(e, p, q)
  \/ \E e \in Finds : VoidSurplus(e)

Spec == Init /\ [][Next]_vars

-----------------------------------------------------------------------------
(* Properties.                                                             *)

(* A PFI has at least the litres on its orders: whatever happens between   *)
(* an offer and its reservation, between reading rows and giving them back *)
(* or to a surplus found and taken back, only somebody typing over the     *)
(* tank or the sold figure makes a PFI oversold.                           *)
Oversold(p) == sold[p] > Stock(p)
OversoldOnlyByTyping == [][\A p \in Pfis : ~Oversold(p) /\ Oversold(p)' => Typed(p)]_vars

(* The litres orders hold on a PFI, and how far its counter is off them.   *)
HeldOn(p) == SumFunctionOnSet([o \in Orders |-> held[o][p]], Orders)
Drift(p)  == sold[p] - HeldOn(p)

(* What an assignment or a deletion that ends in this step gives back is   *)
(* not what the order holds now.                                           *)
GivesBackStale(p) ==
  \E o \in Orders :
    \/ assigning[o] # NoAssign /\ assigning'[o] = NoAssign /\ AssignGives(o)[p] # held[o][p]
    \/ deleting[o].open /\ ~deleting'[o].open /\ deleting[o].rows[p] # held[o][p]

(* A sold counter that equals the allocation rows stays equal to them      *)
(* through placing, splitting over PFIs, editing, moving, merging, ending  *)
(* and deleting orders; only an unlocked assignment or deletion that gives *)
(* back what it read earlier, or a typed figure, moves it off.             *)
CounterDriftsOnlyByStale ==
  [][\A p \in Pfis : Drift(p) = 0 /\ Drift(p)' # 0 => GivesBackStale(p) \/ Typed(p)]_vars

(* An order's reservation is in order when a dead one holds nothing, a     *)
(* live one no more than it is for and nothing without a PFI, and the      *)
(* litres it has moved are recorded on the PFI it is on.                   *)
Sound(o) ==
  /\ status[o] \in {"Absent", "Dead", "Deleted"} => held[o] = Nothing
  /\ Lives(o) => Total(held[o]) <= qty[o]
  /\ Lives(o) /\ pfi[o] = NoPfi => held[o] = Nothing
  /\ moved[o] \in {NoPfi, pfi[o]}

(* Every operation but the end of a bulk assignment keeps the              *)
(* reservations of all orders in order.                                    *)
AllSound == \A o \in Orders : Sound(o)
SoundButForAssign ==
  [][AllSound /\ ~AllSound' => \E o \in Orders : assigning[o] # NoAssign /\ assigning'[o] = NoAssign]_vars

(* The surplus a PFI sells from is the sum of the entries not taken back.  *)
FoundIsEntries ==
  \A p \in Pfis : found[p] = SumFunctionOnSet([e \in Finds |-> find[e].qty],
                                              {e \in Finds : find[e].pfi = p /\ find[e].live})

(* What a comment of updateOrder says: a cancelled or expired order has    *)
(* given its litres back, and moving it must not consume another PFI's.    *)
DeadHoldsNothing == \A o \in Orders : status[o] = "Dead" => held[o] = Nothing

=============================================================================
