------------------------------ MODULE Commissions -------------------------------
(***************************************************************************)
(* Commissions on one product at one depot: raised and enlarged as an      *)
(* order is paid for, repriced when the rate of the depot or of the        *)
(* customer changes, settled and reopened by the desk.  No handler takes a *)
(* lock and every update names a row by its id alone, so each handler is a *)
(* read and a later write.                                                 *)
(***************************************************************************)
EXTENDS Integers, FiniteSets

CONSTANTS
  Orders, Customers,
  CustomerOf,      \* [Orders -> Customers]
  Coms,
  MaxLitres,       \* a bound: litres an order can be paid for
  DepotRates,
  AgreedRates,
  Handlers

NoRate == -1
ASSUME CommissionsAssumption ==
  /\ MaxLitres \in Nat /\ DepotRates \subseteq Nat /\ AgreedRates \subseteq Nat
  /\ CustomerOf \in [Orders -> Customers] /\ "none" \notin Orders \cup Coms

VARIABLES
  litres,          \* what commission of an order is due on (commissionQuantity)
  com,             \* commissions
  depotRate,       \* depot_product_commissions; 0 stands for no rate as well
  agreed,          \* customers.commission_rate
  task,
  twice,           \* orders a commission of which was created by two handlers at once
  loose            \* rows no reprice has reached since they were last written or reopened unpriced

comVars == <<litres, com, depotRate, agreed, task, twice, loose>>

-----------------------------------------------------------------------------
NoCom == [ord |-> "none", qty |-> 0, rate |-> 0, src |-> "none", st |-> "none"]
NoTask == [at |-> "idle", ord |-> "none", row |-> "none", saw |-> "none", rows |-> {},
          qty |-> 0, depot |-> 0, own |-> NoRate, cust |-> "none"]
Raised(c)  == com[c].st # "none"
Priced(depot, own) ==
  IF depot = 0 THEN [rate |-> 0, src |-> "depot_product"]
  ELSE IF own # NoRate THEN [rate |-> own, src |-> "customer"]
  ELSE [rate |-> depot, src |-> "depot_product"]
Own(o)       == agreed[CustomerOf[o]]
Resolved(o)  == Priced(depotRate, Own(o))
PriceOf(c)   == [rate |-> com[c].rate, src |-> com[c].src]
Pending      == {c \in Coms : com[c].st = "pending"}
OfCustomer(k) == {c \in Coms : Raised(c) /\ CustomerOf[com[c].ord] = k}
TaskAt(h, at) == task[h].at = at
Takes(h, j) == task[h] = NoTask /\ task' = [task EXCEPT ![h] = j]
Becomes(h, j)   == task' = [task EXCEPT ![h] = j]
Leaves(h)      == task' = [task EXCEPT ![h] = NoTask]
Queued(h)    == {q.row : q \in task[h].rows}
WasRead(h, c) == (CHOOSE q \in task[h].rows : q.row = c).was
OwnRead(h, c) == (CHOOSE q \in task[h].rows : q.row = c).own
Done(j, c)   == [j EXCEPT !.rows = {q \in @ : q.row # c}]
Kept == <<litres, depotRate, agreed>>

InitCommissions ==
  /\ litres = [o \in Orders |-> 0]
  /\ com = [c \in Coms |-> NoCom]
  /\ depotRate \in DepotRates
  /\ agreed = [k \in Customers |-> NoRate]
  /\ task = [h \in Handlers |-> NoTask]
  /\ twice = {} /\ loose = {}

-----------------------------------------------------------------------------
(* A payment, its reversal or a correction moves what the order is paid    *)
(* for; the effects that follow a payment run createForOrder, and so does  *)
(* finance's reconcile, whenever it likes.                                 *)
Pay(o) == /\ litres[o] < MaxLitres /\ litres' = [litres EXCEPT ![o] = @ + 1]
          /\ UNCHANGED <<com, depotRate, agreed, task, twice, loose>>

(* createForOrder: reads the row, the litres and the rate.                 *)
NeverPaid(c) == FALSE
IsPaid(c)   == com[c].st = "paid"
Existing(o)  == {c \in Coms : com[c].ord = o}
ReadForOrder(h, o) ==
  LET read == [NoTask EXCEPT !.at = "creating", !.ord = o, !.qty = litres[o],
                            !.depot = depotRate, !.own = Own(o)]
      price == Resolved(o)
  IN /\ litres[o] > 0
     /\ \/ Existing(o) = {} /\ Takes(h, read)
        \/ \E c \in Existing(o) :
             /\ ~IsPaid(c) /\ price.rate > 0
             /\ <<com[c].qty, PriceOf(c)>> # <<litres[o], price>>
             /\ Takes(h, [read EXCEPT !.row = c, !.saw = com[c].st])
     /\ UNCHANGED <<litres, com, depotRate, agreed, twice, loose>>

(* What a handler read of the rates is no longer so.                       *)
Outdated(h, o) == task[h].depot # depotRate \/ task[h].own # Own(o)
Loosened(h, c, o) == IF Outdated(h, o) THEN loose \cup {c} ELSE loose \ {c}
InsertCommission(h, c) ==
  LET j == task[h]
      price == Priced(j.depot, j.own)
      row == [ord |-> j.ord, qty |-> j.qty, rate |-> price.rate,
              src |-> IF price = [rate |-> 0, src |-> "depot_product"] THEN "none" ELSE price.src,
              st |-> IF price.rate > 0 THEN "pending" ELSE "skipped"]
  IN /\ TaskAt(h, "creating") /\ j.row = "none" /\ ~Raised(c)
     /\ com' = [com EXCEPT ![c] = row]
     /\ twice' = IF Existing(j.ord) = {} THEN twice ELSE twice \cup {j.ord}
     /\ loose' = Loosened(h, c, j.ord)
     /\ Leaves(h) /\ UNCHANGED Kept
Reprices(c, price) == [com EXCEPT ![c].rate = price.rate, ![c].src = price.src]
UpdateCommission(h) ==
  LET j == task[h]
  IN /\ TaskAt(h, "creating") /\ j.row # "none"
     /\ com' = [Reprices(j.row, Priced(j.depot, j.own)) EXCEPT ![j.row].qty = j.qty]
     /\ loose' = Loosened(h, j.row, j.ord)
     /\ Leaves(h) /\ UNCHANGED <<Kept, twice>>

-----------------------------------------------------------------------------
(* confirmPayment, skipCommission, revertToPending: each looks at the row, *)
(* then writes the status.                                                 *)
ReadToSettle(h, c, st) ==
  /\ \/ st = "paid" /\ com[c].st \in {"pending", "skipped"} /\ com[c].rate > 0
     \/ st = "skipped" /\ com[c].st = "pending"
     \/ st = "pending" /\ com[c].st \in {"paid", "skipped"}
  /\ Takes(h, [NoTask EXCEPT !.at = st, !.row = c, !.saw = com[c].st])
  /\ UNCHANGED <<litres, com, depotRate, agreed, twice, loose>>
WriteStatus(h) ==
  LET j == task[h]
  IN /\ j.at \in {"paid", "skipped", "pending"}
     /\ com' = [com EXCEPT ![j.row].st = j.at]
     /\ loose' = IF j.at = "pending" THEN loose \cup {j.row} ELSE loose
     /\ Leaves(h) /\ UNCHANGED <<Kept, twice>>

-----------------------------------------------------------------------------
(* upsertRate saves the depot's rate and recomputeForRate follows it: the  *)
(* pending rows, the rate, and which of their customers have an agreement, *)
(* then an update a row.  The rows of those customers are left out, and so *)
(* are unpriced when the depot opens or closes.                            *)
Opens(r) == (r = 0) # (depotRate = 0)
SetDepotRate(h, r) ==
  /\ r # depotRate
  /\ depotRate' = r
  /\ loose' = IF Opens(r) THEN loose \cup {c \in Coms : Raised(c) /\ Own(com[c].ord) # NoRate} ELSE loose
  /\ Takes(h, [NoTask EXCEPT !.at = "saved"])
  /\ UNCHANGED <<litres, com, agreed, twice>>
NoAgreement(c) == FALSE
OwnRate(c) == Own(com[c].ord) # NoRate
AsRead(queue) == {[row |-> c, was |-> PriceOf(c), own |-> Own(com[c].ord)] : c \in queue}
ReadDepotQueue(h) ==
  LET queue == {c \in Pending : ~OwnRate(c) /\ PriceOf(c) # Priced(depotRate, NoRate)}
  IN /\ TaskAt(h, "saved")
     /\ Becomes(h, [NoTask EXCEPT !.at = "repricing", !.rows = AsRead(queue), !.depot = depotRate])
     /\ UNCHANGED <<litres, com, depotRate, agreed, twice, loose>>
(* A row whose customer came to an agreement, or left one, since it was    *)
(* read is repriced as it was read.                                        *)
RepriceForDepot(h, c) ==
  LET j == task[h]
  IN /\ TaskAt(h, "repricing") /\ c \in Queued(h)
     /\ com' = Reprices(c, Priced(j.depot, NoRate))
     /\ loose' = IF j.depot # depotRate \/ OwnRead(h, c) # Own(com[c].ord) THEN loose \cup {c} ELSE loose \ {c}
     /\ Becomes(h, Done(j, c))
     /\ UNCHANGED <<Kept, twice>>

(* setCustomerRate and recomputeForCustomer: the customer and its pending  *)
(* rows are read, and the depot's rate again for each row.                 *)
SetCustomerRate(h, k, r) ==
  /\ r # agreed[k]
  /\ agreed' = [agreed EXCEPT ![k] = r]
  /\ Takes(h, [NoTask EXCEPT !.at = "agreed", !.cust = k])
  /\ UNCHANGED <<litres, com, depotRate, twice, loose>>
ReadCustomerQueue(h) ==
  LET k == task[h].cust
  IN /\ TaskAt(h, "agreed")
     /\ Becomes(h, [NoTask EXCEPT !.at = "sweeping", !.rows = AsRead(Pending \cap OfCustomer(k)),
                              !.own = agreed[k], !.cust = k])
     /\ UNCHANGED <<litres, com, depotRate, agreed, twice, loose>>
RepriceForCustomer(h, c) ==
  LET j == task[h]
      price == Priced(depotRate, j.own)
  IN /\ TaskAt(h, "sweeping") /\ c \in Queued(h)
     /\ IF WasRead(h, c) = price THEN UNCHANGED <<com, loose>>
        ELSE /\ com' = Reprices(c, price)
             /\ loose' = IF j.own # Own(com[c].ord) THEN loose \cup {c} ELSE loose \ {c}
     /\ Becomes(h, Done(j, c))
     /\ UNCHANGED <<Kept, twice>>
EndReprice(h) ==
  /\ task[h].at \in {"repricing", "sweeping"} /\ task[h].rows = {}
  /\ Leaves(h)
  /\ UNCHANGED <<litres, com, depotRate, agreed, twice, loose>>

(* The process stops; the rows still to be repriced keep their price.      *)
Unreached(h) == IF task[h].at \in {"saved", "agreed"} THEN Coms ELSE Queued(h)
StopTask(h) ==
  /\ task[h] # NoTask
  /\ loose' = loose \cup {c \in Unreached(h) : Raised(c)}
  /\ Leaves(h)
  /\ UNCHANGED <<litres, com, depotRate, agreed, twice>>

NextCommissions ==
  \/ \E o \in Orders : Pay(o)
  \/ \E h \in Handlers :
       \/ \E o \in Orders : ReadForOrder(h, o)
       \/ \E c \in Coms : \/ InsertCommission(h, c) \/ RepriceForDepot(h, c) \/ RepriceForCustomer(h, c)
                          \/ \E st \in {"paid", "skipped", "pending"} : ReadToSettle(h, c, st)
       \/ \E r \in DepotRates : SetDepotRate(h, r)
       \/ \E k \in Customers, r \in AgreedRates \cup {NoRate} : SetCustomerRate(h, k, r)
       \/ UpdateCommission(h) \/ WriteStatus(h) \/ ReadDepotQueue(h) \/ ReadCustomerQueue(h)
       \/ EndReprice(h) \/ StopTask(h)

SpecCommissions == InitCommissions /\ [][NextCommissions]_comVars

-----------------------------------------------------------------------------
(* Properties.                                                             *)
TypeOKCommissions ==
  /\ litres \in [Orders -> 0..MaxLitres]
  /\ com \in [Coms -> {NoCom} \cup
        [ord: Orders, qty: 1..MaxLitres, rate: {0} \cup DepotRates \cup AgreedRates,
         src: {"none", "depot_product", "customer"}, st: {"pending", "paid", "skipped"}]]
  /\ depotRate \in DepotRates /\ agreed \in [Customers -> AgreedRates \cup {NoRate}]
  /\ twice \subseteq Orders /\ loose \subseteq Coms

(* "A paid commission settled at the rate in force when it was paid": what *)
(* was paid changes, in its status or its figures, only when the desk      *)
(* reverts it, or by a handler that read it before it was paid.            *)
PaidIsHistory ==
  [][\A c \in Coms : com[c].st = "paid" /\ com'[c] # com[c] =>
       \E h \in Handlers :
         \/ task[h].row = c /\ (task[h].at = "pending" \/ task[h].saw # "paid")
         \/ c \in Queued(h)]_comVars

(* The commission of an order "no-ops if it already exists": an order has  *)
(* one, unless two handlers created it at once.                            *)
OneCommission == \A o \in Orders \ twice : Cardinality({c \in Coms : com[c].ord = o}) <= 1

(* The queue is priced as a new order would be, once nobody is working on  *)
(* it: "sharing the resolver is what stops the sweep and the create path   *)
(* ever disagreeing about a price".  Coms that were reopened, written from *)
(* rates that had changed, never reached, or belong to a customer with an  *)
(* agreement while the depot opened or closed, are the exceptions.         *)
Idle == \A h \in Handlers : task[h] = NoTask
QueueIsPriced ==
  Idle => \A c \in Pending \ loose : PriceOf(c) = Resolved(com[c].ord)

(* An order's commission is one, and waits at the price of today.          *)
CommissionsHold == TypeOKCommissions /\ OneCommission /\ QueueIsPriced

(* "Depots that pay nobody, where an agreed rate must NOT apply."          *)
ClosedDepotOwesNothing == Idle /\ depotRate = 0 => \A c \in Pending : com[c].rate = 0
================================================================================
