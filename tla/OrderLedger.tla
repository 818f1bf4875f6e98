----------------------------- MODULE OrderLedger -----------------------------
(***************************************************************************)
(* The money on an order: bank statement lines claimed for it, payment     *)
(* rows, surplus moved between orders, refunds, merges, and the order      *)
(* statuses that payment drives.  One action is one database transaction,  *)
(* except where the code reads before it holds the lock that would protect *)
(* what it read: those operations are split at that point, and the variables *)
(* stale, confirming, removing, asking, reversing hold what is carried     *)
(* across.                                                                 *)
(***************************************************************************)
EXTENDS Integers, FiniteSets, Functions

CONSTANTS
  Orders,          \* order ids
  Lines,           \* bank statement lines
  Transfers,       \* ids of surplus transfers
  Refunds,         \* ids of refund requests and of skips
  LineAmount,      \* the credit each line carries
  Prices,          \* the order values that are placed, set and edited
  PfiOf,           \* the PFI each order draws on
  DesklessPfis,    \* PFIs with no loading desk (gantry, delivery)
  TransferPfi,     \* the one PFI whose orders may exchange surplus
  MaxSurplus,      \* bounds the sums a transfer or a refund is asked for
  NoOrder

ASSUME LedgerAssumption ==
  /\ IsFiniteSet(Orders) /\ IsFiniteSet(Lines)
  /\ LineAmount \in [Lines -> Nat \ {0}]
  /\ Prices \subseteq Nat \ {0}
  /\ DOMAIN PfiOf = Orders
  /\ NoOrder \notin Orders
  /\ MaxSurplus \in Nat

VARIABLES
  status,          \* orders.status, "Absent" before and "Deleted" after the row
  total,           \* orders.total_amount
  priced,          \* orders.pricing_status = 'priced'
  credit,          \* orders.credit_qty > 0
  amountPaid,      \* orders.amount_paid, the cache
  payStatus,       \* orders.payment_status, the other cache
  mergedInto,      \* orders.merged_into_order_id
  lapsed,          \* orders past their payment deadline
  payments,        \* the rows of order_payments
  line,            \* bank_statement_lines: status and matched_order_id
  elsewhere,       \* lines behind a wallet deposit or a delivery sale
  transfer,        \* order_payment_transfers
  refund,          \* order_refunds
  stale,           \* orders a reader or the sweep has found stale, not yet expired
  confirming,      \* orders whose payment confirmation has passed expireIfStale
  removing,        \* lines whose payment row a removal has locked and checked
  asking,          \* the order and surplus a refund desk has read, by refund id
  reversing        \* transfers whose row a reversal has locked and checked

orderVars == <<status, total, priced, credit, mergedInto>>
cacheVars == <<amountPaid, payStatus>>
moneyVars == <<payments, line, elsewhere, transfer, refund>>
flightVars == <<stale, confirming, removing, asking, reversing>>
vars == <<orderVars, cacheVars, lapsed, moneyVars, flightVars>>

-----------------------------------------------------------------------------
(* The status machine.                                                     *)

Transitions ==
  [Absent    |-> {},
   Pending   |-> {"Paid", "Released", "Cancelled", "Expired"},
   Paid      |-> {"Released", "Cancelled"},
   Released  |-> {"Loading", "Cancelled"},
   Loading   |-> {"Completed"},
   Completed |-> {}, Cancelled |-> {}, Expired |-> {}, Deleted |-> {}]

Status == {"Absent", "Pending", "Paid", "Released", "Loading", "Completed",
           "Cancelled", "Expired", "Deleted"}
Legal(from, to) == to \in Transitions[from]

Live    == {"Pending", "Paid", "Released", "Loading", "Completed"}
Payable == {"Pending", "Paid", "Released", "Loading", "Completed"}
Creditable == {"Pending", "Paid", "Released", "Loading"}
EditLocked == {"Completed", "Cancelled", "Expired"}
Exists(o)  == status[o] \notin {"Absent", "Deleted"}

(* What paying an order in full makes of its status: Paid and Released in  *)
(* the payment's own transaction, and for an order with no loading desk    *)
(* Loading and Completed as well.                                          *)
AfterDeskPayment(o, s, ps) ==
  IF Legal(s, "Paid") /\ ps = "Paid"
  THEN IF PfiOf[o] \in DesklessPfis THEN "Completed" ELSE "Released"
  ELSE s

AnyTransferReleases(s, ps) ==
  IF Legal(s, "Paid") /\ ps # "Unpaid" THEN "Released" ELSE s

AfterTransferredPayment(s, ps) ==
  IF Legal(s, "Paid") /\ ps = "Paid" THEN "Released" ELSE s

-----------------------------------------------------------------------------
(* Payment rows and the figures derived from them.                         *)

Statement(l, o) == [src |-> "statement", ref |-> l, order |-> o, amt |-> LineAmount[l]]
LegOut(t, o, v) == [src |-> "transfer_out", ref |-> t, order |-> o, amt |-> 0 - v]
LegIn(t, o, v)  == [src |-> "transfer_in", ref |-> t, order |-> o, amt |-> v]
RefundRow(r, o, v) == [src |-> "refund", ref |-> r, order |-> o, amt |-> 0 - v]

Sources == {"statement", "transfer_out", "transfer_in", "refund"}
Payment == [src: Sources, ref: Lines \cup Transfers \cup Refunds,
            order: Orders, amt: Int]

Rows(P, o)     == {p \in P : p.order = o}
SumAmt(S)      == SumFunctionOnSet([p \in S |-> p.amt], S)
Received(P, o) == SumAmt(Rows(P, o))

PayStatuses == {"Unpaid", "Part Paid", "Paid"}
PayStatusFor(received, t) ==
  IF received <= 0 THEN "Unpaid" ELSE IF received >= t THEN "Paid" ELSE "Part Paid"

BiggerOf(a, b) == IF a >= b THEN a ELSE b
Surplus(o) == BiggerOf(0, Received(payments, o) - total[o])

(* Rederives the two caches of the orders in S from the rows as they are   *)
(* after the step; t is the step's new value of total.                     *)
Recompute(S, t) ==
  /\ amountPaid' = [o \in Orders |-> IF o \in S THEN Received(payments', o) ELSE amountPaid[o]]
  /\ payStatus' = [o \in Orders |-> IF o \in S THEN PayStatusFor(Received(payments', o), t[o])
                                               ELSE payStatus[o]]

Line == [status: {"UNMATCHED", "MATCHED", "DELETED"}, order: Orders \cup {NoOrder}]

(* A surplus transfer, a refund and a reading of the refund desk are there *)
(* or not yet; those not there share one value.                            *)
NoTransfer == [live |-> FALSE, from |-> NoOrder, to |-> NoOrder, amt |-> 0]
Transfer   == {NoTransfer} \cup [live: {TRUE}, from: Orders, to: Orders, amt: Int]

NoRefund == [status |-> "none", order |-> NoOrder, amt |-> 0]
Refund   == {NoRefund} \cup [status: {"requested", "refunded", "cancelled", "skipped"},
                             order: Orders, amt: Int]

NoAsk == [order |-> NoOrder, amt |-> 0]
Ask   == {NoAsk} \cup [order: Orders, amt: Int]

(* The type of every variable; a row, a transfer or a refund always names  *)
(* an order.                                                               *)
TypeOK ==
  /\ status \in [Orders -> Status]
  /\ total \in [Orders -> Int]
  /\ priced \in [Orders -> BOOLEAN]
  /\ credit \in [Orders -> BOOLEAN]
  /\ amountPaid \in [Orders -> Int]
  /\ payStatus \in [Orders -> PayStatuses]
  /\ mergedInto \in [Orders -> Orders \cup {NoOrder}]
  /\ lapsed \subseteq Orders
  /\ payments \subseteq Payment /\ IsFiniteSet(payments)
  /\ line \in [Lines -> Line]
  /\ elsewhere \subseteq Lines
  /\ transfer \in [Transfers -> Transfer]
  /\ refund \in [Refunds -> Refund]
  /\ stale \subseteq Orders
  /\ confirming \subseteq Orders
  /\ removing \subseteq Lines
  /\ asking \in [Refunds -> Ask]
  /\ reversing \subseteq Transfers

Init ==
  /\ status = [o \in Orders |-> "Absent"]
  /\ total = [o \in Orders |-> 0]
  /\ priced = [o \in Orders |-> FALSE]
  /\ credit = [o \in Orders |-> FALSE]
  /\ amountPaid = [o \in Orders |-> 0]
  /\ payStatus = [o \in Orders |-> "Unpaid"]
  /\ mergedInto = [o \in Orders |-> NoOrder]
  /\ lapsed = {}
  /\ payments = {}
  /\ line = [l \in Lines |-> [status |-> "UNMATCHED", order |-> NoOrder]]
  /\ elsewhere = {}
  /\ transfer = [t \in Transfers |-> NoTransfer]
  /\ refund = [r \in Refunds |-> NoRefund]
  /\ stale = {}
  /\ confirming = {}
  /\ removing = {}
  /\ asking = [r \in Refunds |-> NoAsk]
  /\ reversing = {}

-----------------------------------------------------------------------------
(* Placing, pricing and editing an order.                                  *)

PlaceOrder(o, t) ==
  /\ status[o] = "Absent"
  /\ status' = [status EXCEPT ![o] = "Pending"]
  /\ total' = [total EXCEPT ![o] = t]
  /\ priced' = [priced EXCEPT ![o] = TRUE]
  /\ UNCHANGED <<credit, mergedInto, cacheVars, lapsed, moneyVars, flightVars>>

(* An order whose ticket was written by hand is born Released, on credit   *)
(* for all of it, with a placeholder value of zero.                        *)
PlaceUnpriced(o) ==
  /\ status[o] = "Absent"
  /\ status' = [status EXCEPT ![o] = "Released"]
  /\ credit' = [credit EXCEPT ![o] = TRUE]
  /\ UNCHANGED <<total, priced, mergedInto, cacheVars, lapsed, moneyVars, flightVars>>

SetOrderPrice(o, t) ==
  /\ Exists(o)
  /\ ~priced[o]
  /\ total' = [total EXCEPT ![o] = t]
  /\ priced' = [priced EXCEPT ![o] = TRUE]
  /\ UNCHANGED <<status, credit, mergedInto, cacheVars, lapsed, moneyVars, flightVars>>

EditKeepsPayStatus(o, t) ==
  /\ Exists(o) /\ status[o] \notin EditLocked /\ priced[o] /\ t # total[o]
  /\ total' = [total EXCEPT ![o] = t]
  /\ UNCHANGED <<status, priced, credit, mergedInto, cacheVars, lapsed, moneyVars, flightVars>>

(* The part of updateOrder that changes an order's value: the money        *)
(* columns are rederived, the status is not touched.                       *)
UpdateOrderTotal(o, t) ==
  /\ Exists(o)
  /\ status[o] \notin EditLocked
  /\ priced[o]
  /\ t # total[o]
  /\ total' = [total EXCEPT ![o] = t]
  /\ UNCHANGED payments
  /\ Recompute({o}, total')
  /\ UNCHANGED <<status, priced, credit, mergedInto, lapsed, line, elsewhere, transfer,
                 refund, flightVars>>

-----------------------------------------------------------------------------
(* Releasing, loading, cancelling, expiring.                               *)

(* The release screen: the money covers the order, or credit stands on it. *)
ReleaseOrder(o) ==
  /\ Legal(status[o], "Released")
  /\ payStatus[o] = "Paid" \/ credit[o]
  /\ status' = [status EXCEPT ![o] = "Released"]
  /\ UNCHANGED <<total, priced, credit, mergedInto, cacheVars, lapsed, moneyVars, flightVars>>

AuthoriseCreditRelease(o) ==
  /\ status[o] \in Creditable
  /\ credit' = [credit EXCEPT ![o] = TRUE]
  /\ status' = [status EXCEPT ![o] = IF @ = "Pending" THEN "Released" ELSE @]
  /\ UNCHANGED <<total, priced, mergedInto, cacheVars, lapsed, moneyVars, flightVars>>

(* Withdrawing credit needs the loads already ticketed to be paid for,     *)
(* which depends on litres this module does not carry.                     *)
RevokeCreditRelease(o) ==
  /\ Exists(o)
  /\ credit[o]
  /\ credit' = [credit EXCEPT ![o] = FALSE]
  /\ UNCHANGED <<status, total, priced, mergedInto, cacheVars, lapsed, moneyVars, flightVars>>

(* The first tickets cut or the first truck in, and the last truck out     *)
(* with the order all ticketed (module Loading carries the trucks).        *)
FirstTruckIn(o) ==
  /\ status[o] = "Released"
  /\ status' = [status EXCEPT ![o] = "Loading"]
  /\ UNCHANGED <<total, priced, credit, mergedInto, cacheVars, lapsed, moneyVars, flightVars>>

LastTruckOut(o) ==
  /\ status[o] = "Loading"
  /\ status' = [status EXCEPT ![o] = "Completed"]
  /\ UNCHANGED <<total, priced, credit, mergedInto, cacheVars, lapsed, moneyVars, flightVars>>

(* A cancelled order keeps its payments.                                   *)
CancelOrder(o) ==
  /\ Legal(status[o], "Cancelled")
  /\ status' = [status EXCEPT ![o] = "Cancelled"]
  /\ UNCHANGED <<total, priced, credit, mergedInto, cacheVars, lapsed, moneyVars, flightVars>>

(* The end of the day an order was placed on goes by.                      *)
DeadlinePasses(o) ==
  /\ Exists(o)
  /\ o \notin lapsed
  /\ lapsed' = lapsed \cup {o}
  /\ UNCHANGED <<orderVars, cacheVars, moneyVars, flightVars>>

(* updateOrder can move the date an order was placed on.                   *)
RedateOrder(o) ==
  /\ Exists(o)
  /\ status[o] \notin EditLocked
  /\ o \in lapsed
  /\ lapsed' = lapsed \ {o}
  /\ UNCHANGED <<orderVars, cacheVars, moneyVars, flightVars>>

IsOrderExpired(o) == status[o] = "Pending" /\ payStatus[o] = "Unpaid" /\ o \in lapsed

(* The sweep, or any screen that shows the order, reads it without a lock  *)
(* and finds it stale ...                                                  *)
FindStale(o) ==
  /\ IsOrderExpired(o)
  /\ stale' = stale \cup {o}
  /\ UNCHANGED <<orderVars, cacheVars, lapsed, moneyVars, confirming, removing, asking, reversing>>

(* ... and then expires it.  The lock taken here guards the transition     *)
(* table only: the payment status read earlier is not read again.          *)
ExpireOrder(o) ==
  /\ o \in stale
  /\ stale' = stale \ {o}
  /\ status' = [status EXCEPT ![o] = IF Legal(@, "Expired") THEN "Expired" ELSE @]
  /\ UNCHANGED <<total, priced, credit, mergedInto, cacheVars, lapsed, moneyVars,
                 confirming, removing, asking, reversing>>

-----------------------------------------------------------------------------
(* Bank statement lines and the payments recorded from them.               *)

ClaimUnlessDeleted(ls) == \A l \in ls : line[l].status # "DELETED"

(* The guarded claim: every line asked for is still UNMATCHED, or nothing  *)
(* is recorded.                                                            *)
Claimable(ls) == \A l \in ls : line[l].status = "UNMATCHED"

(* What a line becomes when the payment recorded from it goes.             *)
FreedLine == [status |-> "UNMATCHED", order |-> NoOrder]

(* confirmOrderPayment begins with expireIfStale in a transaction of its   *)
(* own, so the order can change before the payment's transaction begins.   *)
BeginConfirm(o) ==
  /\ Exists(o)
  /\ o \notin confirming
  /\ confirming' = confirming \cup {o}
  /\ status' = [status EXCEPT ![o] = IF IsOrderExpired(o) THEN "Expired" ELSE @]
  /\ UNCHANGED <<total, priced, credit, mergedInto, cacheVars, lapsed, moneyVars,
                 stale, removing, asking, reversing>>

ConfirmOrderPayment(o, ls) ==
  /\ o \in confirming
  /\ confirming' = confirming \ {o}
  /\ status[o] \in Payable
  /\ total[o] > 0
  /\ priced[o]
  /\ ls # {}
  /\ Claimable(ls)
  /\ line' = [l \in Lines |-> IF l \in ls THEN [status |-> "MATCHED", order |-> o] ELSE line[l]]
  /\ payments' = payments \cup {Statement(l, o) : l \in ls}
  /\ UNCHANGED total
  /\ Recompute({o}, total)
  /\ status' = [status EXCEPT ![o] = AfterDeskPayment(o, @, payStatus'[o])]
  /\ UNCHANGED <<priced, credit, mergedInto, lapsed, elsewhere, transfer, refund,
                 stale, removing, asking, reversing>>

(* The order is not payable any more, or a line was taken: all rolls back. *)
RefuseConfirm(o) ==
  /\ o \in confirming
  /\ confirming' = confirming \ {o}
  /\ UNCHANGED <<orderVars, cacheVars, lapsed, moneyVars, stale, removing, asking, reversing>>

(* The same guarded claim, made by a wallet deposit or a delivery sale.    *)
ClaimElsewhere(l) ==
  /\ Claimable({l})
  /\ line' = [line EXCEPT ![l].status = "MATCHED"]
  /\ elsewhere' = elsewhere \cup {l}
  /\ UNCHANGED <<orderVars, cacheVars, lapsed, payments, transfer, refund, flightVars>>

(* The deposit is unmatched, or the delivery sale deleted.                 *)
ReleaseElsewhere(l) ==
  /\ l \in elsewhere
  /\ elsewhere' = elsewhere \ {l}
  /\ line' = [line EXCEPT ![l] = FreedLine]
  /\ UNCHANGED <<orderVars, cacheVars, lapsed, payments, transfer, refund, flightVars>>

(* An upload is deleted only when none of its lines has been used.         *)
DeleteStatement(ls) ==
  /\ ls # {}
  /\ \A l \in ls : line[l] = [status |-> "UNMATCHED", order |-> NoOrder]
  /\ line' = [l \in Lines |-> IF l \in ls THEN [line[l] EXCEPT !.status = "DELETED"] ELSE line[l]]
  /\ UNCHANGED <<orderVars, cacheVars, lapsed, payments, elsewhere, transfer, refund, flightVars>>

RefundPaidOn(o) == \E p \in payments : p.src = "refund" /\ p.order = o

(* removePayment locks the payment row, not the order, and checks that a   *)
(* refund already paid would not be left uncovered ...                     *)
BeginRemove(l, o) ==
  /\ l \notin removing
  /\ Statement(l, o) \in payments
  /\ RefundPaidOn(o) => Received(payments, o) - LineAmount[l] >= total[o]
  /\ removing' = removing \cup {l}
  /\ UNCHANGED <<orderVars, cacheVars, lapsed, moneyVars, stale, confirming, asking, reversing>>

(* ... and only recomputeOrder, at the end, waits for the order's lock.    *)
RemovePayment(l, o) ==
  /\ l \in removing
  /\ Statement(l, o) \in payments
  /\ removing' = removing \ {l}
  /\ payments' = payments \ {Statement(l, o)}
  /\ line' = [line EXCEPT ![l] = FreedLine]
  /\ UNCHANGED total
  /\ Recompute({o}, total)
  /\ UNCHANGED <<status, priced, credit, mergedInto, lapsed, elsewhere, transfer, refund,
                 stale, confirming, asking, reversing>>

(* The transaction is rolled back: a deadlock victim, a lost connection.   *)
AbortRemove(l) ==
  /\ l \in removing
  /\ removing' = removing \ {l}
  /\ UNCHANGED <<orderVars, cacheVars, lapsed, moneyVars, stale, confirming, asking, reversing>>

-----------------------------------------------------------------------------
(* Surplus moved between orders.                                           *)

TransferSurplus(t, from, to, v) ==
  /\ ~transfer[t].live
  /\ from # to
  /\ PfiOf[from] = TransferPfi /\ PfiOf[to] = TransferPfi
  /\ Exists(from) /\ Exists(to)
  /\ priced[to]
  /\ v > 0
  /\ v <= Surplus(from)
  /\ transfer' = [transfer EXCEPT ![t] = [live |-> TRUE, from |-> from, to |-> to, amt |-> v]]
  /\ payments' = payments \cup {LegOut(t, from, v), LegIn(t, to, v)}
  /\ UNCHANGED total
  /\ Recompute({from, to}, total)
  /\ status' = [status EXCEPT ![to] = AfterTransferredPayment(@, payStatus'[to])]
  /\ UNCHANGED <<priced, credit, mergedInto, lapsed, line, elsewhere, refund, flightVars>>

(* reverseTransfer locks the transfer and looks for a merged order at      *)
(* either end, holding neither order ...                                   *)
BeginReverse(t) ==
  /\ transfer[t].live
  /\ t \notin reversing
  /\ mergedInto[transfer[t].from] = NoOrder
  /\ mergedInto[transfer[t].to] = NoOrder
  /\ reversing' = reversing \cup {t}
  /\ UNCHANGED <<orderVars, cacheVars, lapsed, moneyVars, stale, confirming, removing, asking>>

(* Both orders are recomputed, the giver and the receiver.                 *)
TransferEnds(tr) == {tr.from, tr.to}

GiveBackUnchecked(t) ==
  /\ t \in reversing
  /\ reversing' = reversing \ {t}
  /\ payments' = {p \in payments : ~(p.src \in {"transfer_out", "transfer_in"} /\ p.ref = t)}
  /\ transfer' = [transfer EXCEPT ![t] = NoTransfer]
  /\ UNCHANGED total
  /\ Recompute(TransferEnds(transfer[t]), total)
  /\ UNCHANGED <<status, priced, credit, mergedInto, lapsed, line, elsewhere, refund,
                 stale, confirming, removing, asking>>

(* ... then locks the receiving order, and gives the money back unless     *)
(* that order needs it for its own value.                                  *)
ReverseTransfer(t) ==
  /\ t \in reversing
  /\ reversing' = reversing \ {t}
  /\ Received(payments, transfer[t].to) - transfer[t].amt >= total[transfer[t].to]
  /\ payments' = {p \in payments : ~(p.src \in {"transfer_out", "transfer_in"} /\ p.ref = t)}
  /\ transfer' = [transfer EXCEPT ![t] = NoTransfer]
  /\ UNCHANGED total
  /\ Recompute(TransferEnds(transfer[t]), total)
  /\ UNCHANGED <<status, priced, credit, mergedInto, lapsed, line, elsewhere, refund,
                 stale, confirming, removing, asking>>

AbortReverse(t) ==
  /\ t \in reversing
  /\ reversing' = reversing \ {t}
  /\ UNCHANGED <<orderVars, cacheVars, lapsed, moneyVars, stale, confirming, removing, asking>>

-----------------------------------------------------------------------------
(* Refunds.                                                                *)

RefundOpen(o, st) == \E r \in Refunds : refund[r].status = st /\ refund[r].order = o

SetRefund(r, rec) == refund' = [refund EXCEPT ![r] = rec]

(* The surplus is read before the transaction that records the request or  *)
(* the skip, with no lock ...                                              *)
SeeSurplus(r, o) ==
  /\ refund[r].status = "none"
  /\ asking[r] = NoAsk
  /\ Exists(o)
  /\ Surplus(o) > 0
  /\ asking' = [asking EXCEPT ![r] = [order |-> o, amt |-> Surplus(o)]]
  /\ UNCHANGED <<orderVars, cacheVars, lapsed, moneyVars, stale, confirming, removing, reversing>>

(* ... and what that insert meets is the foreign key on the order and the  *)
(* unique indexes on open requests and on standing skips.                  *)
Insertable(o, st) == Exists(o) /\ ~RefundOpen(o, st)

Record(r, st, v) ==
  /\ Insertable(asking[r].order, st)
  /\ SetRefund(r, [status |-> st, order |-> asking[r].order, amt |-> v])
  /\ asking' = [asking EXCEPT ![r] = NoAsk]
  /\ UNCHANGED <<orderVars, cacheVars, lapsed, payments, line, elsewhere, transfer,
                 stale, confirming, removing, reversing>>

RequestRefund(r, v) ==
  /\ asking[r] # NoAsk
  /\ v > 0 /\ v <= asking[r].amt
  /\ Record(r, "requested", v)

SkipOrder(r) ==
  /\ asking[r] # NoAsk
  /\ Record(r, "skipped", asking[r].amt)

RefuseAsk(r) ==
  /\ asking[r] # NoAsk
  /\ asking' = [asking EXCEPT ![r] = NoAsk]
  /\ UNCHANGED <<orderVars, cacheVars, lapsed, moneyVars, stale, confirming, removing, reversing>>

(* cancelRefund on a request, restoreSkipped on an order set aside.        *)
CancelRefund(r) ==
  /\ refund[r].status \in {"requested", "skipped"}
  /\ SetRefund(r, [refund[r] EXCEPT !.status = "cancelled"])
  /\ UNCHANGED <<orderVars, cacheVars, lapsed, payments, line, elsewhere, transfer, flightVars>>

MarkRefunded(r) ==
  LET o == refund[r].order  v == refund[r].amt IN
  /\ refund[r].status = "requested"
  /\ v <= Surplus(o)
  /\ payments' = payments \cup {RefundRow(r, o, v)}
  /\ SetRefund(r, [refund[r] EXCEPT !.status = "refunded"])
  /\ UNCHANGED total
  /\ Recompute({o}, total)
  /\ UNCHANGED <<status, priced, credit, mergedInto, lapsed, line, elsewhere, transfer, flightVars>>

WithoutRefundRow(r) == {p \in payments : ~(p.src = "refund" /\ p.ref = r)}

(* The request goes back to being open, so another open request on the     *)
(* same order makes the unique index refuse the undo.                      *)
UndoRefund(r) ==
  LET o == refund[r].order IN
  /\ refund[r].status = "refunded"
  /\ ~RefundOpen(o, "requested")
  /\ payments' = WithoutRefundRow(r)
  /\ SetRefund(r, [refund[r] EXCEPT !.status = "requested"])
  /\ UNCHANGED total
  /\ Recompute({o}, total)
  /\ UNCHANGED <<status, priced, credit, mergedInto, lapsed, line, elsewhere, transfer, flightVars>>

-----------------------------------------------------------------------------
(* Merging and deleting orders.                                            *)

MergeBlocked(o) ==
  \/ mergedInto[o] # NoOrder
  \/ status[o] \notin Live
  \/ ~priced[o]
  \/ IsOrderExpired(o)
  \/ RefundOpen(o, "requested")

CombinedStatus(os) ==
  LET among == {status[o] : o \in os} IN
  IF among = {"Completed"} THEN "Completed"
  ELSE IF among \cap {"Loading", "Completed"} # {} THEN "Loading"
  ELSE IF "Released" \in among THEN "Released"
  ELSE IF "Paid" \in among THEN "Paid" ELSE "Pending"

Moved(p, target, sources) == [p EXCEPT !.order = IF @ \in sources THEN target ELSE @]

TransferNotMoved(tr, target, sources) == tr

(* A transfer between two orders of the merge keeps the orders it named.   *)
MovedTransfer(tr, target, sources) ==
  IF {tr.from, tr.to} \subseteq sources \cup {target} THEN tr
  ELSE [tr EXCEPT !.from = IF @ \in sources THEN target ELSE @,
                  !.to   = IF @ \in sources THEN target ELSE @]

SkipsNotLifted(rf, target, sources) == [rf EXCEPT !.order = IF @ \in sources THEN target ELSE @]

MovedRefund(rf, target, sources) ==
  [rf EXCEPT !.status = IF @ = "skipped" /\ rf.order \in sources \cup {target}
                        THEN "cancelled" ELSE @,
             !.order  = IF @ \in sources THEN target ELSE @]

(* A merge that would update a row held by a removal or a reversal waits   *)
(* for it, while that one waits for an order the merge holds: the database *)
(* aborts one of them, so a merge never passes a row in flight.            *)
MergeWaits(target, sources) ==
  \/ \E l \in removing, s \in sources : Statement(l, s) \in payments
  \/ \E t \in reversing : MovedTransfer(transfer[t], target, sources) # transfer[t]

ValueOfSources(target, sources) == SumFunctionOnSet(total, sources)
MergedValue(target, sources)    == SumFunctionOnSet(total, sources \cup {target})

MergeOrders(target, sources) ==
  LET all == sources \cup {target}
      st  == CombinedStatus(all) IN
  /\ sources # {}
  /\ target \notin sources
  /\ \A o \in all : ~MergeBlocked(o) /\ PfiOf[o] = PfiOf[target]
  /\ ~MergeWaits(target, sources)
  /\ payments' = {Moved(p, target, sources) : p \in payments}
  /\ transfer' = [t \in Transfers |-> MovedTransfer(transfer[t], target, sources)]
  /\ refund' = [r \in Refunds |-> MovedRefund(refund[r], target, sources)]
  /\ line' = [l \in Lines |-> Moved(line[l], target, sources)]
  /\ total' = [total EXCEPT ![target] = MergedValue(target, sources)]
  /\ credit' = [o \in Orders |-> IF o \in sources THEN FALSE
                                 ELSE credit[o] \/ (o = target /\ \E s \in sources : credit[s])]
  /\ mergedInto' = [o \in Orders |-> IF o \in sources THEN target ELSE mergedInto[o]]
  /\ Recompute(all, total')
  /\ status' = [o \in Orders |->
                  IF o \in sources THEN "Cancelled"
                  ELSE IF o # target THEN status[o]
                  ELSE IF st = "Pending" THEN AfterTransferredPayment(st, payStatus'[target])
                  ELSE st]
  /\ UNCHANGED <<priced, lapsed, elsewhere, flightVars>>

(* Payment rows cascade with the order; transfers and refunds that name it *)
(* restrict the delete, as does an order merged into it.  The statement    *)
(* lines its payments claimed are not touched.                             *)
DeleteOrder(o) ==
  /\ Exists(o)
  /\ \A t \in Transfers : o \notin {transfer[t].from, transfer[t].to}
  /\ \A r \in Refunds : refund[r].order # o
  /\ \A x \in Orders : mergedInto[x] # o
  /\ mergedInto[o] = NoOrder
  /\ \A l \in removing : Statement(l, o) \notin payments
  /\ status' = [status EXCEPT ![o] = "Deleted"]
  /\ payments' = payments \ Rows(payments, o)
  /\ amountPaid' = [amountPaid EXCEPT ![o] = 0]
  /\ payStatus' = [payStatus EXCEPT ![o] = "Unpaid"]
  /\ stale' = stale \ {o}
  /\ UNCHANGED <<total, priced, credit, mergedInto, lapsed, line, elsewhere, transfer,
                 refund, confirming, removing, asking, reversing>>

-----------------------------------------------------------------------------
Next ==
  \/ \E o \in Orders : \/ PlaceUnpriced(o) \/ ReleaseOrder(o) \/ AuthoriseCreditRelease(o)
                       \/ RevokeCreditRelease(o) \/ CancelOrder(o) \/ DeadlinePasses(o) \/ RedateOrder(o)
                       \/ FindStale(o) \/ ExpireOrder(o) \/ BeginConfirm(o) \/ RefuseConfirm(o)
                       \/ FirstTruckIn(o) \/ LastTruckOut(o) \/ DeleteOrder(o)
  \/ \E o \in Orders, t \in Prices : PlaceOrder(o, t) \/ SetOrderPrice(o, t) \/ UpdateOrderTotal(o, t)
  \/ \E o \in Orders, ls \in SUBSET Lines : ConfirmOrderPayment(o, ls)
  \/ \E l \in Lines : ClaimElsewhere(l) \/ ReleaseElsewhere(l) \/ AbortRemove(l)
  \/ \E ls \in SUBSET Lines : DeleteStatement(ls)
  \/ \E l \in Lines, o \in Orders : BeginRemove(l, o) \/ RemovePayment(l, o)
  \/ \E t \in Transfers, from, to \in Orders, v \in 1..MaxSurplus : TransferSurplus(t, from, to, v)
  \/ \E t \in Transfers : BeginReverse(t) \/ ReverseTransfer(t) \/ AbortReverse(t)
  \/ \E r \in Refunds, o \in Orders : SeeSurplus(r, o)
  \/ \E r \in Refunds, v \in 1..MaxSurplus : RequestRefund(r, v)
  \/ \E r \in Refunds : SkipOrder(r) \/ RefuseAsk(r) \/ CancelRefund(r) \/ MarkRefunded(r) \/ UndoRefund(r)
  \/ \E target \in Orders, sources \in SUBSET Orders : MergeOrders(target, sources)

Spec == Init /\ [][Next]_vars

-----------------------------------------------------------------------------
(* Properties.                                                             *)

StatementRows(l) == {p \in payments : p.src = "statement" /\ p.ref = l}
Legs(t)          == {p \in payments : p.src \in {"transfer_out", "transfer_in"} /\ p.ref = t}
RefundRows(r)    == {p \in payments : p.src = "refund" /\ p.ref = r}

(* orders.amount_paid is the sum of the order's payment rows, after every  *)
(* committed step and whatever else was in flight (the invariant at the    *)
(* head of orderPayment.service.js).                                       *)
CacheIsSum == \A o \in Orders : amountPaid[o] = Received(payments, o)

(* orders.payment_status says what amount_paid and total_amount say, after *)
(* every edit of either (recomputeOrder is called wherever one moves).     *)
PayStatusCurrent ==
  \A o \in Orders : status[o] # "Deleted" => payStatus[o] = PayStatusFor(amountPaid[o], total[o])

(* A bank credit is used once: a line behind a payment row is MATCHED to   *)
(* that row's order, backs no other row, and no deposit or delivery sale.  *)
LineUsedOnce ==
  \A l \in Lines :
    /\ \A p, q \in StatementRows(l) : p = q
    /\ \A p \in StatementRows(l) :
         l \notin elsewhere /\ line[l].status = "MATCHED" /\ line[l].order = p.order
    /\ l \in elsewhere => line[l].status = "MATCHED"

(* A MATCHED line has a payment, a deposit or a sale behind it, unless the *)
(* order it was matched to has been deleted.                               *)
StuckOnlyByDelete ==
  \A l \in Lines :
    line[l].status = "MATCHED" =>
      \/ StatementRows(l) # {}
      \/ l \in elsewhere
      \/ line[l].order \in Orders /\ status[line[l].order] = "Deleted"

(* Every bank line is accounted for: used at most once, and never stuck    *)
(* but by the deletion of its order.                                       *)
LinesAccounted == LineUsedOnce /\ StuckOnlyByDelete

(* The two legs of a transfer never come apart: they are both there or     *)
(* neither is, they cancel out, and they sit on the orders the transfer    *)
(* names unless a merge has brought both onto one order.                   *)
LegsTogether ==
  \A t \in Transfers :
    IF ~transfer[t].live THEN Legs(t) = {}
    ELSE \E a, b \in Orders :
           /\ Legs(t) = {LegOut(t, a, transfer[t].amt), LegIn(t, b, transfer[t].amt)}
           /\ \/ a = transfer[t].from /\ b = transfer[t].to
              \/ /\ a = b
                 /\ \E x \in {transfer[t].from, transfer[t].to} : mergedInto[x] # NoOrder

(* A refund is paid exactly when its payment row is on the order it names, *)
(* for the amount asked for, through undo, merges and removals alike.      *)
RefundBacked ==
  \A r \in Refunds :
    RefundRows(r) = IF refund[r].status = "refunded"
                    THEN {RefundRow(r, refund[r].order, refund[r].amt)} ELSE {}

(* At most one request and one skip stand on an order: a merge never folds *)
(* two of either onto the survivor, where the unique indexes would refuse. *)
OneOpenRefund ==
  \A r1, r2 \in Refunds :
    /\ r1 # r2
    /\ refund[r1].status \in {"requested", "skipped"}
    /\ refund[r1].status = refund[r2].status
    => refund[r1].order # refund[r2].order

(* The order's money is what its rows say: the cache is their sum, refunds *)
(* have theirs, and no two requests or skips stand on one order.           *)
MoneySound == CacheIsSum /\ RefundBacked /\ OneOpenRefund

(* Money leaves an order by a transfer, a reversed transfer or a refund    *)
(* only out of what it holds beyond its own value at that moment, however  *)
(* old the request is.                                                     *)
Gives(o) ==
  \/ \E t \in Transfers : ~transfer[t].live /\ transfer'[t].live /\ transfer'[t].from = o
  \/ \E t \in Transfers : transfer[t].live /\ ~transfer'[t].live /\ transfer[t].to = o
  \/ \E r \in Refunds : /\ refund[r].status = "requested" /\ refund'[r].status = "refunded"
                        /\ refund[r].order = o
GivesOnlySurplus == [][\A o \in Orders : Gives(o) => amountPaid'[o] >= total'[o]]_vars

(* Nothing loads on an outstanding: an order becomes ready to load only    *)
(* when it is paid in full or trusted, or takes over a release by a merge. *)
Ready == {"Released", "Loading", "Completed"}
NeedsCover ==
  \A o \in Orders :
    status[o] \notin Ready /\ status'[o] \in Ready =>
      \/ payStatus'[o] = "Paid"
      \/ credit'[o]
      \/ \E s \in Orders : mergedInto[s] = NoOrder /\ mergedInto'[s] = o /\ status[s] \in Ready
ReleaseNeedsCover == [][NeedsCover]_vars

(* A merge moves rows and never money: the money received over all orders, *)
(* and the value of the orders that stand, are what they were.             *)
Standing == {o \in Orders : mergedInto[o] = NoOrder /\ status[o] # "Deleted"}
MergeKeepsTotals ==
  [][mergedInto' # mergedInto =>
       /\ SumAmt(payments') = SumAmt(payments)
       /\ SumFunctionOnSet(total', {o \in Standing : mergedInto'[o] = NoOrder}) = SumFunctionOnSet(total, Standing)
       /\ \A o \in Orders : mergedInto[o] = NoOrder /\ mergedInto'[o] # NoOrder
            => amountPaid'[o] = 0]_vars

(* What comments and tests of the code say and its steps do not keep.      *)

(* removePayment: removing a payment may not strand a refund already paid. *)
RefundNeverStranded ==
  [][\A l \in Lines :
       l \in removing /\ StatementRows(l) # {} /\ line'[l].status = "UNMATCHED" =>
         \A o \in Orders : Statement(l, o) \in payments /\ RefundPaidOn(o)
           => amountPaid'[o] >= total[o]]_vars

(* isOrderExpired and its test: a funded order never lapses.               *)
FundedNeverLapses ==
  [][\A o \in Orders : status[o] # "Expired" /\ status'[o] = "Expired"
       => payStatus[o] = "Unpaid"]_vars

=============================================================================
