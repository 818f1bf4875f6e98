------------------------- MODULE OrderLedgerProofs -------------------------
(* Theorems about OrderLedger, for every set of orders, lines, transfers   *)
(* and refunds, every price and every line amount.                         *)
EXTENDS OrderLedger, SumLemmas, TLAPS

-----------------------------------------------------------------------------
(* What is received on an order is an integer, and 0 without rows.         *)

LEMMA ReceivedType ==
  ASSUME NEW P \in SUBSET Payment, IsFiniteSet(P)
  PROVE  \A o \in Orders : Received(P, o) \in Int
<1> TAKE o \in Orders
<1>1. IsFiniteSet(Rows(P, o))
  BY FS_Subset DEF Rows
<1>2. \A p \in Rows(P, o) : [q \in Rows(P, o) |-> q.amt][p] \in Int
  BY DEF Rows, Payment
<1> QED
  BY <1>1, <1>2, SumType DEF Received, SumAmt

LEMMA NoRowsNoMoney == \A P, o : Rows(P, o) = {} => Received(P, o) = 0
BY SumEmpty DEF Received, SumAmt

LEMMA PayStatusType ==
  ASSUME NEW v \in Int, NEW t \in Int
  PROVE  PayStatusFor(v, t) \in PayStatuses
BY DEF PayStatusFor, PayStatuses

LEMMA RecomputeType ==
  ASSUME amountPaid \in [Orders -> Int], payStatus \in [Orders -> PayStatuses],
         payments' \in SUBSET Payment, IsFiniteSet(payments)',
         NEW S, NEW t \in [Orders -> Int], Recompute(S, t)
  PROVE  amountPaid' \in [Orders -> Int] /\ payStatus' \in [Orders -> PayStatuses]
<1>1. \A o \in Orders : Received(payments', o) \in Int
  BY ReceivedType
<1>2. \A o \in Orders : PayStatusFor(Received(payments', o), t[o]) \in PayStatuses
  BY <1>1, PayStatusType
<1> QED
  BY <1>1, <1>2 DEF Recompute

-----------------------------------------------------------------------------
(* Type correctness.                                                       *)

LEMMA InitType == Init => TypeOK
BY LedgerAssumption, FS_EmptySet
   DEF Init, TypeOK, Status, PayStatuses, Line, Transfer, Refund, Ask, NoTransfer, NoRefund, NoAsk
LEMMA SurplusType == TypeOK => \A o \in Orders : Surplus(o) \in Int
BY ReceivedType DEF TypeOK, Surplus, BiggerOf

(* One step of the ledger leaves every variable in its type.               *)
LEMMA StepType == TypeOK /\ [Next]_vars => TypeOK'
<1> SUFFICES ASSUME TypeOK, [Next]_vars PROVE TypeOK'
  OBVIOUS
<1> USE LedgerAssumption DEF vars, orderVars, cacheVars, moneyVars, flightVars
<1>1. ASSUME NEW o \in Orders, PlaceUnpriced(o) PROVE TypeOK'
  BY <1>1 DEF PlaceUnpriced, TypeOK, Status
<1>2. ASSUME NEW o \in Orders, ReleaseOrder(o) PROVE TypeOK'
  BY <1>2 DEF ReleaseOrder, TypeOK, Status
<1>3. ASSUME NEW o \in Orders, AuthoriseCreditRelease(o) PROVE TypeOK'
  BY <1>3 DEF AuthoriseCreditRelease, TypeOK, Status
<1>4. ASSUME NEW o \in Orders, RevokeCreditRelease(o) PROVE TypeOK'
  BY <1>4 DEF RevokeCreditRelease, TypeOK
<1>5. ASSUME NEW o \in Orders, CancelOrder(o) PROVE TypeOK'
  BY <1>5 DEF CancelOrder, TypeOK, Status
<1>6. ASSUME NEW o \in Orders, DeadlinePasses(o) PROVE TypeOK'
  BY <1>6 DEF DeadlinePasses, TypeOK
<1>7. ASSUME NEW o \in Orders, RedateOrder(o) PROVE TypeOK'
  BY <1>7 DEF RedateOrder, TypeOK
<1>8. ASSUME NEW o \in Orders, FindStale(o) PROVE TypeOK'
  BY <1>8 DEF FindStale, TypeOK
<1>9. ASSUME NEW o \in Orders, ExpireOrder(o) PROVE TypeOK'
  BY <1>9 DEF ExpireOrder, TypeOK, Status
<1>10. ASSUME NEW o \in Orders, BeginConfirm(o) PROVE TypeOK'
  BY <1>10 DEF BeginConfirm, TypeOK, Status
<1>11. ASSUME NEW o \in Orders, RefuseConfirm(o) PROVE TypeOK'
  BY <1>11 DEF RefuseConfirm, TypeOK
<1>12. ASSUME NEW o \in Orders, DeleteOrder(o) PROVE TypeOK'
  <2>1. status' \in [Orders -> Status] /\ payStatus' \in [Orders -> PayStatuses]
    BY <1>12 DEF DeleteOrder, TypeOK, Status, PayStatuses
  <2>2. payments' \subseteq Payment /\ amountPaid' \in [Orders -> Int] /\ stale' \subseteq Orders
    BY <1>12 DEF DeleteOrder, TypeOK
  <2>3. IsFiniteSet(payments')
    BY <1>12, FS_Subset DEF DeleteOrder, TypeOK
  <2> QED
    BY <1>12, <2>1, <2>2, <2>3 DEF DeleteOrder, TypeOK
<1>13. ASSUME NEW o \in Orders, NEW t \in Prices, PlaceOrder(o, t) PROVE TypeOK'
  BY <1>13 DEF PlaceOrder, TypeOK, Status
<1>14. ASSUME NEW o \in Orders, NEW t \in Prices, SetOrderPrice(o, t) PROVE TypeOK'
  BY <1>14 DEF SetOrderPrice, TypeOK
<1>15. ASSUME NEW o \in Orders, NEW t \in Prices, UpdateOrderTotal(o, t) PROVE TypeOK'
  <2>1. total' \in [Orders -> Int]
    BY <1>15 DEF UpdateOrderTotal, TypeOK
  <2>2. amountPaid' \in [Orders -> Int] /\ payStatus' \in [Orders -> PayStatuses]
    BY <1>15, <2>1, RecomputeType DEF UpdateOrderTotal, TypeOK
  <2> QED
    BY <1>15, <2>1, <2>2 DEF UpdateOrderTotal, TypeOK
<1>16. ASSUME NEW o \in Orders, FirstTruckIn(o) \/ LastTruckOut(o) PROVE TypeOK'
  BY <1>16 DEF FirstTruckIn, LastTruckOut, TypeOK, Status
<1>17. ASSUME NEW o \in Orders, NEW ls \in SUBSET Lines, ConfirmOrderPayment(o, ls) PROVE TypeOK'
  <2>1. payments' \subseteq Payment
    BY <1>17 DEF ConfirmOrderPayment, TypeOK, Statement, Payment, Sources
  <2>2. IsFiniteSet(payments')
    <3> DEFINE f == [l \in ls |-> Statement(l, o)]
    <3>1. IsFiniteSet(ls)
      BY FS_Subset
    <3>2. IsFiniteSet({f[l] : l \in ls})
      <4> HIDE DEF f
      <4> QED
        BY <3>1, FiniteImage
    <3>3. payments' = payments \cup {f[l] : l \in ls}
      BY <1>17 DEF ConfirmOrderPayment
    <3> QED
      BY <3>2, <3>3, FS_Union DEF TypeOK
  <2>3. amountPaid' \in [Orders -> Int] /\ payStatus' \in [Orders -> PayStatuses]
    BY <1>17, <2>1, <2>2, RecomputeType DEF ConfirmOrderPayment, TypeOK
  <2> QED
    BY <1>17, <2>1, <2>2, <2>3 DEF ConfirmOrderPayment, TypeOK, AfterDeskPayment, Line, Status
<1>18. ASSUME NEW l \in Lines, ClaimElsewhere(l) PROVE TypeOK'
  BY <1>18 DEF ClaimElsewhere, TypeOK, Line
<1>19. ASSUME NEW l \in Lines, ReleaseElsewhere(l) PROVE TypeOK'
  BY <1>19 DEF ReleaseElsewhere, TypeOK, FreedLine, Line
<1>20. ASSUME NEW l \in Lines, AbortRemove(l) PROVE TypeOK'
  BY <1>20 DEF AbortRemove, TypeOK
<1>21. ASSUME NEW ls \in SUBSET Lines, DeleteStatement(ls) PROVE TypeOK'
  BY <1>21 DEF DeleteStatement, TypeOK, Line
<1>22. ASSUME NEW l \in Lines, NEW o \in Orders, BeginRemove(l, o) PROVE TypeOK'
  BY <1>22 DEF BeginRemove, TypeOK
<1>23. ASSUME NEW l \in Lines, NEW o \in Orders, RemovePayment(l, o) PROVE TypeOK'
  <2>1. payments' \subseteq Payment /\ IsFiniteSet(payments')
    BY <1>23, FS_Subset DEF RemovePayment, TypeOK
  <2> QED
    BY <1>23, <2>1, RecomputeType DEF RemovePayment, TypeOK, FreedLine, Line
<1>24. ASSUME NEW t \in Transfers, NEW from \in Orders, NEW to \in Orders,
              NEW v \in 1..MaxSurplus, TransferSurplus(t, from, to, v)
       PROVE  TypeOK'
  <2>1. v \in Int /\ 0 - v \in Int
    OBVIOUS
  <2>2. LegOut(t, from, v) \in Payment /\ LegIn(t, to, v) \in Payment
    BY <2>1 DEF LegIn, LegOut, Payment, Sources
  <2>3. payments' \subseteq Payment /\ IsFiniteSet(payments')
    <3>1. payments' = (payments \cup {LegOut(t, from, v)}) \cup {LegIn(t, to, v)}
      BY <1>24 DEF TransferSurplus
    <3> QED
      BY <2>2, <3>1, FS_AddElement DEF TypeOK
  <2>4. transfer' \in [Transfers -> Transfer]
    BY <1>24, <2>1 DEF TransferSurplus, TypeOK, Transfer
  <2>5. amountPaid' \in [Orders -> Int] /\ payStatus' \in [Orders -> PayStatuses]
    BY <1>24, <2>3, RecomputeType DEF TransferSurplus, TypeOK
  <2>6. status' \in [Orders -> Status]
    BY <1>24 DEF TransferSurplus, TypeOK, AfterTransferredPayment, Status
  <2> QED
    BY <1>24, <2>3, <2>4, <2>5, <2>6 DEF TransferSurplus, TypeOK
<1>25. ASSUME NEW t \in Transfers, BeginReverse(t) PROVE TypeOK'
  BY <1>25 DEF BeginReverse, TypeOK
<1>26. ASSUME NEW t \in Transfers, ReverseTransfer(t) PROVE TypeOK'
  <2>1. payments' \subseteq Payment /\ IsFiniteSet(payments')
    BY <1>26, FS_Subset DEF ReverseTransfer, TypeOK
  <2> QED
    BY <1>26, <2>1, RecomputeType DEF ReverseTransfer, TypeOK, Transfer
<1>27. ASSUME NEW t \in Transfers, AbortReverse(t) PROVE TypeOK'
  BY <1>27 DEF AbortReverse, TypeOK
<1>28. ASSUME NEW r \in Refunds, NEW o \in Orders, SeeSurplus(r, o) PROVE TypeOK'
  BY <1>28, SurplusType DEF SeeSurplus, TypeOK, Ask
<1>29. ASSUME NEW r \in Refunds, NEW v \in 1..MaxSurplus, RequestRefund(r, v) PROVE TypeOK'
  BY <1>29 DEF RequestRefund, TypeOK, Record, SetRefund, Refund, Ask, NoAsk
<1>30. ASSUME NEW r \in Refunds, SkipOrder(r) PROVE TypeOK'
  BY <1>30 DEF SkipOrder, TypeOK, Record, SetRefund, Refund, Ask, NoAsk
<1>31. ASSUME NEW r \in Refunds, RefuseAsk(r) PROVE TypeOK'
  BY <1>31 DEF RefuseAsk, TypeOK, Ask
<1>32. ASSUME NEW r \in Refunds, CancelRefund(r) PROVE TypeOK'
  BY <1>32 DEF CancelRefund, TypeOK, SetRefund, Refund, NoRefund
<1>33. ASSUME NEW r \in Refunds, MarkRefunded(r) PROVE TypeOK'
  <2>1. payments' \subseteq Payment /\ IsFiniteSet(payments')
    <3>1. payments' = payments \cup {RefundRow(r, refund[r].order, refund[r].amt)}
      BY <1>33 DEF MarkRefunded
    <3>2. RefundRow(r, refund[r].order, refund[r].amt) \in Payment
      BY <1>33 DEF MarkRefunded, TypeOK, Refund, NoRefund, RefundRow, Payment, Sources
    <3> QED
      BY <3>1, <3>2, FS_AddElement DEF TypeOK
  <2> QED
    BY <1>33, <2>1, RecomputeType DEF MarkRefunded, TypeOK, SetRefund, Refund, NoRefund
<1>34. ASSUME NEW r \in Refunds, UndoRefund(r) PROVE TypeOK'
  <2>1. payments' \subseteq Payment /\ IsFiniteSet(payments')
    BY <1>34, FS_Subset DEF UndoRefund, TypeOK, WithoutRefundRow
  <2> QED
    BY <1>34, <2>1, RecomputeType DEF UndoRefund, TypeOK, SetRefund, Refund, NoRefund
<1>35. ASSUME NEW target \in Orders, NEW sources \in SUBSET Orders, MergeOrders(target, sources)
       PROVE  TypeOK'
  <2>1. total' \in [Orders -> Int]
    <3>1. IsFiniteSet(sources \cup {target}) /\ sources \cup {target} \subseteq Orders
      BY FS_Subset, LedgerAssumption
    <3>2. MergedValue(target, sources) \in Int
      BY <3>1, SumType DEF MergedValue, TypeOK
    <3> QED
      BY <1>35, <3>2 DEF MergeOrders, TypeOK
  <2>3. payments' \subseteq Payment /\ IsFiniteSet(payments')
    <3> DEFINE f == [p \in payments |-> Moved(p, target, sources)]
    <3>1. ASSUME NEW p \in Payment PROVE Moved(p, target, sources) \in Payment
      BY DEF Moved, Payment
    <3>2. payments' = {f[p] : p \in payments}
      BY <1>35 DEF MergeOrders
    <3>4. IsFiniteSet(payments)
      BY DEF TypeOK
    <3>3. IsFiniteSet({f[p] : p \in payments})
      <4> HIDE DEF f
      <4> QED
        BY <3>4, FiniteImage
    <3> QED
      BY <3>1, <3>2, <3>3 DEF TypeOK
  <2>2. amountPaid' \in [Orders -> Int] /\ payStatus' \in [Orders -> PayStatuses]
    BY <1>35, <2>1, <2>3, RecomputeType DEF MergeOrders, TypeOK
  <2>4. line' \in [Lines -> Line]
    <3>1. line' = [l \in Lines |-> Moved(line[l], target, sources)]
      BY <1>35 DEF MergeOrders
    <3>2. ASSUME NEW r \in Line PROVE Moved(r, target, sources) \in Line
      BY DEF Moved, Line
    <3> QED
      BY <3>1, <3>2 DEF TypeOK
  <2>5. transfer' \in [Transfers -> Transfer]
    <3>1. ASSUME NEW tr \in Transfer PROVE MovedTransfer(tr, target, sources) \in Transfer
      <4>1. CASE tr = NoTransfer
        <5>1. MovedTransfer(tr, target, sources) = tr
          BY <4>1 DEF MovedTransfer, NoTransfer
        <5> QED
          BY <5>1
      <4>2. CASE tr # NoTransfer
        BY <4>2 DEF MovedTransfer, Transfer
      <4> QED
        BY <4>1, <4>2
    <3> QED
      BY <1>35, <3>1 DEF MergeOrders, TypeOK
  <2>6. refund' \in [Refunds -> Refund]
    <3>1. ASSUME NEW rf \in Refund PROVE MovedRefund(rf, target, sources) \in Refund
      <4>1. CASE rf = NoRefund
        <5>1. MovedRefund(rf, target, sources) = rf
          BY <4>1 DEF MovedRefund, NoRefund
        <5> QED
          BY <5>1
      <4>2. CASE rf # NoRefund
        BY <4>2 DEF MovedRefund, Refund
      <4> QED
        BY <4>1, <4>2
    <3> QED
      BY <1>35, <3>1 DEF MergeOrders, TypeOK
  <2>7. status' \in [Orders -> Status]
    BY <1>35 DEF MergeOrders, TypeOK, CombinedStatus, AfterTransferredPayment, Status
  <2>8. credit' \in [Orders -> BOOLEAN] /\ mergedInto' \in [Orders -> Orders \cup {NoOrder}]
    BY <1>35 DEF MergeOrders, TypeOK
  <2> QED
    BY <1>35, <2>1, <2>2, <2>3, <2>4, <2>5, <2>6, <2>7, <2>8 DEF MergeOrders, TypeOK
<1>36. CASE UNCHANGED vars
  BY <1>36 DEF TypeOK
<1> QED
  BY <1>1, <1>2, <1>3, <1>4, <1>5, <1>6, <1>7, <1>8, <1>9, <1>10, <1>11, <1>12, <1>13, <1>14, <1>15, <1>16, <1>17, <1>18, <1>19, <1>20, <1>21, <1>22, <1>23, <1>24, <1>25, <1>26, <1>27, <1>28, <1>29, <1>30, <1>31, <1>32, <1>33, <1>34, <1>35, <1>36 DEF Next

(* Every variable keeps the type TypeOK gives it.                          *)
THEOREM TypeCorrect == Spec => []TypeOK
BY InitType, StepType, PTL DEF Spec

-----------------------------------------------------------------------------
(* The steps that move money rows, lines, transfers or refunds; every      *)
(* other step leaves all five as they are.                                 *)

MoneyNext ==
  \/ \E o \in Orders : DeleteOrder(o)
  \/ \E o \in Orders, ls \in SUBSET Lines : ConfirmOrderPayment(o, ls)
  \/ \E l \in Lines : ClaimElsewhere(l) \/ ReleaseElsewhere(l)
  \/ \E ls \in SUBSET Lines : DeleteStatement(ls)
  \/ \E l \in Lines, o \in Orders : RemovePayment(l, o)
  \/ \E t \in Transfers, from, to \in Orders, v \in 1..MaxSurplus : TransferSurplus(t, from, to, v)
  \/ \E t \in Transfers : ReverseTransfer(t)
  \/ \E r \in Refunds, v \in 1..MaxSurplus : RequestRefund(r, v)
  \/ \E r \in Refunds : SkipOrder(r) \/ CancelRefund(r) \/ MarkRefunded(r) \/ UndoRefund(r)
  \/ \E target \in Orders, sources \in SUBSET Orders : MergeOrders(target, sources)

(* A step that is no money step moves no money, and merges nothing.        *)
LEMMA MoneyCases == [Next]_vars => MoneyNext \/ UNCHANGED <<moneyVars, mergedInto>>
<1> SUFFICES ASSUME [Next]_vars, ~MoneyNext PROVE UNCHANGED <<moneyVars, mergedInto>>
  OBVIOUS
<1> USE DEF vars, orderVars, cacheVars, moneyVars, flightVars
<1>1. ASSUME NEW o \in Orders,
             \/ PlaceUnpriced(o) \/ ReleaseOrder(o) \/ AuthoriseCreditRelease(o)
             \/ RevokeCreditRelease(o) \/ CancelOrder(o) \/ DeadlinePasses(o) \/ RedateOrder(o)
             \/ FindStale(o) \/ ExpireOrder(o) \/ BeginConfirm(o) \/ RefuseConfirm(o)
      PROVE  UNCHANGED <<moneyVars, mergedInto>>
  BY <1>1 DEF PlaceUnpriced, ReleaseOrder, AuthoriseCreditRelease, RevokeCreditRelease, CancelOrder,
              DeadlinePasses, RedateOrder, FindStale, ExpireOrder, BeginConfirm, RefuseConfirm
<1>2. ASSUME NEW o \in Orders, NEW t \in Prices,
             PlaceOrder(o, t) \/ SetOrderPrice(o, t) \/ UpdateOrderTotal(o, t)
      PROVE  UNCHANGED <<moneyVars, mergedInto>>
  BY <1>2 DEF PlaceOrder, SetOrderPrice, UpdateOrderTotal
<1>3. ASSUME NEW o \in Orders, FirstTruckIn(o) \/ LastTruckOut(o)
      PROVE  UNCHANGED <<moneyVars, mergedInto>>
  BY <1>3 DEF FirstTruckIn, LastTruckOut
<1>4. ASSUME NEW l \in Lines, AbortRemove(l) \/ \E o \in Orders : BeginRemove(l, o)
      PROVE  UNCHANGED <<moneyVars, mergedInto>>
  BY <1>4 DEF AbortRemove, BeginRemove
<1>5. ASSUME NEW t \in Transfers, BeginReverse(t) \/ AbortReverse(t)
      PROVE  UNCHANGED <<moneyVars, mergedInto>>
  BY <1>5 DEF BeginReverse, AbortReverse
<1>6. ASSUME NEW r \in Refunds, RefuseAsk(r) \/ \E o \in Orders : SeeSurplus(r, o)
      PROVE  UNCHANGED <<moneyVars, mergedInto>>
  BY <1>6 DEF RefuseAsk, SeeSurplus
<1>7. CASE UNCHANGED vars
  BY <1>7
<1> QED
  BY <1>1, <1>2, <1>3, <1>4, <1>5, <1>6, <1>7 DEF Next, MoneyNext

-----------------------------------------------------------------------------
(* Refunds and their payment rows.                                         *)

(* What the refund desk has read belongs to an id no refund has yet.       *)
AskIsFree == \A r \in Refunds : asking[r] # NoAsk => refund[r].status = "none"

RefundInv == RefundBacked /\ AskIsFree

(* A merge changes no refund's status but a skip's, and no refund's amount. *)
LEMMA MovedRefundStatus ==
  ASSUME NEW rf \in Refund, NEW target, NEW sources
  PROVE  /\ MovedRefund(rf, target, sources).amt = rf.amt
         /\ MovedRefund(rf, target, sources).order = IF rf.order \in sources THEN target ELSE rf.order
         /\ MovedRefund(rf, target, sources).status
              = IF rf.status = "skipped" /\ rf.order \in sources \cup {target}
                THEN "cancelled" ELSE rf.status
<1>1. rf = [status |-> rf.status, order |-> rf.order, amt |-> rf.amt]
  BY DEF Refund, NoRefund
<1> QED
  BY <1>1 DEF MovedRefund

LEMMA RefundStep == TypeOK /\ RefundInv /\ [Next]_vars => RefundInv'
<1> SUFFICES ASSUME TypeOK, RefundInv, [Next]_vars PROVE RefundInv'
  OBVIOUS
<1> USE DEF vars, orderVars, cacheVars, moneyVars, flightVars
<1>1. AskIsFree'
  <2>1. ASSUME NEW r \in Refunds, NEW o \in Orders, SeeSurplus(r, o) PROVE AskIsFree'
    BY <2>1 DEF SeeSurplus, AskIsFree, RefundInv, TypeOK
  <2>2. ASSUME NEW r \in Refunds, RefuseAsk(r) PROVE AskIsFree'
    BY <2>2 DEF RefuseAsk, AskIsFree, RefundInv, TypeOK
  <2>3. ASSUME NEW r \in Refunds, SkipOrder(r) \/ \E v \in 1..MaxSurplus : RequestRefund(r, v)
        PROVE  AskIsFree'
    BY <2>3 DEF SkipOrder, RequestRefund, Record, SetRefund, AskIsFree, RefundInv, TypeOK
  <2>4. ASSUME NEW r \in Refunds, CancelRefund(r) \/ MarkRefunded(r) \/ UndoRefund(r)
        PROVE  AskIsFree'
    BY <2>4 DEF CancelRefund, MarkRefunded, UndoRefund, SetRefund, AskIsFree, RefundInv, TypeOK
  <2>5. ASSUME NEW target \in Orders, NEW sources \in SUBSET Orders, MergeOrders(target, sources)
        PROVE  AskIsFree'
    BY <2>5, MovedRefundStatus DEF MergeOrders, AskIsFree, RefundInv, TypeOK
  <2>6. CASE UNCHANGED <<refund, asking>>
    BY <2>6 DEF AskIsFree, RefundInv
  <2> QED
    BY ZenonT(60), <2>1, <2>2, <2>3, <2>4, <2>5, <2>6 DEF Next, PlaceUnpriced, ReleaseOrder,
       AuthoriseCreditRelease, RevokeCreditRelease, CancelOrder, DeadlinePasses, RedateOrder,
       FindStale, ExpireOrder, BeginConfirm, RefuseConfirm, DeleteOrder, PlaceOrder, SetOrderPrice,
       UpdateOrderTotal, FirstTruckIn, LastTruckOut, ConfirmOrderPayment, ClaimElsewhere, ReleaseElsewhere,
       AbortRemove, DeleteStatement, BeginRemove, RemovePayment, TransferSurplus, BeginReverse,
       ReverseTransfer, AbortReverse
<1>2. RefundBacked'
  <2> USE DEF RefundInv, RefundBacked, RefundRows
  <2>1. ASSUME NEW o \in Orders, DeleteOrder(o) PROVE RefundBacked'
    BY <2>1 DEF DeleteOrder, Rows, RefundRow
  <2>2. ASSUME NEW o \in Orders, NEW ls \in SUBSET Lines, ConfirmOrderPayment(o, ls)
        PROVE  RefundBacked'
    BY <2>2 DEF ConfirmOrderPayment, Statement
  <2>3. ASSUME NEW l \in Lines, ClaimElsewhere(l) \/ ReleaseElsewhere(l) PROVE RefundBacked'
    BY <2>3 DEF ClaimElsewhere, ReleaseElsewhere
  <2>13. ASSUME NEW l \in Lines, NEW o \in Orders, RemovePayment(l, o) PROVE RefundBacked'
    BY <2>13 DEF RemovePayment, Statement
  <2>4. ASSUME NEW ls \in SUBSET Lines, DeleteStatement(ls) PROVE RefundBacked'
    BY <2>4 DEF DeleteStatement
  <2>5. ASSUME NEW t \in Transfers, NEW from \in Orders, NEW to \in Orders,
               NEW v \in 1..MaxSurplus, TransferSurplus(t, from, to, v)
        PROVE  RefundBacked'
    BY <2>5 DEF TransferSurplus, LegIn, LegOut
  <2>6. ASSUME NEW t \in Transfers, ReverseTransfer(t) PROVE RefundBacked'
    BY <2>6 DEF ReverseTransfer
  <2>7. ASSUME NEW r \in Refunds, SkipOrder(r) \/ \E v \in 1..MaxSurplus : RequestRefund(r, v)
        PROVE  RefundBacked'
    BY <2>7 DEF SkipOrder, RequestRefund, Record, SetRefund, AskIsFree, TypeOK
  <2>8. ASSUME NEW r \in Refunds, CancelRefund(r) PROVE RefundBacked'
    BY <2>8 DEF CancelRefund, SetRefund, TypeOK, Refund, NoRefund
  <2>9. ASSUME NEW r \in Refunds, MarkRefunded(r) PROVE RefundBacked'
    BY <2>9 DEF MarkRefunded, SetRefund, RefundRow, TypeOK, Refund, NoRefund
  <2>10. ASSUME NEW r \in Refunds, UndoRefund(r) PROVE RefundBacked'
    BY <2>10 DEF UndoRefund, WithoutRefundRow, SetRefund, RefundRow, TypeOK, Refund, NoRefund
  <2>11. ASSUME NEW target \in Orders, NEW sources \in SUBSET Orders, MergeOrders(target, sources)
         PROVE  RefundBacked'
    <3>1. ASSUME NEW r \in Refunds PROVE RefundRows(r)' = {Moved(p, target, sources) : p \in RefundRows(r)}
      BY <2>11 DEF MergeOrders, Moved, TypeOK, Payment
    <3>2. ASSUME NEW r \in Refunds, refund[r].status = "refunded"
          PROVE  RefundRows(r)' = {RefundRow(r, refund'[r].order, refund'[r].amt)}
      <4>1. refund[r] \in [status: {"refunded"}, order: Orders, amt: Int]
        BY <3>2 DEF TypeOK, Refund, NoRefund
      <4>2. refund'[r] = [refund[r] EXCEPT !.order = IF @ \in sources THEN target ELSE @]
        BY <2>11, <3>2, <4>1 DEF MergeOrders, MovedRefund
      <4>3. Moved(RefundRow(r, refund[r].order, refund[r].amt), target, sources)
              = RefundRow(r, refund'[r].order, refund'[r].amt)
        BY <4>1, <4>2 DEF Moved, RefundRow
      <4> QED
        BY <3>1, <3>2, <4>3
    <3>3. \A r \in Refunds : refund'[r].status = "refunded" <=> refund[r].status = "refunded"
      BY <2>11, MovedRefundStatus DEF MergeOrders, TypeOK
    <3>4. ASSUME NEW r \in Refunds, refund[r].status # "refunded" PROVE RefundRows(r)' = {}
      BY <3>1, <3>4
    <3> QED
      BY <3>2, <3>3, <3>4
  <2>12. CASE UNCHANGED <<moneyVars, mergedInto>>
    BY <2>12
  <2> QED
    BY <2>1, <2>2, <2>3, <2>4, <2>5, <2>6, <2>7, <2>8, <2>9, <2>10, <2>11, <2>12,
       <2>13, MoneyCases DEF MoneyNext
<1> QED
  BY <1>1, <1>2 DEF RefundInv

(* A refund is paid exactly when its payment row is on the order it names, *)
(* whatever merges, undos and removals came in between.                    *)
THEOREM RefundsBacked == Spec => []RefundBacked
<1>1. Init => RefundInv
  BY DEF Init, RefundInv, RefundBacked, RefundRows, AskIsFree, NoRefund
<1> QED
  BY <1>1, InitType, StepType, RefundStep, PTL DEF Spec, RefundInv

LEMMA OneOpenStep == TypeOK /\ OneOpenRefund /\ AskIsFree /\ [Next]_vars => OneOpenRefund'
<1> SUFFICES ASSUME TypeOK, OneOpenRefund, AskIsFree, [Next]_vars PROVE OneOpenRefund'
  OBVIOUS
<1> USE DEF moneyVars, OneOpenRefund
<1>1. ASSUME NEW r \in Refunds, SkipOrder(r) \/ \E v \in 1..MaxSurplus : RequestRefund(r, v)
      PROVE  OneOpenRefund'
  BY <1>1 DEF SkipOrder, RequestRefund, Record, Insertable, RefundOpen, SetRefund, TypeOK
<1>2. ASSUME NEW r \in Refunds, CancelRefund(r) PROVE OneOpenRefund'
  BY <1>2 DEF CancelRefund, SetRefund, TypeOK, Refund, NoRefund
<1>3. ASSUME NEW r \in Refunds, MarkRefunded(r) PROVE OneOpenRefund'
  BY <1>3 DEF MarkRefunded, SetRefund, TypeOK, Refund, NoRefund
<1>4. ASSUME NEW r \in Refunds, UndoRefund(r) PROVE OneOpenRefund'
  BY <1>4 DEF UndoRefund, RefundOpen, SetRefund, TypeOK, Refund, NoRefund
<1>5. ASSUME NEW target \in Orders, NEW sources \in SUBSET Orders, MergeOrders(target, sources)
      PROVE  OneOpenRefund'
  <2> DEFINE all == sources \cup {target}
  <2>1. \A r \in Refunds : refund[r].order \in all => refund[r].status # "requested"
    BY <1>5 DEF MergeOrders, MergeBlocked, RefundOpen
  <2>2. \A r \in Refunds : /\ refund'[r].status \in {"requested", "skipped"}
                             => /\ refund'[r].status = refund[r].status
                                /\ refund[r].order \notin all
                                /\ refund'[r].order = refund[r].order
    BY <1>5, <2>1, MovedRefundStatus DEF MergeOrders, TypeOK
  <2> QED
    BY <2>2
<1>6. CASE UNCHANGED refund
  BY <1>6
<1> QED
  BY <1>1, <1>2, <1>3, <1>4, <1>5, <1>6, MoneyCases DEF MoneyNext, DeleteOrder,
     ConfirmOrderPayment, ClaimElsewhere, ReleaseElsewhere, DeleteStatement, RemovePayment,
     TransferSurplus, ReverseTransfer

(* At most one open request and one standing skip on an order: a merge     *)
(* never folds two of either onto the survivor.                            *)
THEOREM RefundsOpenOnce == Spec => []OneOpenRefund
<1>1. Init => RefundInv /\ OneOpenRefund
  BY DEF Init, RefundInv, RefundBacked, RefundRows, AskIsFree, NoRefund, OneOpenRefund
<1> QED
  BY <1>1, InitType, StepType, RefundStep, OneOpenStep, PTL DEF Spec, RefundInv

-----------------------------------------------------------------------------
(* What it takes to become ready to load.                                  *)

LEMMA CoverStep == TypeOK /\ [Next]_vars => NeedsCover
<1> SUFFICES ASSUME TypeOK, [Next]_vars PROVE NeedsCover
  OBVIOUS
<1> USE DEF NeedsCover, Ready, TypeOK, orderVars, cacheVars, moneyVars, flightVars, vars
<1>1. ASSUME NEW o \in Orders, PlaceUnpriced(o) \/ AuthoriseCreditRelease(o) \/ ReleaseOrder(o)
      PROVE  NeedsCover
  BY <1>1 DEF PlaceUnpriced, AuthoriseCreditRelease, ReleaseOrder
<1>2. ASSUME NEW o \in Orders, CancelOrder(o) \/ ExpireOrder(o) \/ BeginConfirm(o) \/ DeleteOrder(o)
      PROVE  NeedsCover
  BY <1>2 DEF CancelOrder, ExpireOrder, BeginConfirm, DeleteOrder
<1>3. ASSUME NEW o \in Orders, NEW t \in Prices, PlaceOrder(o, t) PROVE NeedsCover
  BY <1>3 DEF PlaceOrder
<1>4. ASSUME NEW o \in Orders, FirstTruckIn(o) \/ LastTruckOut(o) PROVE NeedsCover
  BY <1>4 DEF FirstTruckIn, LastTruckOut
<1>5. ASSUME NEW o \in Orders, NEW ls \in SUBSET Lines, ConfirmOrderPayment(o, ls) PROVE NeedsCover
  BY <1>5 DEF ConfirmOrderPayment, AfterDeskPayment
<1>6. ASSUME NEW t \in Transfers, NEW from \in Orders, NEW to \in Orders,
             NEW v \in 1..MaxSurplus, TransferSurplus(t, from, to, v)
      PROVE  NeedsCover
  BY <1>6 DEF TransferSurplus, AfterTransferredPayment
<1>7. ASSUME NEW target \in Orders, NEW sources \in SUBSET Orders, MergeOrders(target, sources)
      PROVE  NeedsCover
  <2>1. CASE \E s \in sources : status[s] \in Ready
    BY <1>7, <2>1 DEF MergeOrders, MergeBlocked
  <2>2. CASE \A s \in sources : status[s] \notin Ready
    <3>1. status[target] \notin Ready => CombinedStatus(sources \cup {target}) \in {"Paid", "Pending"}
      BY <2>2 DEF CombinedStatus
    <3> QED
      BY <1>7, <3>1 DEF MergeOrders, AfterTransferredPayment
  <2> QED
    BY <2>1, <2>2
<1>8. CASE UNCHANGED status
  BY <1>8
<1> QED
  BY <1>1, <1>2, <1>3, <1>4, <1>5, <1>6, <1>7, <1>8 DEF Next, RevokeCreditRelease, DeadlinePasses,
     RedateOrder, FindStale, RefuseConfirm, SetOrderPrice, UpdateOrderTotal, ClaimElsewhere,
     ReleaseElsewhere, AbortRemove, DeleteStatement, BeginRemove, RemovePayment, BeginReverse,
     ReverseTransfer, AbortReverse, SeeSurplus, RequestRefund, SkipOrder, RefuseAsk, CancelRefund,
     MarkRefunded, UndoRefund, Record

(* Nothing loads on an outstanding: an order becomes ready to load only    *)
(* when it is paid in full or trusted, or takes a release over by a merge. *)
THEOREM ReadyIsCovered == Spec => ReleaseNeedsCover
BY CoverStep, InitType, StepType, PTL DEF Spec, ReleaseNeedsCover

-----------------------------------------------------------------------------
(* Statement lines.                                                        *)

(* A statement row is the row its line and its order determine.            *)
StatementShape ==
  \A p \in payments : p.src = "statement" => p.ref \in Lines /\ p = Statement(p.ref, p.order)

LineInv == StatementShape /\ LineUsedOnce /\ StuckOnlyByDelete

(* A deleted order stays deleted.                                          *)
LEMMA DeletedStays ==
  TypeOK /\ [Next]_vars => \A x \in Orders : status[x] = "Deleted" => status'[x] = "Deleted"
<1> SUFFICES ASSUME TypeOK, [Next]_vars, NEW x \in Orders, status[x] = "Deleted"
             PROVE  status'[x] = "Deleted"
  OBVIOUS
<1> USE DEF TypeOK, orderVars, cacheVars, moneyVars, flightVars, vars
<1>1. ~Legal(status[x], "Paid") /\ ~Legal(status[x], "Released") /\ ~Legal(status[x], "Cancelled")
      /\ ~Legal(status[x], "Expired") /\ ~Legal(status[x], "Loading") /\ ~Legal(status[x], "Completed")
  BY DEF Legal, Transitions
<1>2. ASSUME NEW o \in Orders,
             \/ PlaceUnpriced(o) \/ AuthoriseCreditRelease(o) \/ ReleaseOrder(o) \/ CancelOrder(o)
             \/ ExpireOrder(o) \/ BeginConfirm(o) \/ DeleteOrder(o)
      PROVE  status'[x] = "Deleted"
  BY <1>1, <1>2 DEF PlaceUnpriced, AuthoriseCreditRelease, Creditable, ReleaseOrder, CancelOrder,
     ExpireOrder, BeginConfirm, DeleteOrder, Exists
<1>3. ASSUME NEW o \in Orders, NEW t \in Prices, PlaceOrder(o, t) PROVE status'[x] = "Deleted"
  BY <1>3 DEF PlaceOrder
<1>4. ASSUME NEW o \in Orders, FirstTruckIn(o) \/ LastTruckOut(o) PROVE status'[x] = "Deleted"
  BY <1>1, <1>4 DEF FirstTruckIn, LastTruckOut
<1>5. ASSUME NEW o \in Orders, NEW ls \in SUBSET Lines, ConfirmOrderPayment(o, ls)
      PROVE  status'[x] = "Deleted"
  BY <1>5 DEF ConfirmOrderPayment, Payable
<1>6. ASSUME NEW t \in Transfers, NEW from \in Orders, NEW to \in Orders,
             NEW v \in 1..MaxSurplus, TransferSurplus(t, from, to, v)
      PROVE  status'[x] = "Deleted"
  BY <1>6 DEF TransferSurplus, Exists
<1>7. ASSUME NEW target \in Orders, NEW sources \in SUBSET Orders, MergeOrders(target, sources)
      PROVE  status'[x] = "Deleted"
  BY <1>7 DEF MergeOrders, MergeBlocked, Live
<1>8. CASE UNCHANGED status
  BY <1>8
<1> QED
  BY <1>2, <1>3, <1>4, <1>5, <1>6, <1>7, <1>8 DEF Next, RevokeCreditRelease, DeadlinePasses,
     RedateOrder, FindStale, RefuseConfirm, SetOrderPrice, UpdateOrderTotal, ClaimElsewhere,
     ReleaseElsewhere, AbortRemove, DeleteStatement, BeginRemove, RemovePayment, BeginReverse,
     ReverseTransfer, AbortReverse, SeeSurplus, RequestRefund, SkipOrder, RefuseAsk, CancelRefund,
     MarkRefunded, UndoRefund, Record

LEMMA LineStep == TypeOK /\ LineInv /\ [Next]_vars => LineInv'
<1> SUFFICES ASSUME TypeOK, LineInv, [Next]_vars PROVE LineInv'
  OBVIOUS
<1> USE DEF LineInv, orderVars, cacheVars, moneyVars, flightVars
<1>a. \A x \in Orders : status[x] = "Deleted" => status'[x] = "Deleted"
  BY DeletedStays
<1>1. ASSUME NEW o \in Orders, DeleteOrder(o) PROVE LineInv'
  <2>1. StatementShape'
    BY <1>1 DEF DeleteOrder, Rows, StatementShape
  <2>2. LineUsedOnce'
    BY <1>1 DEF DeleteOrder, Rows, LineUsedOnce, StatementRows
  <2>3. ASSUME NEW l \in Lines, StatementRows(l) # {}, line[l].order # o PROVE StatementRows(l)' # {}
    <3>1. PICK p \in StatementRows(l) : TRUE
      BY <2>3
    <3>2. p.order # o
      BY <2>3, <3>1 DEF LineUsedOnce
    <3> QED
      BY <1>1, <3>1, <3>2 DEF DeleteOrder, Rows, StatementRows
  <2>4. StuckOnlyByDelete'
    BY <1>1, <1>a, <2>3 DEF DeleteOrder, StuckOnlyByDelete, TypeOK
  <2> QED
    BY <2>1, <2>2, <2>4
<1>2. ASSUME NEW o \in Orders, NEW ls \in SUBSET Lines, ConfirmOrderPayment(o, ls) PROVE LineInv'
  <2>1. \A l \in ls : StatementRows(l) = {} /\ l \notin elsewhere
    BY <1>2 DEF ConfirmOrderPayment, Claimable, LineUsedOnce
  <2>2. \A l \in Lines : StatementRows(l)' = IF l \in ls THEN {Statement(l, o)} ELSE StatementRows(l)
    BY <1>2, <2>1 DEF ConfirmOrderPayment, Statement, StatementRows
  <2>3. \A l \in Lines : line'[l] = IF l \in ls THEN [status |-> "MATCHED", order |-> o] ELSE line[l]
    BY <1>2 DEF ConfirmOrderPayment
  <2>4. StatementShape'
    BY <1>2 DEF ConfirmOrderPayment, StatementShape, Statement
  <2>6. elsewhere' = elsewhere
    BY <1>2 DEF ConfirmOrderPayment
  <2>7. LineUsedOnce'
    <3> SUFFICES ASSUME NEW l \in Lines
                 PROVE  /\ \A p, q \in StatementRows(l)' : p = q
                        /\ \A p \in StatementRows(l)' :
                             l \notin elsewhere /\ line'[l].status = "MATCHED" /\ line'[l].order = p.order
                        /\ l \in elsewhere => line'[l].status = "MATCHED"
      BY <2>6 DEF LineUsedOnce
    <3>1. CASE l \in ls
      BY <2>1, <2>2, <2>3, <3>1 DEF Statement
    <3>2. CASE l \notin ls
      BY <2>2, <2>3, <3>2 DEF LineUsedOnce
    <3> QED
      BY <3>1, <3>2
  <2>8. StuckOnlyByDelete'
    BY <1>a, <2>2, <2>3, <2>6 DEF StuckOnlyByDelete
  <2> QED
    BY <2>4, <2>7, <2>8
<1>3. ASSUME NEW l \in Lines, ClaimElsewhere(l) PROVE LineInv'
  BY <1>3 DEF ClaimElsewhere, Claimable, TypeOK, StatementShape, LineUsedOnce, StuckOnlyByDelete, StatementRows
<1>4. ASSUME NEW l \in Lines, ReleaseElsewhere(l) PROVE LineInv'
  BY <1>4 DEF ReleaseElsewhere, FreedLine, TypeOK, StatementShape, LineUsedOnce, StuckOnlyByDelete, StatementRows
<1>5. ASSUME NEW ls \in SUBSET Lines, DeleteStatement(ls) PROVE LineInv'
  BY <1>5 DEF DeleteStatement, TypeOK, Line, StatementShape, LineUsedOnce, StuckOnlyByDelete, StatementRows
<1>6. ASSUME NEW l \in Lines, NEW o \in Orders, RemovePayment(l, o) PROVE LineInv'
  <2>1. StatementRows(l)' = {}
    BY <1>6 DEF RemovePayment, Statement, StatementRows, LineUsedOnce
  <2>2. \A x \in Lines : x # l => StatementRows(x)' = StatementRows(x)
    BY <1>6 DEF RemovePayment, Statement, StatementRows
  <2>3. StatementShape'
    BY <1>6 DEF RemovePayment, StatementShape
  <2>4. \A x \in Lines : line'[x] = IF x = l THEN FreedLine ELSE line[x]
    BY <1>6 DEF RemovePayment, TypeOK
  <2>5. l \notin elsewhere /\ elsewhere' = elsewhere /\ status' = status
    BY <1>6 DEF RemovePayment, LineUsedOnce, StatementRows, Statement
  <2>6. LineUsedOnce'
    BY <2>1, <2>2, <2>4, <2>5 DEF LineUsedOnce
  <2>7. StuckOnlyByDelete'
    BY <2>1, <2>2, <2>4, <2>5 DEF StuckOnlyByDelete, FreedLine
  <2> QED
    BY <2>3, <2>6, <2>7
<1>7. ASSUME NEW t \in Transfers, NEW from \in Orders, NEW to \in Orders,
             NEW v \in 1..MaxSurplus, TransferSurplus(t, from, to, v)
      PROVE  LineInv'
  <2>1. \A x \in Lines : StatementRows(x)' = StatementRows(x)
    BY <1>7 DEF TransferSurplus, LegIn, LegOut, StatementRows
  <2>2. StatementShape'
    BY <1>7 DEF TransferSurplus, LegIn, LegOut, StatementShape
  <2>3. line' = line /\ elsewhere' = elsewhere
    BY <1>7 DEF TransferSurplus
  <2> QED
    BY <1>a, <2>1, <2>2, <2>3 DEF LineUsedOnce, StuckOnlyByDelete
<1>8. ASSUME NEW t \in Transfers, ReverseTransfer(t) PROVE LineInv'
  BY <1>8 DEF ReverseTransfer, StatementShape, LineUsedOnce, StuckOnlyByDelete, StatementRows
<1>9. ASSUME NEW r \in Refunds, SkipOrder(r) \/ CancelRefund(r) \/ \E v \in 1..MaxSurplus : RequestRefund(r, v)
      PROVE  LineInv'
  <2>1. UNCHANGED <<payments, line, elsewhere, status>>
    BY <1>9 DEF SkipOrder, CancelRefund, RequestRefund, Record
  <2> QED
    BY <2>1 DEF StatementShape, LineUsedOnce, StuckOnlyByDelete, StatementRows
<1>10. ASSUME NEW r \in Refunds, MarkRefunded(r) PROVE LineInv'
  BY <1>10 DEF MarkRefunded, RefundRow, StatementShape, LineUsedOnce, StuckOnlyByDelete, StatementRows
<1>11. ASSUME NEW r \in Refunds, UndoRefund(r) PROVE LineInv'
  BY <1>11 DEF UndoRefund, WithoutRefundRow, StatementShape, LineUsedOnce, StuckOnlyByDelete, StatementRows
<1>12. ASSUME NEW target \in Orders, NEW sources \in SUBSET Orders, MergeOrders(target, sources)
       PROVE  LineInv'
  <2> DEFINE To(x) == IF x \in sources THEN target ELSE x
  <2>1. \A p \in payments : /\ Moved(p, target, sources).src = p.src
                            /\ Moved(p, target, sources).ref = p.ref
                            /\ Moved(p, target, sources).order = To(p.order)
    BY DEF Moved, TypeOK, Payment
  <2>2. \A p \in payments : p.src = "statement" =>
          p.ref \in Lines /\ Moved(p, target, sources) = Statement(p.ref, To(p.order))
    BY DEF Moved, Statement, StatementShape
  <2>3. StatementShape'
    BY <1>12, <2>1, <2>2 DEF MergeOrders, StatementShape
  <2>4. \A l \in Lines : StatementRows(l)' = {Moved(p, target, sources) : p \in StatementRows(l)}
    BY <1>12, <2>1 DEF MergeOrders, StatementRows
  <2>5. \A l \in Lines : line'[l].status = line[l].status /\ line'[l].order = To(line[l].order)
    BY <1>12 DEF MergeOrders, Moved, TypeOK, Line
  <2>6. elsewhere' = elsewhere
    BY <1>12 DEF MergeOrders
  <2>7. LineUsedOnce'
    <3> SUFFICES ASSUME NEW l \in Lines
                 PROVE  /\ \A p, q \in StatementRows(l)' : p = q
                        /\ \A p \in StatementRows(l)' :
                             l \notin elsewhere /\ line'[l].status = "MATCHED" /\ line'[l].order = p.order
                        /\ l \in elsewhere => line'[l].status = "MATCHED"
      BY <2>6 DEF LineUsedOnce
    <3>1. \A p \in StatementRows(l) :
            /\ l \notin elsewhere
            /\ line'[l].status = "MATCHED"
            /\ line'[l].order = Moved(p, target, sources).order
      BY <2>1, <2>5 DEF LineUsedOnce, StatementRows
    <3>2. \A p, q \in StatementRows(l) : p = q
      BY DEF LineUsedOnce
    <3>3. l \in elsewhere => line'[l].status = "MATCHED"
      BY <2>5 DEF LineUsedOnce
    <3> QED
      BY <2>4, <3>1, <3>2, <3>3
  <2>8. StuckOnlyByDelete'
    <3>1. \A o \in sources : status[o] # "Deleted"
      BY <1>12 DEF MergeOrders, MergeBlocked, Live
    <3>2. \A l \in Lines : StatementRows(l) # {} => StatementRows(l)' # {}
      BY <2>4
    <3> QED
      BY <1>a, <2>5, <2>6, <3>1, <3>2 DEF StuckOnlyByDelete
  <2> QED
    BY <2>3, <2>7, <2>8
<1>13. CASE UNCHANGED <<moneyVars, mergedInto>>
  BY <1>13, <1>a DEF TypeOK, Line, StatementShape, LineUsedOnce, StuckOnlyByDelete, StatementRows
<1> QED
  BY <1>1, <1>2, <1>3, <1>4, <1>5, <1>6, <1>7, <1>8, <1>9, <1>10, <1>11, <1>12, <1>13, MoneyCases
     DEF MoneyNext

LEMMA LineInit == Init => LineInv
BY DEF Init, LineInv, StatementShape, LineUsedOnce, StuckOnlyByDelete, StatementRows

(* A bank credit is used once: behind one row at most, on the order its    *)
(* line names, and never behind a deposit or a delivery sale as well.      *)
THEOREM LinesUsedOnce == Spec => []LineUsedOnce
BY LineInit, InitType, StepType, LineStep, PTL DEF Spec, LineInv

(* Only the deletion of an order leaves a line matched with nothing behind. *)
THEOREM StuckLinesByDelete == Spec => []StuckOnlyByDelete
BY LineInit, InitType, StepType, LineStep, PTL DEF Spec, LineInv

-----------------------------------------------------------------------------
(* The two legs of a transfer.                                             *)

(* Where the legs of a live transfer sit: on the orders it names, or both  *)
(* on one order that some order was merged into.  The second disjunct is   *)
(* stronger than LegsTogether asks: it is what keeps that order from being *)
(* deleted under the legs.                                                 *)
LegsAt(t, a, b) ==
  /\ Legs(t) = {LegOut(t, a, transfer[t].amt), LegIn(t, b, transfer[t].amt)}
  /\ \/ a = transfer[t].from /\ b = transfer[t].to
     \/ /\ a = b
        /\ \E x \in {transfer[t].from, transfer[t].to} : mergedInto[x] # NoOrder
        /\ \E y \in Orders : mergedInto[y] = a

LegInv ==
  \A t \in Transfers :
    IF ~transfer[t].live THEN Legs(t) = {}
    ELSE transfer[t].from # transfer[t].to /\ \E a, b \in Orders : LegsAt(t, a, b)

LEMMA LegStep == TypeOK /\ LegInv /\ [Next]_vars => LegInv'
<1> SUFFICES ASSUME TypeOK, LegInv, [Next]_vars PROVE LegInv'
  OBVIOUS
<1> USE DEF moneyVars, orderVars
<1>1. ASSUME NEW o \in Orders, DeleteOrder(o) PROVE LegInv'
  <2>1. UNCHANGED <<transfer, mergedInto>>
    BY <1>1 DEF DeleteOrder
  <2>2. ASSUME NEW t \in Transfers, ~transfer[t].live PROVE Legs(t)' = {}
    BY <1>1, <2>2 DEF DeleteOrder, LegInv, Legs
  <2>3. ASSUME NEW t \in Transfers, transfer[t].live PROVE \E a, b \in Orders : LegsAt(t, a, b)'
    <3>1. PICK a \in Orders, b \in Orders : LegsAt(t, a, b)
      BY <2>3 DEF LegInv
    <3>2. a # o /\ b # o
      BY <1>1, <3>1 DEF DeleteOrder, LegsAt
    <3>3. Legs(t)' = Legs(t)
      BY <1>1, <3>1, <3>2 DEF DeleteOrder, Rows, Legs, LegsAt, LegOut, LegIn
    <3> QED
      BY <2>1, <3>1, <3>3 DEF LegsAt
  <2> QED
    BY <2>1, <2>2, <2>3 DEF LegInv
<1>2. ASSUME UNCHANGED <<transfer, mergedInto>>, \A t \in Transfers : Legs(t)' = Legs(t) PROVE LegInv'
  BY <1>2 DEF LegInv, LegsAt
<1>3. ASSUME NEW o \in Orders, NEW ls \in SUBSET Lines, ConfirmOrderPayment(o, ls) PROVE LegInv'
  BY <1>2, <1>3 DEF ConfirmOrderPayment, Statement, Legs
<1>4. ASSUME NEW l \in Lines, ClaimElsewhere(l) \/ ReleaseElsewhere(l) PROVE LegInv'
  BY <1>2, <1>4 DEF ClaimElsewhere, ReleaseElsewhere, Legs
<1>5. ASSUME NEW ls \in SUBSET Lines, DeleteStatement(ls) PROVE LegInv'
  BY <1>2, <1>5 DEF DeleteStatement, Legs
<1>6. ASSUME NEW l \in Lines, NEW o \in Orders, RemovePayment(l, o) PROVE LegInv'
  BY <1>2, <1>6 DEF RemovePayment, Statement, Legs
<1>7. ASSUME NEW r \in Refunds, SkipOrder(r) \/ CancelRefund(r) \/ \E v \in 1..MaxSurplus : RequestRefund(r, v)
      PROVE  LegInv'
  BY <1>2, <1>7 DEF SkipOrder, CancelRefund, RequestRefund, Record, Legs
<1>8. ASSUME NEW r \in Refunds, MarkRefunded(r) PROVE LegInv'
  BY <1>2, <1>8 DEF MarkRefunded, RefundRow, Legs
<1>9. ASSUME NEW r \in Refunds, UndoRefund(r) PROVE LegInv'
  BY <1>2, <1>9 DEF UndoRefund, WithoutRefundRow, Legs
<1>10. ASSUME NEW t \in Transfers, NEW from \in Orders, NEW to \in Orders,
              NEW v \in 1..MaxSurplus, TransferSurplus(t, from, to, v)
       PROVE  LegInv'
  <2>1. mergedInto' = mergedInto
    BY <1>10 DEF TransferSurplus
  <2>2. transfer' = [transfer EXCEPT ![t] = [live |-> TRUE, from |-> from, to |-> to, amt |-> v]]
    BY <1>10 DEF TransferSurplus
  <2>3. ASSUME NEW u \in Transfers, u # t PROVE Legs(u)' = Legs(u) /\ transfer'[u] = transfer[u]
    BY <1>10, <2>2, <2>3 DEF TransferSurplus, Legs, LegIn, LegOut, TypeOK
  <2>4. Legs(t)' = {LegOut(t, from, v), LegIn(t, to, v)}
    BY <1>10 DEF TransferSurplus, LegInv, Legs, LegIn, LegOut
  <2>5. transfer'[t] = [live |-> TRUE, from |-> from, to |-> to, amt |-> v]
    BY <2>2 DEF TypeOK
  <2>6. from # to
    BY <1>10 DEF TransferSurplus
  <2>7. LegsAt(t, from, to)'
    BY <2>4, <2>5 DEF LegsAt
  <2> QED
    BY <2>1, <2>3, <2>5, <2>6, <2>7 DEF LegInv, LegsAt
<1>11. ASSUME NEW t \in Transfers, ReverseTransfer(t) PROVE LegInv'
  <2>1. mergedInto' = mergedInto
    BY <1>11 DEF ReverseTransfer
  <2>2. ASSUME NEW u \in Transfers, u # t PROVE Legs(u)' = Legs(u) /\ transfer'[u] = transfer[u]
    BY <1>11, <2>2 DEF ReverseTransfer, Legs, TypeOK
  <2>3. Legs(t)' = {}
    BY <1>11 DEF ReverseTransfer, Legs
  <2>4. ~transfer'[t].live
    BY <1>11 DEF ReverseTransfer, NoTransfer, TypeOK
  <2> QED
    BY <2>1, <2>2, <2>3, <2>4 DEF LegInv, LegsAt
<1>12. ASSUME NEW target \in Orders, NEW sources \in SUBSET Orders, MergeOrders(target, sources)
       PROVE  LegInv'
  <2> DEFINE To(x) == IF x \in sources THEN target ELSE x
             all == sources \cup {target}
  <2>1. \A o \in all : mergedInto[o] = NoOrder
    BY <1>12 DEF MergeOrders, MergeBlocked
  <2>2. \A o \in Orders : mergedInto'[o] = IF o \in sources THEN target ELSE mergedInto[o]
    BY <1>12 DEF MergeOrders
  <2>3. \A t \in Transfers : Legs(t)' = {Moved(p, target, sources) : p \in Legs(t)}
    BY <1>12 DEF MergeOrders, Legs, Moved, TypeOK, Payment
  <2>4. \A t \in Transfers : transfer'[t] = MovedTransfer(transfer[t], target, sources)
    BY <1>12 DEF MergeOrders
  <2>5. ASSUME NEW t \in Transfers, ~transfer[t].live PROVE ~transfer'[t].live /\ Legs(t)' = {}
    <3>1. Legs(t) = {}
      BY <2>5 DEF LegInv
    <3>2. transfer[t] = NoTransfer
      BY <2>5 DEF TypeOK, Transfer
    <3>3. ~transfer'[t].live
      BY <2>4, <2>5, <3>2 DEF MovedTransfer, NoTransfer
    <3> QED
      BY <2>3, <3>1, <3>3
  <2>6. ASSUME NEW t \in Transfers, transfer[t].live
        PROVE  /\ transfer'[t].live
               /\ transfer'[t].from # transfer'[t].to
               /\ \E a, b \in Orders : LegsAt(t, a, b)'
    <3> DEFINE tr == transfer[t]
    <3>1. tr \in [live: {TRUE}, from: Orders, to: Orders, amt: Int] /\ tr.from # tr.to
      <4>1. tr \in Transfer /\ tr.live
        BY <2>6 DEF TypeOK
      <4>2. tr \in [live: {TRUE}, from: Orders, to: Orders, amt: Int]
        <5>1. tr # NoTransfer
          BY <4>1 DEF NoTransfer
        <5> QED
          BY <4>1, <5>1 DEF Transfer
      <4> QED
        BY <2>6, <4>2 DEF LegInv
    <3>2. /\ transfer'[t].live
          /\ transfer'[t].amt = tr.amt
          /\ IF {tr.from, tr.to} \subseteq all
             THEN transfer'[t].from = tr.from /\ transfer'[t].to = tr.to
             ELSE transfer'[t].from = To(tr.from) /\ transfer'[t].to = To(tr.to)
      BY <2>4, <3>1 DEF MovedTransfer
    <3>3. transfer'[t].from # transfer'[t].to
      BY <3>1, <3>2
    <3>4. PICK a \in Orders, b \in Orders : LegsAt(t, a, b)
      BY <2>6 DEF LegInv
    <3>5. Legs(t)' = {LegOut(t, To(a), tr.amt), LegIn(t, To(b), tr.amt)}
      <4>1. /\ Moved(LegOut(t, a, tr.amt), target, sources) = LegOut(t, To(a), tr.amt)
            /\ Moved(LegIn(t, b, tr.amt), target, sources) = LegIn(t, To(b), tr.amt)
        BY DEF Moved, LegOut, LegIn
      <4>2. Legs(t) = {LegOut(t, a, tr.amt), LegIn(t, b, tr.amt)}
        BY <3>4 DEF LegsAt
      <4> QED
        BY <2>3, <4>1, <4>2
    <3>a. To(a) \in Orders /\ To(b) \in Orders
      OBVIOUS
    <3>6. ASSUME a = tr.from /\ b = tr.to /\ {tr.from, tr.to} \subseteq all
          PROVE  \E c, d \in Orders : LegsAt(t, c, d)'
      <4>1. \E x \in {tr.from, tr.to} : x \in sources
        BY <3>1, <3>6
      <4>2. To(a) = target /\ To(b) = target
        BY <3>6
      <4>3. \E x \in {transfer'[t].from, transfer'[t].to} : mergedInto'[x] = target
        BY <2>2, <3>1, <3>2, <3>6, <4>1
      <4>4. LegsAt(t, target, target)'
        <5>1. Legs(t)' = {LegOut(t, target, transfer'[t].amt), LegIn(t, target, transfer'[t].amt)}
          BY <3>2, <3>5, <4>2
        <5>2. target # NoOrder
          BY LedgerAssumption
        <5>3. \E y \in Orders : mergedInto'[y] = target
          BY <2>2, <4>1
        <5> QED
          BY <4>3, <5>1, <5>2, <5>3 DEF LegsAt
      <4> QED
        BY <4>4
    <3>7. ASSUME a = tr.from /\ b = tr.to /\ ~({tr.from, tr.to} \subseteq all)
          PROVE  \E c, d \in Orders : LegsAt(t, c, d)'
      <4>1. LegsAt(t, To(a), To(b))'
        BY <3>2, <3>5, <3>7 DEF LegsAt
      <4> QED
        BY <3>a, <4>1
    <3>8. ASSUME ~(a = tr.from /\ b = tr.to)
          PROVE  \E c, d \in Orders : LegsAt(t, c, d)'
      <4>1. a = b
        BY <3>4, <3>8 DEF LegsAt
      <4>2. PICK x \in {tr.from, tr.to} : mergedInto[x] # NoOrder
        BY <3>4, <3>8 DEF LegsAt
      <4>3. PICK y \in Orders : mergedInto[y] = a
        BY <3>4, <3>8 DEF LegsAt
      <4>4. x \notin all /\ x \in Orders
        BY <2>1, <3>1, <4>2
      <4>5. x \in {transfer'[t].from, transfer'[t].to} /\ mergedInto'[x] # NoOrder
        BY <2>2, <3>2, <4>2, <4>4
      <4>6. \E z \in Orders : mergedInto'[z] = To(a)
        <5>1. CASE a \in sources
          BY <2>2, <5>1
        <5>2. CASE a \notin sources
          BY <2>1, <2>2, <4>3, <5>2, LedgerAssumption
        <5> QED
          BY <5>1, <5>2
      <4>7. LegsAt(t, To(a), To(b))'
        BY <3>2, <3>5, <4>1, <4>5, <4>6 DEF LegsAt
      <4> QED
        BY <3>a, <4>7
    <3> QED
      BY <3>2, <3>3, <3>6, <3>7, <3>8
  <2> QED
    BY <2>5, <2>6 DEF LegInv
<1>13. CASE UNCHANGED <<moneyVars, mergedInto>>
  BY <1>2, <1>13 DEF Legs
<1> QED
  BY <1>1, <1>3, <1>4, <1>5, <1>6, <1>7, <1>8, <1>9, <1>10, <1>11, <1>12, <1>13, MoneyCases
     DEF MoneyNext

(* The two legs of a transfer are both there or neither is, and cancel     *)
(* out, through any sequence of merges, reversals and deletions.           *)
THEOREM TransfersKeepLegs == Spec => []LegsTogether
<1>1. Init => LegInv
  BY DEF Init, LegInv, Legs, NoTransfer
<1>2. LegInv => LegsTogether
  BY DEF LegInv, LegsTogether, LegsAt
<1> QED
  BY <1>1, <1>2, InitType, StepType, LegStep, PTL DEF Spec

-----------------------------------------------------------------------------
(* The payment status follows the money and the value.                     *)

(* An order whose value is not set yet holds nothing.                      *)
UnpricedEmpty ==
  \A o \in Orders : ~priced[o] => total[o] = 0 /\ Rows(payments, o) = {} /\ amountPaid[o] = 0
AbsentUnpriced == \A o \in Orders : status[o] = "Absent" => ~priced[o]
RefundPositive == \A r \in Refunds : refund[r].status \in {"requested", "refunded"} => refund[r].amt > 0

PaidInv == UnpricedEmpty /\ AbsentUnpriced /\ RefundPositive /\ PayStatusCurrent

LEMMA SurplusIsPriced ==
  ASSUME TypeOK, UnpricedEmpty, NEW o \in Orders, Surplus(o) > 0
  PROVE  priced[o]
<1> SUFFICES ASSUME ~priced[o] PROVE FALSE
  OBVIOUS
<1>1. Received(payments, o) = 0 /\ total[o] = 0
  BY NoRowsNoMoney DEF UnpricedEmpty
<1> QED
  BY <1>1 DEF Surplus, BiggerOf

(* A step that recomputes every order whose rows or value it changes.      *)
LEMMA RecomputePaid ==
  ASSUME TypeOK, UnpricedEmpty, PayStatusCurrent, NEW S, Recompute(S, total'),
         \A o \in Orders : o \notin S => total'[o] = total[o],
         \A o \in Orders : status'[o] # "Deleted" => status[o] # "Deleted",
         \A o \in Orders : ~priced'[o] =>
           ~priced[o] /\ total'[o] = total[o] /\ Rows(payments', o) \subseteq Rows(payments, o)
  PROVE  UnpricedEmpty' /\ PayStatusCurrent'
<1>1. ASSUME NEW o \in Orders, ~priced'[o]
      PROVE  total'[o] = 0 /\ Rows(payments', o) = {} /\ amountPaid'[o] = 0
  <2>1. ~priced[o] /\ total'[o] = 0 /\ Rows(payments', o) = {}
    BY <1>1 DEF UnpricedEmpty
  <2>2. Received(payments', o) = 0
    BY <2>1, NoRowsNoMoney
  <2> QED
    BY <2>1, <2>2 DEF Recompute, UnpricedEmpty
<1>2. UnpricedEmpty'
  BY <1>1 DEF UnpricedEmpty
<1>3. PayStatusCurrent'
  BY DEF PayStatusCurrent, Recompute
<1> QED
  BY <1>2, <1>3

LEMMA PaidStep == TypeOK /\ PaidInv /\ [Next]_vars => PaidInv'
<1> SUFFICES ASSUME TypeOK, PaidInv, [Next]_vars PROVE PaidInv'
  OBVIOUS
<1> USE DEF PaidInv, orderVars, cacheVars, moneyVars, flightVars, vars
<1>1. RefundPositive'
  <2> USE DEF RefundPositive
  <2>1. ASSUME NEW r \in Refunds, SkipOrder(r) \/ \E v \in 1..MaxSurplus : RequestRefund(r, v)
        PROVE  RefundPositive'
    BY <2>1 DEF SkipOrder, RequestRefund, Record, SetRefund, TypeOK
  <2>2. ASSUME NEW r \in Refunds, CancelRefund(r) PROVE RefundPositive'
    BY <2>2 DEF CancelRefund, SetRefund, TypeOK, Refund, NoRefund
  <2>3. ASSUME NEW r \in Refunds, MarkRefunded(r) PROVE RefundPositive'
    BY <2>3 DEF MarkRefunded, SetRefund, TypeOK, Refund, NoRefund
  <2>4. ASSUME NEW r \in Refunds, UndoRefund(r) PROVE RefundPositive'
    BY <2>4 DEF UndoRefund, SetRefund, TypeOK, Refund, NoRefund
  <2>5. ASSUME NEW target \in Orders, NEW sources \in SUBSET Orders, MergeOrders(target, sources)
        PROVE  RefundPositive'
    BY <2>5, MovedRefundStatus DEF MergeOrders, TypeOK
  <2>6. CASE UNCHANGED refund
    BY <2>6
  <2> QED
    BY ZenonT(60), <2>1, <2>2, <2>3, <2>4, <2>5, <2>6, MoneyCases DEF MoneyNext, DeleteOrder,
       ConfirmOrderPayment, ClaimElsewhere, ReleaseElsewhere, DeleteStatement, RemovePayment,
       TransferSurplus, ReverseTransfer
<1>a. \A o \in Orders : status'[o] # "Deleted" => status[o] # "Deleted"
  BY DeletedStays
<1>2. ASSUME NEW o \in Orders, PlaceUnpriced(o) PROVE PaidInv'
  BY <1>1, <1>2, <1>a DEF PlaceUnpriced, UnpricedEmpty, AbsentUnpriced, PayStatusCurrent, TypeOK
<1>3. ASSUME NEW o \in Orders, NEW t \in Prices, PlaceOrder(o, t) \/ SetOrderPrice(o, t) PROVE PaidInv'
  <2>1. amountPaid[o] = 0 /\ status[o] # "Deleted"
    BY <1>3 DEF PlaceOrder, SetOrderPrice, Exists, UnpricedEmpty, AbsentUnpriced
  <2>2. /\ total' = [total EXCEPT ![o] = t]
        /\ priced' = [priced EXCEPT ![o] = TRUE]
        /\ UNCHANGED <<payments, amountPaid, payStatus>>
    BY <1>3 DEF PlaceOrder, SetOrderPrice
  <2>3. payStatus[o] = "Unpaid"
    <3>1. payStatus[o] = PayStatusFor(0, total[o])
      BY <2>1 DEF PayStatusCurrent
    <3> QED
      BY <3>1 DEF PayStatusFor
  <2>4. PayStatusFor(0, t) = "Unpaid"
    BY DEF PayStatusFor
  <2>5. PayStatusCurrent'
    BY <1>a, <2>1, <2>2, <2>3, <2>4 DEF PayStatusCurrent, TypeOK
  <2>6. UnpricedEmpty'
    BY <2>2 DEF UnpricedEmpty, TypeOK
  <2>7. AbsentUnpriced'
    BY <1>3 DEF PlaceOrder, SetOrderPrice, Exists, AbsentUnpriced, TypeOK
  <2> QED
    BY <1>1, <2>5, <2>6, <2>7
<1>4. ASSUME NEW o \in Orders, NEW t \in Prices, UpdateOrderTotal(o, t) PROVE PaidInv'
  <2>1. AbsentUnpriced'
    BY <1>4 DEF UpdateOrderTotal, AbsentUnpriced
  <2>2. Recompute({o}, total') /\ total' = [total EXCEPT ![o] = t] /\ UNCHANGED <<payments, priced>> /\ priced[o]
    BY <1>4 DEF UpdateOrderTotal
  <2>3. \A x \in Orders : x # o => total'[x] = total[x]
    BY <2>2 DEF TypeOK
  <2>4. UnpricedEmpty' /\ PayStatusCurrent'
    BY <1>a, <2>2, <2>3, RecomputePaid
  <2> QED
    BY <1>1, <2>1, <2>4
<1>5. ASSUME NEW o \in Orders,
             \/ ReleaseOrder(o) \/ AuthoriseCreditRelease(o) \/ CancelOrder(o) \/ ExpireOrder(o)
             \/ BeginConfirm(o) \/ RevokeCreditRelease(o) \/ FirstTruckIn(o) \/ LastTruckOut(o)
      PROVE  PaidInv'
  <2>1. UNCHANGED <<total, priced, payments, amountPaid, payStatus>>
    BY <1>5 DEF ReleaseOrder, AuthoriseCreditRelease, CancelOrder, ExpireOrder, BeginConfirm,
       RevokeCreditRelease, FirstTruckIn, LastTruckOut
  <2>2. \A x \in Orders : status'[x] = "Absent" => status[x] = "Absent"
    BY <1>5 DEF ReleaseOrder, AuthoriseCreditRelease, CancelOrder, ExpireOrder, BeginConfirm,
       RevokeCreditRelease, FirstTruckIn, LastTruckOut, TypeOK
  <2> QED
    BY <1>1, <1>a, <2>1, <2>2 DEF UnpricedEmpty, AbsentUnpriced, PayStatusCurrent
<1>6. ASSUME NEW o \in Orders, DeleteOrder(o) PROVE PaidInv'
  <2>1. /\ UNCHANGED <<total, priced>>
        /\ status' = [status EXCEPT ![o] = "Deleted"]
        /\ amountPaid' = [amountPaid EXCEPT ![o] = 0]
        /\ payStatus' = [payStatus EXCEPT ![o] = "Unpaid"]
    BY <1>6 DEF DeleteOrder
  <2>2. \A x \in Orders : Rows(payments', x) \subseteq Rows(payments, x)
    BY <1>6 DEF DeleteOrder, Rows
  <2>3. UnpricedEmpty'
    BY <2>1, <2>2 DEF UnpricedEmpty, TypeOK
  <2>4. PayStatusCurrent'
    BY <2>1 DEF PayStatusCurrent, TypeOK
  <2>5. AbsentUnpriced'
    BY <2>1 DEF AbsentUnpriced, TypeOK
  <2> QED
    BY <1>1, <2>3, <2>4, <2>5
<1>7. ASSUME NEW o \in Orders, NEW ls \in SUBSET Lines, ConfirmOrderPayment(o, ls) PROVE PaidInv'
  <2>1. Recompute({o}, total') /\ UNCHANGED <<total, priced>> /\ priced[o]
    BY <1>7 DEF ConfirmOrderPayment
  <2>2. \A x \in Orders : x # o => Rows(payments', x) = Rows(payments, x)
    BY <1>7 DEF ConfirmOrderPayment, Rows, Statement
  <2>3. UnpricedEmpty' /\ PayStatusCurrent'
    BY <1>a, <2>1, <2>2, RecomputePaid
  <2>4. AbsentUnpriced'
    BY <1>7 DEF ConfirmOrderPayment, AfterDeskPayment, AbsentUnpriced, TypeOK
  <2> QED
    BY <1>1, <2>3, <2>4
<1>8. ASSUME NEW l \in Lines, NEW o \in Orders, RemovePayment(l, o) PROVE PaidInv'
  <2>1. Recompute({o}, total') /\ UNCHANGED <<total, priced, status>>
    BY <1>8 DEF RemovePayment
  <2>2. \A x \in Orders : Rows(payments', x) \subseteq Rows(payments, x)
    BY <1>8 DEF RemovePayment, Rows
  <2>3. UnpricedEmpty' /\ PayStatusCurrent'
    BY <1>a, <2>1, <2>2, RecomputePaid
  <2> QED
    BY <1>1, <2>1, <2>3 DEF AbsentUnpriced
<1>9. ASSUME NEW t \in Transfers, NEW from \in Orders, NEW to \in Orders,
             NEW v \in 1..MaxSurplus, TransferSurplus(t, from, to, v)
      PROVE  PaidInv'
  <2>1. Recompute({from, to}, total') /\ UNCHANGED <<total, priced>> /\ priced[to]
    BY <1>9 DEF TransferSurplus
  <2>2. priced[from]
    <3>1. Surplus(from) > 0
      BY <1>9, SurplusType DEF TransferSurplus
    <3> QED
      BY <3>1, SurplusIsPriced
  <2>3. \A x \in Orders : x \notin {from, to} => Rows(payments', x) = Rows(payments, x)
    BY <1>9 DEF TransferSurplus, Rows, LegIn, LegOut
  <2>4. UnpricedEmpty' /\ PayStatusCurrent'
    BY <1>a, <2>1, <2>2, <2>3, RecomputePaid
  <2>5. AbsentUnpriced'
    BY <1>9 DEF TransferSurplus, AfterTransferredPayment, AbsentUnpriced, TypeOK
  <2> QED
    BY <1>1, <2>4, <2>5
<1>10. ASSUME NEW t \in Transfers, ReverseTransfer(t) PROVE PaidInv'
  <2>1. Recompute(TransferEnds(transfer[t]), total') /\ UNCHANGED <<total, priced, status>>
    BY <1>10 DEF ReverseTransfer
  <2>2. \A x \in Orders : Rows(payments', x) \subseteq Rows(payments, x)
    BY <1>10 DEF ReverseTransfer, Rows
  <2>3. UnpricedEmpty' /\ PayStatusCurrent'
    BY <1>a, <2>1, <2>2, RecomputePaid
  <2> QED
    BY <1>1, <2>1, <2>3 DEF AbsentUnpriced
<1>11. ASSUME NEW r \in Refunds, MarkRefunded(r) PROVE PaidInv'
  <2> DEFINE o == refund[r].order
  <2>1. o \in Orders /\ refund[r].amt \in Int /\ refund[r].amt > 0
    BY <1>11 DEF MarkRefunded, TypeOK, Refund, NoRefund, RefundPositive
  <2>2. priced[o]
    <3>1. Surplus(o) > 0
      BY <1>11, <2>1, SurplusType DEF MarkRefunded
    <3> QED
      BY <2>1, <3>1, SurplusIsPriced
  <2>3. Recompute({o}, total') /\ UNCHANGED <<total, priced, status>>
    BY <1>11 DEF MarkRefunded
  <2>4. \A x \in Orders : x # o => Rows(payments', x) = Rows(payments, x)
    BY <1>11 DEF MarkRefunded, Rows, RefundRow
  <2>5. UnpricedEmpty' /\ PayStatusCurrent'
    BY <1>a, <2>2, <2>3, <2>4, RecomputePaid
  <2> QED
    BY <1>1, <2>3, <2>5 DEF AbsentUnpriced
<1>12. ASSUME NEW r \in Refunds, UndoRefund(r) PROVE PaidInv'
  <2>1. Recompute({refund[r].order}, total') /\ UNCHANGED <<total, priced, status>>
    BY <1>12 DEF UndoRefund
  <2>2. \A x \in Orders : Rows(payments', x) \subseteq Rows(payments, x)
    BY <1>12 DEF UndoRefund, WithoutRefundRow, Rows
  <2>3. UnpricedEmpty' /\ PayStatusCurrent'
    BY <1>a, <2>1, <2>2, RecomputePaid
  <2> QED
    BY <1>1, <2>1, <2>3 DEF AbsentUnpriced
<1>13. ASSUME NEW target \in Orders, NEW sources \in SUBSET Orders, MergeOrders(target, sources)
       PROVE  PaidInv'
  <2> DEFINE all == sources \cup {target}
  <2>1. Recompute(all, total') /\ priced' = priced
    BY <1>13 DEF MergeOrders
  <2>2. \A o \in all : priced[o] /\ status[o] # "Absent"
    BY <1>13 DEF MergeOrders, MergeBlocked, Live
  <2>3. \A o \in Orders : o \notin all => total'[o] = total[o]
    BY <1>13 DEF MergeOrders, TypeOK
  <2>4. ASSUME NEW x \in Orders, x \notin all PROVE Rows(payments', x) \subseteq Rows(payments, x)
    <3>1. \A p \in payments : Moved(p, target, sources).order = x => Moved(p, target, sources) = p
      BY <2>4 DEF Moved, TypeOK, Payment
    <3> QED
      BY <1>13, <3>1 DEF MergeOrders, Rows
  <2>5. UnpricedEmpty' /\ PayStatusCurrent'
    BY <1>a, <2>1, <2>2, <2>3, <2>4, RecomputePaid
  <2>6. AbsentUnpriced'
    BY <1>13, <2>2 DEF MergeOrders, AbsentUnpriced, CombinedStatus, AfterTransferredPayment
  <2> QED
    BY <1>1, <2>5, <2>6
<1>14. CASE UNCHANGED <<status, total, priced, payments, amountPaid, payStatus>>
  BY <1>1, <1>14 DEF UnpricedEmpty, AbsentUnpriced, PayStatusCurrent
<1> QED
  BY <1>2, <1>3, <1>4, <1>5, <1>6, <1>7, <1>8, <1>9, <1>10, <1>11, <1>12, <1>13, <1>14
     DEF Next, DeadlinePasses,
     RedateOrder, FindStale, RefuseConfirm, ClaimElsewhere, ReleaseElsewhere, AbortRemove,
     DeleteStatement, BeginRemove, BeginReverse, AbortReverse, SeeSurplus, RefuseAsk,
     RequestRefund, SkipOrder, CancelRefund, Record

(* The payment status of every order is what its money and value make it,  *)
(* also while a price is set late or money moves between orders.           *)
THEOREM PaymentStatusCurrent == Spec => []PayStatusCurrent
<1>1. Init => PaidInv
  BY DEF Init, PaidInv, UnpricedEmpty, AbsentUnpriced, RefundPositive, PayStatusCurrent, PayStatusFor,
         Rows, NoRefund
<1> QED
  BY <1>1, InitType, StepType, PaidStep, PTL DEF Spec, PaidInv

-----------------------------------------------------------------------------
(* The cached sum is the sum.                                              *)

LEMMA RecomputeSum ==
  ASSUME CacheIsSum, NEW S, NEW t, Recompute(S, t),
         \A o \in Orders : o \notin S => Received(payments', o) = Received(payments, o)
  PROVE  CacheIsSum'
BY DEF CacheIsSum, Recompute

(* Two rows of one order that cancel out add nothing to what it received.  *)
LEMMA CancellingRows ==
  ASSUME NEW P \in SUBSET Payment, IsFiniteSet(P), NEW o \in Orders,
         NEW p \in Rows(P, o), NEW q \in Rows(P, o), p # q, p.amt + q.amt = 0
  PROVE  Received(P \ {p, q}, o) = Received(P, o)
<1> DEFINE R == Rows(P, o)
           f == [x \in R |-> x.amt]
           e == [x \in R \ {p, q} |-> x.amt]
<1>1. IsFiniteSet(R) /\ IsFiniteSet(R \ {p}) /\ IsFiniteSet(R \ {p, q})
  BY FS_Subset DEF Rows
<1>2. \A x \in R : f[x] \in Int
  BY DEF Rows, Payment
<1>3. \A x \in R \ {p, q} : f[x] \in Int /\ e[x] = f[x]
  BY <1>2
<1>4. Rows(P \ {p, q}, o) = R \ {p, q}
  BY DEF Rows
<1>5. f[p] \in Int /\ f[q] \in Int /\ f[p] + f[q] = 0
  BY <1>2
<1>6. (R \ {p}) \ {q} = R \ {p, q} /\ p \in R /\ q \in R \ {p}
  OBVIOUS
<1> HIDE DEF R, f, e
<1>7. SumFunctionOnSet(f, R) = f[p] + SumFunctionOnSet(f, R \ {p})
  BY <1>1, <1>2, <1>6, SumWithout
<1>8. SumFunctionOnSet(f, R \ {p}) = f[q] + SumFunctionOnSet(f, (R \ {p}) \ {q})
  <2>1. \A x \in R \ {p} : f[x] \in Int
    BY <1>2
  <2> QED
    BY <1>1, <1>6, <2>1, SumWithout
<1>9. SumFunctionOnSet(e, R \ {p, q}) = SumFunctionOnSet(f, R \ {p, q})
  BY <1>1, <1>3, SumSame
<1>10. SumFunctionOnSet(f, R \ {p, q}) \in Int
  BY <1>1, <1>3, SumType
<1>11. SumFunctionOnSet(f, R) = SumFunctionOnSet(f, R \ {p, q})
  <2>1. SumFunctionOnSet(f, R \ {p}) = f[q] + SumFunctionOnSet(f, R \ {p, q})
    BY <1>6, <1>8
  <2> QED
    BY <1>5, <1>7, <1>10, <2>1
<1> QED
  BY <1>4, <1>9, <1>11 DEF Received, SumAmt, R, f, e

LEMMA TransferAmount == \A tr \in Transfer : tr.amt \in Int
<1>1. NoTransfer.amt \in Int
  BY DEF NoTransfer
<1>2. \A tr \in [live: {TRUE}, from: Orders, to: Orders, amt: Int] : tr.amt \in Int
  OBVIOUS
<1>3. Transfer = {NoTransfer} \cup [live: {TRUE}, from: Orders, to: Orders, amt: Int]
  BY DEF Transfer
<1> QED
  BY <1>1, <1>2, <1>3, Zenon

(* A reversal recomputes the two orders the transfer names.  When a merge  *)
(* has brought both legs onto a third order while the reversal waited, the *)
(* third order's sum does not change, because the legs cancel out.         *)
LEMMA ReverseSum ==
  ASSUME TypeOK, LegsTogether, CacheIsSum, NEW t \in Transfers, ReverseTransfer(t),
         transfer[t].live
  PROVE  CacheIsSum'
<1>1. PICK a \in Orders, b \in Orders :
        /\ Legs(t) = {LegOut(t, a, transfer[t].amt), LegIn(t, b, transfer[t].amt)}
        /\ (a = transfer[t].from /\ b = transfer[t].to) \/ a = b
  BY DEF LegsTogether
<1>2. payments' = payments \ Legs(t)
  BY DEF ReverseTransfer, Legs
<1>3. ASSUME NEW o \in Orders, o \notin TransferEnds(transfer[t])
      PROVE  Received(payments', o) = Received(payments, o)
  <2> DEFINE p == LegOut(t, a, transfer[t].amt)
             q == LegIn(t, b, transfer[t].amt)
  <2>1. p.order = a /\ q.order = b /\ p # q
    BY DEF LegOut, LegIn
  <2>2. p.amt + q.amt = 0
    <3>1. transfer[t] \in Transfer
      BY DEF TypeOK
    <3>2. transfer[t].amt \in Int
      BY <3>1, TransferAmount
    <3> QED
      BY <3>2 DEF LegOut, LegIn
  <2>3. p \in payments /\ q \in payments /\ payments' = payments \ {p, q}
    BY <1>1, <1>2 DEF Legs
  <2> HIDE DEF p, q
  <2>4. CASE a = b /\ o = a
    <3>1. p \in Rows(payments, o) /\ q \in Rows(payments, o)
      BY <2>1, <2>3, <2>4 DEF Rows
    <3> QED
      BY <2>1, <2>2, <2>3, <3>1, CancellingRows DEF TypeOK
  <2>5. CASE ~(a = b /\ o = a)
    <3>1. o # a /\ o # b
      BY <1>1, <1>3, <2>5 DEF TransferEnds
    <3>2. Rows(payments', o) = Rows(payments, o)
      BY <2>1, <2>3, <3>1 DEF Rows
    <3> QED
      BY <3>2 DEF Received
  <2> QED
    BY <2>4, <2>5
<1>4. Recompute(TransferEnds(transfer[t]), total)
  BY DEF ReverseTransfer
<1> QED
  BY <1>3, <1>4, RecomputeSum

LEMMA SumStep == TypeOK /\ RefundBacked /\ LegsTogether /\ CacheIsSum /\ [Next]_vars => CacheIsSum'
<1> SUFFICES ASSUME TypeOK, RefundBacked, LegsTogether, CacheIsSum, [Next]_vars PROVE CacheIsSum'
  OBVIOUS
<1> USE DEF orderVars, cacheVars, moneyVars, flightVars, vars
<1>1. ASSUME NEW o \in Orders, NEW t \in Prices, UpdateOrderTotal(o, t) PROVE CacheIsSum'
  BY <1>1, RecomputeSum DEF UpdateOrderTotal
<1>2. ASSUME NEW o \in Orders, DeleteOrder(o) PROVE CacheIsSum'
  <2>1. Rows(payments', o) = {}
    BY <1>2 DEF DeleteOrder, Rows
  <2>2. ASSUME NEW x \in Orders, x # o PROVE Rows(payments', x) = Rows(payments, x)
    BY <1>2, <2>2 DEF DeleteOrder, Rows
  <2>3. amountPaid' = [amountPaid EXCEPT ![o] = 0]
    BY <1>2 DEF DeleteOrder
  <2>4. Received(payments', o) = 0
    BY <2>1, NoRowsNoMoney
  <2> QED
    BY <2>2, <2>3, <2>4 DEF CacheIsSum, Received, TypeOK
<1>3. ASSUME NEW o \in Orders, NEW ls \in SUBSET Lines, ConfirmOrderPayment(o, ls) PROVE CacheIsSum'
  <2>1. Recompute({o}, total)
    BY <1>3 DEF ConfirmOrderPayment
  <2>2. \A x \in Orders : x # o => Rows(payments', x) = Rows(payments, x)
    BY <1>3 DEF ConfirmOrderPayment, Rows, Statement
  <2> QED
    BY <2>1, <2>2, RecomputeSum DEF Received
<1>4. ASSUME NEW l \in Lines, NEW o \in Orders, RemovePayment(l, o) PROVE CacheIsSum'
  <2>1. Recompute({o}, total)
    BY <1>4 DEF RemovePayment
  <2>2. \A x \in Orders : x # o => Rows(payments', x) = Rows(payments, x)
    BY <1>4 DEF RemovePayment, Rows, Statement
  <2> QED
    BY <2>1, <2>2, RecomputeSum DEF Received
<1>5. ASSUME NEW t \in Transfers, NEW from \in Orders, NEW to \in Orders,
             NEW v \in 1..MaxSurplus, TransferSurplus(t, from, to, v)
      PROVE  CacheIsSum'
  <2>1. Recompute({from, to}, total)
    BY <1>5 DEF TransferSurplus
  <2>2. \A x \in Orders : x \notin {from, to} => Rows(payments', x) = Rows(payments, x)
    BY <1>5 DEF TransferSurplus, Rows, LegIn, LegOut
  <2> QED
    BY <2>1, <2>2, RecomputeSum DEF Received
<1>6. ASSUME NEW t \in Transfers, ReverseTransfer(t) PROVE CacheIsSum'
  <2>1. CASE transfer[t].live
    BY <1>6, <2>1, ReverseSum
  <2>2. CASE ~transfer[t].live
    <3>1. Legs(t) = {}
      BY <2>2 DEF LegsTogether
    <3>2. payments' = payments
      BY <1>6, <3>1 DEF ReverseTransfer, Legs
    <3> QED
      BY <1>6, <3>2, RecomputeSum DEF ReverseTransfer
  <2> QED
    BY <2>1, <2>2
<1>7. ASSUME NEW r \in Refunds, MarkRefunded(r) PROVE CacheIsSum'
  <2>1. Recompute({refund[r].order}, total)
    BY <1>7 DEF MarkRefunded
  <2>2. \A x \in Orders : x # refund[r].order => Rows(payments', x) = Rows(payments, x)
    BY <1>7 DEF MarkRefunded, Rows, RefundRow
  <2> QED
    BY <2>1, <2>2, RecomputeSum DEF Received
<1>8. ASSUME NEW r \in Refunds, UndoRefund(r) PROVE CacheIsSum'
  <2>1. Recompute({refund[r].order}, total)
    BY <1>8 DEF UndoRefund
  <2>2. RefundRows(r) = {RefundRow(r, refund[r].order, refund[r].amt)}
    BY <1>8 DEF RefundBacked, UndoRefund
  <2>3. payments' = payments \ RefundRows(r)
    BY <1>8 DEF UndoRefund, WithoutRefundRow, RefundRows
  <2>4. \A x \in Orders : x # refund[r].order => Rows(payments', x) = Rows(payments, x)
    BY <2>2, <2>3 DEF Rows, RefundRow
  <2> QED
    BY <2>1, <2>4, RecomputeSum DEF Received
<1>9. ASSUME NEW target \in Orders, NEW sources \in SUBSET Orders, MergeOrders(target, sources)
      PROVE  CacheIsSum'
  <2> DEFINE all == sources \cup {target}
  <2>1. Recompute(all, total')
    BY <1>9 DEF MergeOrders
  <2>2. ASSUME NEW x \in Orders, x \notin all PROVE Rows(payments', x) = Rows(payments, x)
    <3>1. \A p \in payments : Moved(p, target, sources).order = x => Moved(p, target, sources) = p
      BY <2>2 DEF Moved, TypeOK, Payment
    <3>2. \A p \in payments : p.order = x => Moved(p, target, sources) = p
      BY <2>2 DEF Moved, TypeOK, Payment
    <3> QED
      BY <1>9, <3>1, <3>2 DEF MergeOrders, Rows
  <2> QED
    BY <2>1, <2>2, RecomputeSum DEF Received
<1>10. CASE UNCHANGED <<payments, amountPaid>>
  BY <1>10 DEF CacheIsSum
<1> QED
  BY <1>1, <1>2, <1>3, <1>4, <1>5, <1>6, <1>7, <1>8, <1>9, <1>10
     DEF Next, PlaceUnpriced, ReleaseOrder, AuthoriseCreditRelease, RevokeCreditRelease, CancelOrder,
     DeadlinePasses, RedateOrder, FindStale, ExpireOrder, BeginConfirm, RefuseConfirm, FirstTruckIn,
     LastTruckOut, PlaceOrder, SetOrderPrice, ClaimElsewhere, ReleaseElsewhere, AbortRemove,
     DeleteStatement, BeginRemove, BeginReverse, AbortReverse, SeeSurplus, RequestRefund, SkipOrder,
     Record, RefuseAsk, CancelRefund

(* amount_paid is the sum of the payment rows of its order, for any number *)
(* of orders and rows: also when a merge moves the two legs of a transfer  *)
(* onto one order under a reversal that will not recompute it.             *)
THEOREM AmountPaidIsSum == Spec => []CacheIsSum
<1>1. Init => CacheIsSum
  <2>1. Init => \A o \in Orders : Rows(payments, o) = {}
    BY DEF Init, Rows
  <2> QED
    BY <2>1, NoRowsNoMoney DEF Init, CacheIsSum
<1> QED
  BY <1>1, InitType, SumStep, TypeCorrect, RefundsBacked, TransfersKeepLegs, PTL DEF Spec

(* The money on every order is sound: amount_paid is the sum of its rows,  *)
(* a refund row has the refund that made it, and an order has one open     *)
(* refund at most.                                                         *)
THEOREM MoneyIsSound == Spec => []MoneySound
BY AmountPaidIsSum, RefundsBacked, RefundsOpenOnce, PTL DEF MoneySound

(* Every bank credit is accounted for: used once, and stuck only because   *)
(* the order it paid was deleted.                                          *)
THEOREM LinesAreAccounted == Spec => []LinesAccounted
BY LinesUsedOnce, StuckLinesByDelete, PTL DEF LinesAccounted

-----------------------------------------------------------------------------
(* Money leaves an order only out of its surplus.                          *)

TransferPositive == \A t \in Transfers : transfer[t].live => transfer[t].amt > 0

(* A merge moves the ends of a transfer, never its amount.                 *)
LEMMA MovedTransferAmount ==
  ASSUME NEW tr \in Transfer, NEW target, NEW sources
  PROVE  /\ MovedTransfer(tr, target, sources).live = tr.live
         /\ MovedTransfer(tr, target, sources).amt = tr.amt
<1>1. tr = [live |-> tr.live, from |-> tr.from, to |-> tr.to, amt |-> tr.amt]
  BY DEF Transfer, NoTransfer
<1> QED
  BY <1>1 DEF MovedTransfer

LEMMA PositiveStep == TypeOK /\ TransferPositive /\ [Next]_vars => TransferPositive'
<1> SUFFICES ASSUME TypeOK, TransferPositive, [Next]_vars PROVE TransferPositive'
  OBVIOUS
<1> USE DEF TransferPositive, moneyVars
<1>1. ASSUME NEW t \in Transfers, NEW from \in Orders, NEW to \in Orders,
             NEW v \in 1..MaxSurplus, TransferSurplus(t, from, to, v)
      PROVE  TransferPositive'
  <2>1. transfer' = [transfer EXCEPT ![t] = [live |-> TRUE, from |-> from, to |-> to, amt |-> v]] /\ v > 0
    BY <1>1 DEF TransferSurplus
  <2>2. ASSUME NEW u \in Transfers PROVE transfer'[u].live => transfer'[u].amt > 0
    BY <2>1 DEF TypeOK
  <2> QED
    BY <2>2
<1>2. ASSUME NEW t \in Transfers, ReverseTransfer(t) PROVE TransferPositive'
  <2>1. transfer' = [transfer EXCEPT ![t] = NoTransfer]
    BY <1>2 DEF ReverseTransfer
  <2> QED
    BY <2>1 DEF TypeOK, NoTransfer
<1>3. ASSUME NEW target \in Orders, NEW sources \in SUBSET Orders, MergeOrders(target, sources)
      PROVE  TransferPositive'
  BY <1>3, MovedTransferAmount DEF MergeOrders, TypeOK
<1>4. CASE UNCHANGED transfer
  BY <1>4
<1> QED
  BY ZenonT(60), <1>1, <1>2, <1>3, <1>4, MoneyCases DEF MoneyNext, DeleteOrder, ConfirmOrderPayment,
     ClaimElsewhere, ReleaseElsewhere, DeleteStatement, RemovePayment, RequestRefund, SkipOrder, Record,
     CancelRefund, MarkRefunded, UndoRefund

(* One more row of an order adds its amount to what the order received.    *)
LEMMA ReceivedWith ==
  ASSUME NEW P \in SUBSET Payment, IsFiniteSet(P), NEW p \in Payment, p \notin P
  PROVE  Received(P \cup {p}, p.order) = Received(P, p.order) + p.amt
<1> DEFINE R == Rows(P, p.order)
           f == [x \in R \cup {p} |-> x.amt]
           e == [x \in R |-> x.amt]
<1>1. IsFiniteSet(R) /\ p \notin R
  BY FS_Subset DEF Rows
<1>2. \A x \in R \cup {p} : f[x] \in Int
  BY DEF Rows, Payment
<1>3. \A x \in R : f[x] \in Int /\ e[x] = f[x]
  BY <1>2
<1>4. Rows(P \cup {p}, p.order) = R \cup {p}
  BY DEF Rows
<1>5. f[p] = p.amt
  OBVIOUS
<1> HIDE DEF R, f, e
<1>6. SumFunctionOnSet(f, R \cup {p}) = SumFunctionOnSet(f, R) + f[p]
  BY <1>1, <1>2, SumWith
<1>7. SumFunctionOnSet(e, R) = SumFunctionOnSet(f, R)
  BY <1>1, <1>3, SumSame
<1> QED
  BY <1>4, <1>5, <1>6, <1>7 DEF Received, SumAmt, R, f, e

(* What an order holds beyond its value, once it is positive.              *)
LEMMA SurplusCovers ==
  ASSUME TypeOK, NEW o \in Orders, NEW v \in Int, v > 0, v <= Surplus(o)
  PROVE  Received(payments, o) - v >= total[o]
<1>1. Received(payments, o) \in Int /\ total[o] \in Int
  BY ReceivedType DEF TypeOK
<1> QED
  BY <1>1 DEF Surplus, BiggerOf

GivesSurplus == \A o \in Orders : Gives(o) => amountPaid'[o] >= total'[o]

(* No step gives what the order needs for its own value: also a reversal   *)
(* that takes the money back after a merge has put both legs on one order. *)
LEMMA GiveStep ==
  TypeOK /\ RefundInv /\ LegInv /\ TransferPositive /\ RefundPositive /\ [Next]_vars => GivesSurplus
<1> SUFFICES ASSUME TypeOK, RefundInv, LegInv, TransferPositive, RefundPositive, [Next]_vars
             PROVE  GivesSurplus
  OBVIOUS
<1> USE DEF GivesSurplus
<1>1. ASSUME NEW t \in Transfers, NEW from \in Orders, NEW to \in Orders,
             NEW v \in 1..MaxSurplus, TransferSurplus(t, from, to, v)
      PROVE  GivesSurplus
  <2> DEFINE out == LegOut(t, from, v)
  <2>1. /\ ~transfer[t].live /\ from # to /\ v \in Int /\ v > 0 /\ v <= Surplus(from)
        /\ transfer' = [transfer EXCEPT ![t] = [live |-> TRUE, from |-> from, to |-> to, amt |-> v]]
        /\ refund' = refund /\ total' = total
        /\ payments' = payments \cup {out, LegIn(t, to, v)}
        /\ Recompute({from, to}, total)
    BY <1>1 DEF TransferSurplus
  <2>2. ASSUME NEW o \in Orders, Gives(o) PROVE o = from
    BY <2>1, <2>2 DEF Gives, TypeOK
  <2>3. out \in Payment /\ out.order = from /\ out.amt = 0 - v
    BY <2>1 DEF LegOut, Payment, Sources
  <2>4. out \notin payments
    <3>1. Legs(t) = {}
      BY <2>1 DEF LegInv
    <3> QED
      BY <3>1 DEF Legs, LegOut
  <2>5. Rows(payments', from) = Rows(payments \cup {out}, from)
    BY <2>1 DEF Rows, LegIn
  <2>6. Received(payments \cup {out}, from) = Received(payments, from) + (0 - v)
    <3>1. payments \in SUBSET Payment /\ IsFiniteSet(payments)
      BY DEF TypeOK
    <3> HIDE DEF out
    <3> QED
      BY <2>3, <2>4, <3>1, ReceivedWith
  <2>7. Received(payments, from) - v >= total[from] /\ Received(payments, from) \in Int
    BY <2>1, SurplusCovers, ReceivedType DEF TypeOK
  <2>8. amountPaid'[from] = Received(payments', from)
    BY <2>1 DEF Recompute
  <2>9. amountPaid'[from] = Received(payments, from) - v
    BY <2>1, <2>5, <2>6, <2>7, <2>8 DEF Received
  <2> QED
    BY <2>1, <2>2, <2>7, <2>9
<1>2. ASSUME NEW t \in Transfers, ReverseTransfer(t) PROVE GivesSurplus
  <2> SUFFICES ASSUME NEW o \in Orders, Gives(o) PROVE amountPaid'[o] >= total'[o]
    OBVIOUS
  <2> DEFINE v == transfer[t].amt
  <2>1. /\ Received(payments, transfer[t].to) - v >= total[transfer[t].to]
        /\ payments' = payments \ Legs(t)
        /\ transfer' = [transfer EXCEPT ![t] = NoTransfer]
        /\ refund' = refund /\ total' = total
        /\ Recompute({transfer[t].from, transfer[t].to}, total)
    BY <1>2 DEF ReverseTransfer, Legs, TransferEnds
  <2>2. transfer[t].live /\ o = transfer[t].to
    BY <2>1 DEF Gives, TypeOK, NoTransfer
  <2>3. v \in Int /\ v > 0
    BY <2>2, TransferAmount DEF TypeOK, TransferPositive
  <2>4. amountPaid'[o] = Received(payments', o)
    BY <2>1, <2>2 DEF Recompute
  <2>5. /\ payments \in SUBSET Payment /\ IsFiniteSet(payments)
        /\ payments' \in SUBSET Payment /\ IsFiniteSet(payments')
    BY <2>1, FS_Subset DEF TypeOK
  <2>6. Received(payments, o) \in Int /\ Received(payments', o) \in Int /\ total[o] \in Int
    BY <2>5, ReceivedType DEF TypeOK
  <2>7. PICK a \in Orders, b \in Orders : LegsAt(t, a, b)
    BY <2>2 DEF LegInv
  <2> DEFINE p == LegOut(t, a, v)
             q == LegIn(t, b, v)
  <2>8. Legs(t) = {p, q} /\ p \in payments /\ q \in payments
    <3>1. Legs(t) = {p, q}
      BY <2>7 DEF LegsAt
    <3> QED
      BY <3>1 DEF Legs
  <2>9. p.order = a /\ q.order = b /\ p # q /\ p.amt + q.amt = 0 /\ q.amt = v
    BY <2>3 DEF LegOut, LegIn
  <2> HIDE DEF p, q
  <2>10. CASE a = b /\ a = o
    <3>1. p \in Rows(payments, o) /\ q \in Rows(payments, o)
      BY <2>8, <2>9, <2>10 DEF Rows
    <3>2. Received(payments \ {p, q}, o) = Received(payments, o)
      BY <2>5, <2>9, <3>1, CancellingRows
    <3> QED
      BY <2>1, <2>2, <2>3, <2>4, <2>6, <2>8, <3>2
  <2>11. CASE a # o /\ b # o
    <3>1. Rows(payments', o) = Rows(payments, o)
      BY <2>1, <2>8, <2>9, <2>11 DEF Rows
    <3>2. Received(payments', o) = Received(payments, o)
      BY <3>1 DEF Received
    <3> QED
      BY <2>1, <2>2, <2>3, <2>4, <2>6, <3>2
  <2>12. CASE a # o /\ b = o
    <3> DEFINE kept == payments \ {q}
    <3>1. Rows(payments', o) = Rows(kept, o)
      BY <2>1, <2>8, <2>9, <2>12 DEF Rows
    <3>2. kept \in SUBSET Payment /\ IsFiniteSet(kept) /\ q \in Payment /\ q \notin kept
      BY <2>5, <2>8, FS_Subset
    <3>3. kept \cup {q} = payments
      BY <2>8
    <3>4. Received(kept, o) \in Int
      BY <3>2, ReceivedType
    <3> HIDE DEF kept
    <3>5. Received(kept \cup {q}, q.order) = Received(kept, q.order) + q.amt
      BY <3>2, ReceivedWith
    <3>6. Received(payments, o) = Received(kept, o) + v
      BY <2>9, <2>12, <3>3, <3>5
    <3>7. Received(payments', o) = Received(kept, o)
      BY <3>1 DEF Received
    <3> QED
      BY <2>1, <2>2, <2>3, <2>4, <2>6, <3>4, <3>6, <3>7
  <2>13. ~(a = o /\ b # o)
    BY <2>2, <2>7 DEF LegsAt, LegInv
  <2> QED
    BY <2>10, <2>11, <2>12, <2>13
<1>3. ASSUME NEW r \in Refunds, MarkRefunded(r) PROVE GivesSurplus
  <2> DEFINE o == refund[r].order
             v == refund[r].amt
             row == RefundRow(r, o, v)
  <2>1. /\ refund[r].status = "requested" /\ v <= Surplus(o)
        /\ payments' = payments \cup {row}
        /\ refund' = [refund EXCEPT ![r] = [refund[r] EXCEPT !.status = "refunded"]]
        /\ total' = total /\ transfer' = transfer
        /\ Recompute({o}, total)
    BY <1>3 DEF MarkRefunded, SetRefund
  <2>2. ASSUME NEW x \in Orders, Gives(x) PROVE x = o
    <3>1. \A u \in Refunds : u # r => refund'[u] = refund[u]
      BY <2>1 DEF TypeOK
    <3> QED
      BY <2>1, <2>2, <3>1 DEF Gives
  <2>3. o \in Orders /\ v \in Int /\ v > 0
    BY <2>1 DEF TypeOK, Refund, NoRefund, RefundPositive
  <2>4. row \in Payment /\ row.order = o /\ row.amt = 0 - v
    BY <2>3 DEF RefundRow, Payment, Sources
  <2>5. row \notin payments
    <3>1. RefundRows(r) = {}
      BY <2>1 DEF RefundInv, RefundBacked
    <3> QED
      BY <3>1 DEF RefundRows, RefundRow
  <2>6. Received(payments \cup {row}, o) = Received(payments, o) + (0 - v)
    <3>1. payments \in SUBSET Payment /\ IsFiniteSet(payments)
      BY DEF TypeOK
    <3> HIDE DEF row
    <3> QED
      BY <2>4, <2>5, <3>1, ReceivedWith
  <2>7. Received(payments, o) - v >= total[o] /\ Received(payments, o) \in Int
    BY <2>1, <2>3, SurplusCovers, ReceivedType DEF TypeOK
  <2>8. amountPaid'[o] = Received(payments', o)
    BY <2>1, <2>3 DEF Recompute
  <2>9. amountPaid'[o] = Received(payments, o) - v
    BY <2>1, <2>3, <2>6, <2>7, <2>8
  <2> QED
    BY <2>1, <2>2, <2>7, <2>9
<1>4. ASSUME NEW target \in Orders, NEW sources \in SUBSET Orders, MergeOrders(target, sources)
      PROVE  GivesSurplus
  <2>1. \A t \in Transfers : transfer'[t].live = transfer[t].live
    BY <1>4, MovedTransferAmount DEF MergeOrders, TypeOK
  <2>2. \A r \in Refunds : refund'[r].status = "refunded" => refund[r].status = "refunded"
    BY <1>4, MovedRefundStatus DEF MergeOrders, TypeOK
  <2> QED
    BY <2>1, <2>2 DEF Gives
<1>5. ASSUME NEW r \in Refunds, SkipOrder(r) \/ \E v \in 1..MaxSurplus : RequestRefund(r, v)
      PROVE  GivesSurplus
  <2>1. transfer' = transfer
    BY <1>5 DEF SkipOrder, RequestRefund, Record
  <2>2. \A u \in Refunds : refund'[u].status = "refunded" => refund[u].status = "refunded"
    BY <1>5 DEF SkipOrder, RequestRefund, Record, SetRefund, TypeOK
  <2> QED
    BY <2>1, <2>2 DEF Gives
<1>6. ASSUME NEW r \in Refunds, CancelRefund(r) \/ UndoRefund(r) PROVE GivesSurplus
  <2>1. transfer' = transfer
    BY <1>6 DEF CancelRefund, UndoRefund
  <2>2. \A u \in Refunds : refund'[u].status = "refunded" => refund[u].status = "refunded"
    BY <1>6 DEF CancelRefund, UndoRefund, SetRefund, TypeOK, Refund, NoRefund
  <2> QED
    BY <2>1, <2>2 DEF Gives
<1>7. CASE UNCHANGED <<transfer, refund>>
  BY <1>7 DEF Gives
<1> QED
  BY ZenonT(60), <1>1, <1>2, <1>3, <1>4, <1>5, <1>6, <1>7, MoneyCases DEF MoneyNext, moneyVars,
     DeleteOrder, ConfirmOrderPayment, ClaimElsewhere, ReleaseElsewhere, DeleteStatement, RemovePayment

(* Money leaves an order, by a transfer, the reversal of one or a refund,  *)
(* only out of what it holds beyond its own value when it leaves, however  *)
(* long ago it was asked for and whatever has been merged since.           *)
THEOREM GivesAreSurplus == Spec => GivesOnlySurplus
<1>1. Init => RefundInv /\ LegInv /\ TransferPositive /\ PaidInv
  BY DEF Init, RefundInv, RefundBacked, RefundRows, AskIsFree, NoRefund, LegInv, Legs, NoTransfer,
         TransferPositive, PaidInv, UnpricedEmpty, AbsentUnpriced, RefundPositive, PayStatusCurrent,
         PayStatusFor, Rows
<1>2. PaidInv => RefundPositive
  BY DEF PaidInv
<1>3. GivesSurplus <=> \A o \in Orders : Gives(o) => amountPaid'[o] >= total'[o]
  BY DEF GivesSurplus
<1> QED
  BY <1>1, <1>2, <1>3, InitType, StepType, RefundStep, LegStep, PaidStep, PositiveStep, GiveStep, PTL
     DEF Spec, GivesOnlySurplus

-----------------------------------------------------------------------------
(* A merge moves rows and never money.                                     *)

(* A leg names a transfer, a refund row a refund.                          *)
RefsFit ==
  \A p \in payments : /\ p.src \in {"transfer_out", "transfer_in"} => p.ref \in Transfers
                      /\ p.src = "refund" => p.ref \in Refunds

LEMMA RefsStep == TypeOK /\ RefsFit /\ [Next]_vars => RefsFit'
<1> SUFFICES ASSUME TypeOK, RefsFit, [Next]_vars PROVE RefsFit'
  OBVIOUS
<1> USE DEF RefsFit
<1>1. ASSUME NEW o \in Orders, NEW ls \in SUBSET Lines, ConfirmOrderPayment(o, ls) PROVE RefsFit'
  BY <1>1 DEF ConfirmOrderPayment, Statement
<1>2. ASSUME NEW t \in Transfers, NEW from \in Orders, NEW to \in Orders,
             NEW v \in 1..MaxSurplus, TransferSurplus(t, from, to, v)
      PROVE  RefsFit'
  BY <1>2 DEF TransferSurplus, LegIn, LegOut
<1>3. ASSUME NEW r \in Refunds, MarkRefunded(r) PROVE RefsFit'
  BY <1>3 DEF MarkRefunded, RefundRow
<1>4. ASSUME NEW target \in Orders, NEW sources \in SUBSET Orders, MergeOrders(target, sources)
      PROVE  RefsFit'
  <2>1. \A p \in payments : /\ Moved(p, target, sources).src = p.src
                            /\ Moved(p, target, sources).ref = p.ref
    BY DEF Moved, TypeOK, Payment
  <2> QED
    BY <1>4, <2>1 DEF MergeOrders
<1>5. CASE payments' \subseteq payments
  BY <1>5
<1> QED
  BY <1>1, <1>2, <1>3, <1>4, <1>5, MoneyCases DEF MoneyNext, moneyVars, DeleteOrder, ClaimElsewhere,
     ReleaseElsewhere, DeleteStatement, RemovePayment, ReverseTransfer, RequestRefund, SkipOrder, Record,
     CancelRefund, UndoRefund, WithoutRefundRow

(* Two rows that a merge would make one are one already.                   *)
LEMMA MovedApart ==
  ASSUME TypeOK, LineInv, LegInv, RefundBacked, RefsFit, NEW target, NEW sources,
         NEW p \in payments, NEW q \in payments,
         Moved(p, target, sources) = Moved(q, target, sources)
  PROVE  p = q
<1>1. p.src = q.src /\ p.ref = q.ref /\ p.src \in Sources
  BY DEF Moved, TypeOK, Payment
<1>2. CASE p.src = "statement"
  <2>1. p.ref \in Lines /\ p \in StatementRows(p.ref) /\ q \in StatementRows(p.ref)
    BY <1>1, <1>2 DEF LineInv, StatementShape, StatementRows
  <2> QED
    BY <2>1 DEF LineInv, LineUsedOnce
<1>3. CASE p.src \in {"transfer_out", "transfer_in"}
  <2>1. p.ref \in Transfers /\ p \in Legs(p.ref) /\ q \in Legs(p.ref)
    BY <1>1, <1>3 DEF RefsFit, Legs
  <2>2. PICK a, b : Legs(p.ref) = {LegOut(p.ref, a, transfer[p.ref].amt), LegIn(p.ref, b, transfer[p.ref].amt)}
    BY <2>1 DEF LegInv, LegsAt
  <2> QED
    BY <1>1, <2>1, <2>2 DEF LegOut, LegIn
<1>4. CASE p.src = "refund"
  <2>1. p.ref \in Refunds /\ p \in RefundRows(p.ref) /\ q \in RefundRows(p.ref)
    BY <1>1, <1>4 DEF RefsFit, RefundRows
  <2> QED
    BY <2>1 DEF RefundBacked
<1> QED
  BY <1>1, <1>2, <1>3, <1>4 DEF Sources

MergeTotals ==
  mergedInto' # mergedInto =>
    /\ SumAmt(payments') = SumAmt(payments)
    /\ SumFunctionOnSet(total', {o \in Standing : mergedInto'[o] = NoOrder}) = SumFunctionOnSet(total, Standing)
    /\ \A o \in Orders : mergedInto[o] = NoOrder /\ mergedInto'[o] # NoOrder
         => amountPaid'[o] = 0

LEMMA MergeStep ==
  TypeOK /\ LineInv /\ LegInv /\ RefundBacked /\ RefsFit /\ [Next]_vars => MergeTotals
<1> SUFFICES ASSUME TypeOK, LineInv, LegInv, RefundBacked, RefsFit, [Next]_vars, mergedInto' # mergedInto
             PROVE  MergeTotals
  BY DEF MergeTotals
<1>1. PICK target \in Orders, sources \in SUBSET Orders : MergeOrders(target, sources)
  BY ZenonT(60), MoneyCases DEF MoneyNext, orderVars, DeleteOrder, ConfirmOrderPayment, ClaimElsewhere,
     ReleaseElsewhere, DeleteStatement, RemovePayment, TransferSurplus, ReverseTransfer, RequestRefund,
     SkipOrder, Record, CancelRefund, MarkRefunded, UndoRefund
<1> DEFINE all == sources \cup {target}
<1>2. /\ payments' = {Moved(p, target, sources) : p \in payments}
      /\ total' = [total EXCEPT ![target] = SumFunctionOnSet(total, all)]
      /\ mergedInto' = [o \in Orders |-> IF o \in sources THEN target ELSE mergedInto[o]]
      /\ Recompute(all, total')
      /\ target \notin sources
      /\ \A o \in all : mergedInto[o] = NoOrder /\ status[o] \in Live
  BY <1>1 DEF MergeOrders, MergedValue, MergeBlocked
<1>3. SumAmt(payments') = SumAmt(payments)
  <2> DEFINE g == [p \in payments |-> Moved(p, target, sources)]
             e == [p \in payments |-> p.amt]
             f == [p \in payments' |-> p.amt]
  <2>1. \A p, q \in payments : g[p] = g[q] => p = q
    BY MovedApart
  <2>2. \A p \in payments : e[p] \in Int /\ f[g[p]] = e[p]
    <3>1. \A p \in payments : p.amt \in Int /\ Moved(p, target, sources).amt = p.amt
      BY DEF TypeOK, Payment, Moved
    <3> QED
      BY <1>2, <3>1
  <2>3. payments' = {g[p] : p \in payments} /\ IsFiniteSet(payments)
    BY <1>2 DEF TypeOK
  <2>4. SumAmt(payments') = SumFunctionOnSet(f, payments') /\ SumAmt(payments) = SumFunctionOnSet(e, payments)
    BY DEF SumAmt
  <2> HIDE DEF f, g, e
  <2>5. SumFunctionOnSet(f, {g[p] : p \in payments}) = SumFunctionOnSet(e, payments)
    BY <2>1, <2>2, <2>3, SumRenamed
  <2> QED
    BY <2>3, <2>4, <2>5
<1>4. SumFunctionOnSet(total', {o \in Standing : mergedInto'[o] = NoOrder}) = SumFunctionOnSet(total, Standing)
  <2> DEFINE rest == Standing \ all
  <2>1. IsFiniteSet(rest) /\ IsFiniteSet(all) /\ rest \cap all = {} /\ target \notin rest
    BY LedgerAssumption, FS_Subset DEF Standing
  <2>2. Standing = rest \cup all
    BY <1>2 DEF Standing, Live
  <2>3. {o \in Standing : mergedInto'[o] = NoOrder} = rest \cup {target}
    BY <1>2, LedgerAssumption DEF Standing, Live
  <2>4. \A o \in rest \cup all : total[o] \in Int
    BY DEF Standing, TypeOK
  <2>5. \A o \in all : total[o] \in Int
    BY <2>4
  <2>6. \A o \in rest : total[o] \in Int /\ total'[o] = total[o]
    BY <1>2, <2>1, <2>4 DEF TypeOK, Standing
  <2>7. total'[target] = SumFunctionOnSet(total, all)
    BY <1>2 DEF TypeOK
  <2> HIDE DEF rest, all
  <2>8. SumFunctionOnSet(total, all) \in Int
    BY <2>1, <2>5, SumType
  <2>9. \A o \in rest \cup {target} : total'[o] \in Int
    BY <2>6, <2>7, <2>8
  <2>10. SumFunctionOnSet(total', rest \cup {target}) = SumFunctionOnSet(total', rest) + total'[target]
    BY <2>1, <2>9, SumWith
  <2>11. SumFunctionOnSet(total', rest) = SumFunctionOnSet(total, rest)
    BY <2>1, <2>6, SumSame
  <2>12. SumFunctionOnSet(total, rest \cup all) = SumFunctionOnSet(total, rest) + SumFunctionOnSet(total, all)
    BY <2>1, <2>4, SumUnion
  <2> QED
    BY <2>2, <2>3, <2>7, <2>10, <2>11, <2>12
<1>5. ASSUME NEW o \in Orders, mergedInto[o] = NoOrder, mergedInto'[o] # NoOrder
      PROVE  amountPaid'[o] = 0
  <2>1. o \in sources
    BY <1>2, <1>5
  <2>2. \A p \in payments : Moved(p, target, sources).order # o
    BY <1>2, <2>1 DEF Moved, TypeOK, Payment
  <2>3. Rows(payments', o) = {}
    BY <1>2, <2>2 DEF Rows
  <2>4. Received(payments', o) = 0
    BY <2>3, NoRowsNoMoney
  <2> QED
    BY <1>2, <2>1, <2>4 DEF Recompute
<1> QED
  BY <1>3, <1>4, <1>5 DEF MergeTotals

(* A merge moves rows and never money: what all orders received and what   *)
(* the standing orders are worth are unchanged, and a merged order is left *)
(* with nothing.                                                           *)
THEOREM MergesKeepMoney == Spec => MergeKeepsTotals
<1>1. Init => LineInv /\ LegInv /\ RefundInv /\ RefsFit
  BY LineInit DEF Init, RefundInv, RefundBacked, RefundRows, AskIsFree, NoRefund, LegInv, Legs, NoTransfer,
         RefsFit
<1>2. RefundInv => RefundBacked
  BY DEF RefundInv
<1>3. MergeTotals <=>
        (mergedInto' # mergedInto =>
          /\ SumAmt(payments') = SumAmt(payments)
          /\ SumFunctionOnSet(total', {o \in Standing : mergedInto'[o] = NoOrder}) = SumFunctionOnSet(total, Standing)
          /\ \A o \in Orders : mergedInto[o] = NoOrder /\ mergedInto'[o] # NoOrder
               => amountPaid'[o] = 0)
  BY DEF MergeTotals
<1> QED
  BY <1>1, <1>2, <1>3, InitType, StepType, RefundStep, LegStep, LineStep, RefsStep, MergeStep, PTL
     DEF Spec, MergeKeepsTotals

=============================================================================
