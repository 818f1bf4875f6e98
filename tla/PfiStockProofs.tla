--------------------------- MODULE PfiStockProofs ---------------------------
(* Theorems about PfiStock, for every set of orders and PFIs, every        *)
(* quantity, every tank and whatever is typed into the edit form.          *)
EXTENDS PfiStock, SumLemmas, TLAPS

-----------------------------------------------------------------------------
(* What the helpers return.                                                *)

LEMMA LitresType ==
  /\ Nothing \in Litres
  /\ \A p \in Pfis, q \in Nat : Only(p, q) \in Litres
  /\ \A a \in Litres, b \in Litres : Plus(a, b) \in Litres
BY DEF Litres, Nothing, Only, Plus

LEMMA GiveBackType ==
  ASSUME NEW from \in Pfis \cup {NoPfi}, NEW q \in Nat, NEW rows \in Litres
  PROVE  GiveBack(from, q, rows) \in Litres
BY LitresType DEF GiveBack

LEMMA ReturnType ==
  ASSUME TypeOK, NEW give \in Litres
  PROVE  /\ SoldAfterReturn(give) \in Litres
         /\ StatusAfterReturn(give) \in [Pfis -> PfiStatus]
BY DEF TypeOK, SoldAfterReturn, StatusAfterReturn, Litres, PfiStatus

LEMMA SoldOutType ==
  ASSUME NEW S, NEW s, NEW st \in [Pfis -> PfiStatus]
  PROVE  StatusWhenSoldOut(S, s, st) \in [Pfis -> PfiStatus]
BY DEF StatusWhenSoldOut, PfiStatus

LEMMA RowsType ==
  ASSUME TypeOK, NEW o \in Orders, NEW from, NEW to \in Pfis \cup {NoPfi}, NEW q \in Nat
  PROVE  RowsAfterMove(o, from, to, q) \in Litres
BY LitresType DEF RowsAfterMove, TypeOK

LEMMA MovementType ==
  ASSUME TypeOK, NEW o \in Orders, NEW to \in Pfis \cup {NoPfi}
  PROVE  MovementAfterMove(o, to) \in [Orders -> Pfis \cup {NoPfi}]
BY DEF TypeOK, MovementAfterMove

-----------------------------------------------------------------------------
(* Type correctness.                                                       *)

LEMMA InitType == Init => TypeOK
<1> SUFFICES ASSUME Init PROVE TypeOK
  OBVIOUS
<1> USE StockAssumption, LitresType
<1>1. tank \in [Pfis -> Nat]
  BY DEF Init
<1>2. found \in [Pfis -> Int] /\ sold \in [Pfis -> Nat]
  BY DEF Init, Nothing
<1>3. pstatus \in [Pfis -> PfiStatus] /\ status \in [Orders -> OrderStatus]
  BY DEF Init, PfiStatus, OrderStatus
<1>4. find \in [Finds -> [pfi: Pfis \cup {NoPfi}, qty: Nat, live: BOOLEAN]]
  BY DEF Init, NoFind
<1>5. plan \in [Orders -> [qty: Nat, take: Litres, pfi: Pfis \cup {NoPfi}]]
  BY DEF Init, NoPlan
<1>6. assigning \in [Orders -> [to: Pfis \cup {NoPfi}, from: Pfis \cup {NoPfi}, qty: Nat,
                                rows: Litres, moved: BOOLEAN]]
  BY DEF Init, NoAssign
<1>7. deleting \in [Orders -> [open: BOOLEAN, rows: Litres]]
  BY DEF Init, NoDelete
<1> QED
  BY <1>1, <1>2, <1>3, <1>4, <1>5, <1>6, <1>7 DEF Init, TypeOK

(* One step leaves every variable in its type.                             *)
LEMMA StepType == TypeOK /\ [Next]_vars => TypeOK'
<1> SUFFICES ASSUME TypeOK, [Next]_vars PROVE TypeOK'
  OBVIOUS
<1> USE StockAssumption DEF vars, orderVars, pfiVars, flightVars
<1>1. ASSUME NEW o \in Orders, NEW q \in Quantities, NEW p \in Pfis \cup {NoPfi},
             NEW take \in [Pfis -> 0..q], FindPfi(o, q, take, p)
      PROVE  TypeOK'
  <2>1. q \in Nat /\ take \in Litres
    BY DEF Litres
  <2>2. [qty |-> q, take |-> take, pfi |-> p]
          \in [qty: Nat, take: Litres, pfi: Pfis \cup {NoPfi}]
    BY <2>1
  <2> QED
    BY <1>1, <2>2 DEF FindPfi, TypeOK
<1>2. ASSUME NEW o \in Orders, NEW st \in {"Pending", "Released"}, PlaceOrder(o, st)
      PROVE  TypeOK'
  <2>1. plan[o].take \in Litres /\ plan[o].qty \in Nat /\ plan[o].pfi \in Pfis \cup {NoPfi}
    BY DEF TypeOK
  <2>2. sold' \in [Pfis -> Nat] /\ held' \in [Orders -> Litres]
    BY <1>2, <2>1, LitresType DEF PlaceOrder, TypeOK, Litres
  <2>3. pstatus' \in [Pfis -> PfiStatus]
    BY <1>2, SoldOutType DEF PlaceOrder, TypeOK
  <2>4. plan' \in [Orders -> [qty: Nat, take: Litres, pfi: Pfis \cup {NoPfi}]]
    BY <1>2, LitresType DEF PlaceOrder, TypeOK, NoPlan
  <2> QED
    BY <1>2, <2>1, <2>2, <2>3, <2>4 DEF PlaceOrder, TypeOK, OrderStatus
<1>3. ASSUME NEW o \in Orders, RefusePlace(o) PROVE TypeOK'
  BY <1>3, LitresType DEF RefusePlace, TypeOK, NoPlan
<1>4. ASSUME NEW o \in Orders, Release(o) \/ GateIn(o) PROVE TypeOK'
  BY <1>4 DEF Release, GateIn, TypeOK, OrderStatus
<1>5. ASSUME NEW o \in Orders, GenerateTickets(o) PROVE TypeOK'
  BY <1>5 DEF GenerateTickets, TypeOK, OrderStatus
<1>6. ASSUME NEW o \in Orders, EndOrder(o) PROVE TypeOK'
  <2>1. GiveBack(pfi[o], qty[o], held[o]) \in Litres
    BY GiveBackType DEF TypeOK
  <2>2. sold' \in [Pfis -> Nat] /\ pstatus' \in [Pfis -> PfiStatus]
    BY <1>6, <2>1, ReturnType DEF EndOrder, Litres
  <2>3. held' \in [Orders -> Litres]
    BY <1>6, LitresType DEF EndOrder, RowsDeleted, TypeOK
  <2> QED
    BY <1>6, <2>2, <2>3 DEF EndOrder, TypeOK, OrderStatus
<1>7. ASSUME NEW o \in Orders, NEW to \in Pfis \cup {NoPfi}, NEW q \in Quantities \cup {qty[o]},
             UpdateOrder(o, q, to)
      PROVE  TypeOK'
  <2> DEFINE give  == GiveBack(pfi[o], qty[o], held[o])
             take  == IF to = NoPfi THEN Nothing ELSE Only(to, q)
             after == SoldAfterReturn(give)
             st    == StatusAfterReturn(give)
  <2>1. q \in Nat
    BY DEF TypeOK
  <2>2. give \in Litres
    BY GiveBackType DEF TypeOK
  <2>3. take \in Litres
    BY <2>1, LitresType
  <2>4. after \in Litres /\ st \in [Pfis -> PfiStatus]
    BY <2>2, ReturnType
  <2>5. sold' \in [Pfis -> Nat]
    BY <1>7, <2>3, <2>4, LitresType DEF UpdateOrder, Litres
  <2>6. pstatus' \in [Pfis -> PfiStatus]
    BY <1>7, <2>4, SoldOutType DEF UpdateOrder
  <2>7. held' \in [Orders -> Litres]
    BY <1>7, <2>1, RowsType DEF UpdateOrder, TypeOK
  <2>8. moved' \in [Orders -> Pfis \cup {NoPfi}]
    BY <1>7, MovementType DEF UpdateOrder, TypeOK
  <2>9. /\ qty' \in [Orders -> Nat]
        /\ pfi' \in [Orders -> Pfis \cup {NoPfi}]
        /\ UNCHANGED <<status, merged, tank, found, find, flightVars>>
    BY <1>7, <2>1 DEF UpdateOrder, TypeOK
  <2> QED
    BY <2>5, <2>6, <2>7, <2>8, <2>9 DEF TypeOK
<1>8. ASSUME NEW target \in Orders, NEW source \in Orders, MergeOrders(target, source)
      PROVE  TypeOK'
  <2>1. RowsForMerge(target) \in Litres /\ RowsForMerge(source) \in Litres
    BY LitresType DEF RowsForMerge, TypeOK
  <2>2. held' \in [Orders -> Litres]
    BY <1>8, <2>1, LitresType DEF MergeOrders, TypeOK
  <2>3. status' \in [Orders -> OrderStatus]
    BY <1>8 DEF MergeOrders, TypeOK, CombinedStatus, OrderStatus
  <2>4. qty' \in [Orders -> Nat] /\ moved' \in [Orders -> Pfis \cup {NoPfi}]
    BY SMTT(30), <1>8 DEF MergeOrders, TypeOK
  <2> QED
    BY <1>8, <2>2, <2>3, <2>4 DEF MergeOrders, TypeOK
<1>9. ASSUME NEW o \in Orders, NEW to \in Pfis, BeginAssign(o, to) PROVE TypeOK'
  BY <1>9 DEF BeginAssign, TypeOK
<1>10. ASSUME NEW o \in Orders, CommitAssign(o) PROVE TypeOK'
  <2> DEFINE a == assigning[o]
  <2>1. /\ a.to \in Pfis \cup {NoPfi} /\ a.from \in Pfis \cup {NoPfi}
        /\ a.qty \in Nat /\ a.rows \in Litres
    BY DEF TypeOK
  <2>2. AssignGives(o) \in Litres
    BY <2>1, GiveBackType DEF AssignGives
  <2>3. /\ SoldAfterReturn(AssignGives(o)) \in Litres
        /\ StatusAfterReturn(AssignGives(o)) \in [Pfis -> PfiStatus]
    BY <2>2, ReturnType
  <2>4. Only(a.to, a.qty) \in Litres
    BY <2>1 DEF Only, Litres
  <2>5. sold' \in [Pfis -> Nat]
    BY <1>10, <2>3, <2>4, LitresType DEF CommitAssign, Litres
  <2>6. pstatus' \in [Pfis -> PfiStatus]
    BY <1>10, <2>3, SoldOutType DEF CommitAssign
  <2>7. held' \in [Orders -> Litres]
    BY <1>10, <2>1, RowsType DEF CommitAssign, TypeOK
  <2>8. moved' \in [Orders -> Pfis \cup {NoPfi}]
    BY <1>10, <2>1, MovementType DEF CommitAssign, TypeOK
  <2>9. NoAssign \in [to: Pfis \cup {NoPfi}, from: Pfis \cup {NoPfi}, qty: Nat,
                      rows: Litres, moved: BOOLEAN]
    BY LitresType DEF NoAssign
  <2>10. /\ pfi' \in [Orders -> Pfis \cup {NoPfi}]
         /\ assigning' \in [Orders -> [to: Pfis \cup {NoPfi}, from: Pfis \cup {NoPfi}, qty: Nat,
                                       rows: Litres, moved: BOOLEAN]]
    BY <1>10, <2>1, <2>9 DEF CommitAssign, TypeOK
  <2>11. UNCHANGED <<status, qty, merged, tank, found, find, plan, deleting, activating>>
    BY <1>10 DEF CommitAssign
  <2> QED
    BY <2>5, <2>6, <2>7, <2>8, <2>10, <2>11 DEF TypeOK
<1>11. ASSUME NEW o \in Orders, RefuseAssign(o) PROVE TypeOK'
  BY <1>11, LitresType DEF RefuseAssign, TypeOK, NoAssign
<1>12. ASSUME NEW o \in Orders, BeginDelete(o) PROVE TypeOK'
  BY <1>12 DEF BeginDelete, TypeOK
<1>13. ASSUME NEW o \in Orders, CommitDelete(o) PROVE TypeOK'
  <2>1. deleting[o].rows \in Litres
    BY DEF TypeOK
  <2>2. sold' \in [Pfis -> Nat] /\ pstatus' \in [Pfis -> PfiStatus]
    BY <1>13, <2>1, ReturnType DEF CommitDelete, Litres
  <2>3. held' \in [Orders -> Litres] /\ deleting' \in [Orders -> [open: BOOLEAN, rows: Litres]]
    BY <1>13, LitresType DEF CommitDelete, TypeOK, NoDelete
  <2> QED
    BY <1>13, <2>2, <2>3 DEF CommitDelete, TypeOK, OrderStatus
<1>14. ASSUME NEW o \in Orders, RefuseDelete(o) PROVE TypeOK'
  BY <1>14, LitresType DEF RefuseDelete, TypeOK, NoDelete
<1>15. ASSUME NEW p \in Pfis, BeginActivate(p) \/ Activate(p) \/ FinishPfi(p) PROVE TypeOK'
  BY <1>15 DEF BeginActivate, Activate, FinishPfi, TypeOK, PfiStatus
<1>16. ASSUME NEW p \in Pfis, Typed(p) PROVE TypeOK'
  <2>1. PICK st \in TypedStatus \cup {pstatus[p]}, t \in Tanks \cup {tank[p]},
             s \in TypedSold \cup {sold[p]} : UpdatePfi(p, st, t, s)
    BY <1>16 DEF Typed
  <2>2. st \in PfiStatus /\ t \in Nat /\ s \in Nat
    BY SMTT(30) DEF TypeOK, PfiStatus
  <2> QED
    BY <2>1, <2>2 DEF UpdatePfi, TypeOK
<1>17. ASSUME NEW e \in Finds, NEW p \in Pfis, NEW q \in FindLitres, RecordSurplus(e, p, q)
       PROVE  TypeOK'
  BY <1>17 DEF RecordSurplus, TypeOK, PfiStatus
<1>18. ASSUME NEW e \in Finds, VoidSurplus(e) PROVE TypeOK'
  <2>0. find[e] \in [pfi: Pfis \cup {NoPfi}, qty: Nat, live: BOOLEAN]
    BY DEF TypeOK
  <2>1. found' \in [Pfis -> Int] /\ pstatus' \in [Pfis -> PfiStatus]
    <3>1. find[e].qty \in Int
      BY <2>0
    <3>2. found' \in [Pfis -> Int]
      <4>1. \A a, b \in Int : a - b \in Int
        OBVIOUS
      <4>2. found' = [found EXCEPT ![find[e].pfi] = @ - find[e].qty]
        BY <1>18 DEF VoidSurplus
      <4>3. found \in [Pfis -> Int]
        BY DEF TypeOK
      <4> QED
        BY <3>1, <4>1, <4>2, <4>3
    <3>3. pstatus' \in [Pfis -> PfiStatus]
      BY <1>18 DEF VoidSurplus, TypeOK, PfiStatus
    <3> QED
      BY <3>2, <3>3
  <2>2. find' \in [Finds -> [pfi: Pfis \cup {NoPfi}, qty: Nat, live: BOOLEAN]]
    <3>1. [find[e] EXCEPT !.live = FALSE] \in [pfi: Pfis \cup {NoPfi}, qty: Nat, live: BOOLEAN]
      BY <2>0
    <3> QED
      BY <1>18, <3>1 DEF VoidSurplus, TypeOK
  <2> QED
    BY <1>18, <2>1, <2>2 DEF VoidSurplus, TypeOK
<1>19. CASE UNCHANGED vars
  BY <1>19 DEF TypeOK
<1> QED
  BY <1>1, <1>2, <1>3, <1>4, <1>5, <1>6, <1>7, <1>8, <1>9, <1>10, <1>11, <1>12, <1>13,
     <1>14, <1>15, <1>16, <1>17, <1>18, <1>19 DEF Next

(* Every variable keeps its type, whatever the litres and the typing.      *)
THEOREM TypeCorrect == Spec => []TypeOK
BY InitType, StepType, PTL DEF Spec

-----------------------------------------------------------------------------
(* Selling.                                                                *)

(* Giving back sells nothing, and reserving on top of it sells no more     *)
(* than the stock where it had not been oversold.                          *)
LEMMA ReturnSellsNothing ==
  ASSUME TypeOK, NEW give \in Litres, NEW p \in Pfis
  PROVE  SoldAfterReturn(give)[p] <= sold[p]
BY DEF TypeOK, SoldAfterReturn, Litres

LEMMA ReserveWithinStock ==
  ASSUME TypeOK, NEW s \in Litres, NEW take \in Litres, NEW st, NEW p \in Pfis,
         s[p] <= sold[p], ~Oversold(p), Reservable(take, s, st)
  PROVE  Plus(s, take)[p] <= Stock(p)
BY DEF TypeOK, Litres, Oversold, Stock, Plus, Reservable

(* One step oversells a PFI only by what is typed into its form.           *)
LEMMA StepOversold ==
  ASSUME TypeOK, Next, NEW p \in Pfis, ~Oversold(p), Oversold(p)'
  PROVE  Typed(p)
<1> USE StockAssumption
<1>t. sold[p] \in Nat /\ tank[p] \in Nat /\ found[p] \in Int
  BY DEF TypeOK
<1>v. sold'[p] \in Nat
  BY StepType DEF TypeOK
<1>u. ~UNCHANGED <<tank, found, sold>>
  BY DEF Oversold, Stock
<1>r. ASSUME UNCHANGED <<tank, found>>, sold'[p] <= Stock(p)
      PROVE  FALSE
  BY <1>r, <1>t, <1>v DEF Oversold, Stock
<1>1. ASSUME NEW o \in Orders, NEW st \in {"Pending", "Released"}, PlaceOrder(o, st)
      PROVE  FALSE
  <2>1. plan[o].take \in Litres /\ sold \in Litres /\ sold[p] <= sold[p]
    BY <1>t DEF TypeOK, Litres
  <2>2. Reservable(plan[o].take, sold, pstatus) /\ sold' = Plus(sold, plan[o].take)
    BY <1>1 DEF PlaceOrder
  <2>3. sold'[p] <= Stock(p)
    BY <2>1, <2>2, ReserveWithinStock
  <2> QED
    BY <1>1, <2>3, <1>r DEF PlaceOrder
<1>2. ASSUME NEW o \in Orders, EndOrder(o) PROVE FALSE
  <2>1. GiveBack(pfi[o], qty[o], held[o]) \in Litres
    BY GiveBackType DEF TypeOK
  <2>2. sold'[p] <= sold[p] /\ sold'[p] \in Nat
    BY <1>2, <2>1, ReturnSellsNothing, ReturnType DEF EndOrder, Litres
  <2> QED
    BY <1>2, <1>t, <2>2, <1>r DEF EndOrder, Oversold, Stock
<1>3. ASSUME NEW o \in Orders, NEW to \in Pfis \cup {NoPfi}, NEW q \in Quantities \cup {qty[o]},
             UpdateOrder(o, q, to)
      PROVE  FALSE
  <2> DEFINE give == GiveBack(pfi[o], qty[o], held[o])
             take == IF to = NoPfi THEN Nothing ELSE Only(to, q)
  <2>1. give \in Litres
    BY GiveBackType DEF TypeOK
  <2>2. take \in Litres
    BY LitresType DEF TypeOK
  <2>3. /\ Reservable(take, SoldAfterReturn(give), StatusAfterReturn(give))
        /\ sold' = Plus(SoldAfterReturn(give), take)
    BY <1>3 DEF UpdateOrder
  <2>4. SoldAfterReturn(give) \in Litres /\ SoldAfterReturn(give)[p] <= sold[p]
    BY <2>1, ReturnType, ReturnSellsNothing
  <2>5. sold'[p] <= Stock(p)
    BY <2>2, <2>3, <2>4, ReserveWithinStock
  <2> QED
    BY <1>3, <2>5, <1>r DEF UpdateOrder
<1>4. ASSUME NEW o \in Orders, CommitAssign(o) PROVE FALSE
  <2> DEFINE take == Only(assigning[o].to, assigning[o].qty)
  <2>1. AssignGives(o) \in Litres /\ take \in Litres
    BY GiveBackType DEF TypeOK, AssignGives, Only, Litres
  <2>2. /\ Reservable(take, SoldAfterReturn(AssignGives(o)), StatusAfterReturn(AssignGives(o)))
        /\ sold' = Plus(SoldAfterReturn(AssignGives(o)), take)
    BY <1>4 DEF CommitAssign
  <2>3. /\ SoldAfterReturn(AssignGives(o)) \in Litres
        /\ SoldAfterReturn(AssignGives(o))[p] <= sold[p]
    BY <2>1, ReturnType, ReturnSellsNothing
  <2>4. sold'[p] <= Stock(p)
    BY <2>1, <2>2, <2>3, ReserveWithinStock
  <2> QED
    BY <1>4, <2>4, <1>r DEF CommitAssign
<1>5. ASSUME NEW o \in Orders, CommitDelete(o) PROVE FALSE
  <2>1. deleting[o].rows \in Litres
    BY DEF TypeOK
  <2>2. sold'[p] <= sold[p] /\ sold'[p] \in Nat
    BY <1>5, <2>1, ReturnSellsNothing, ReturnType DEF CommitDelete, Litres
  <2> QED
    BY <1>5, <1>t, <2>2, <1>r DEF CommitDelete, Oversold, Stock
<1>6. ASSUME NEW x \in Pfis, Typed(x) PROVE Typed(p)
  <2>1. CASE x = p
    BY <1>6, <2>1
  <2>2. CASE x # p
    <3>1. tank'[p] = tank[p] /\ sold'[p] = sold[p] /\ found' = found
      BY <1>6, <2>2 DEF Typed, UpdatePfi, TypeOK
    <3> QED
      BY <3>1 DEF Oversold, Stock
  <2> QED
    BY <2>1, <2>2
<1>7. ASSUME NEW e \in Finds, NEW x \in Pfis, NEW q \in FindLitres, RecordSurplus(e, x, q)
      PROVE  FALSE
  <2>1. found'[p] >= found[p] /\ found'[p] \in Int
    BY <1>7 DEF RecordSurplus, TypeOK
  <2> QED
    BY <1>7, <1>t, <2>1 DEF RecordSurplus, Oversold, Stock
<1>8. ASSUME NEW e \in Finds, VoidSurplus(e) PROVE FALSE
  <2> DEFINE x == find[e].pfi  q == find[e].qty
  <2>1. found' = [found EXCEPT ![x] = @ - q] /\ sold' = sold /\ tank' = tank
    BY <1>8 DEF VoidSurplus
  <2>2. q \in Nat
    BY DEF TypeOK
  <2>3. CASE x = p
    BY <1>8, <1>t, <2>1, <2>2, <2>3 DEF VoidSurplus, StillUnsold, Oversold, Stock, TypeOK
  <2>4. CASE x # p
    BY <2>1, <2>4 DEF Oversold, Stock, TypeOK
  <2> QED
    BY <2>3, <2>4
<1>9. (\/ \E o \in Orders, q \in Quantities, x \in Pfis \cup {NoPfi} :
            \E take \in [Pfis -> 0..q] : FindPfi(o, q, take, x)
       \/ \E o \in Orders : \/ RefusePlace(o) \/ Release(o) \/ GenerateTickets(o) \/ GateIn(o)
                            \/ RefuseAssign(o) \/ BeginDelete(o) \/ RefuseDelete(o)
       \/ \E target, source \in Orders : MergeOrders(target, source)
       \/ \E o \in Orders, to \in Pfis : BeginAssign(o, to)
       \/ \E x \in Pfis : BeginActivate(x) \/ Activate(x) \/ FinishPfi(x))
      => UNCHANGED <<tank, found, sold>>
  BY DEF FindPfi, RefusePlace, Release, GenerateTickets, GateIn, RefuseAssign, BeginDelete,
         RefuseDelete, MergeOrders, BeginAssign, BeginActivate, Activate, FinishPfi, pfiVars
<1> QED
  BY <1>u, <1>1, <1>2, <1>3, <1>4, <1>5, <1>6, <1>7, <1>8, <1>9 DEF Next

(* Only somebody typing over the tank or the sold figure of a PFI makes it *)
(* oversold: not a race between two placings, a placing and a surplus      *)
(* taken back, a move, a bulk assignment or a deletion.                    *)
THEOREM NeverOversoldButByTyping == Spec => OversoldOnlyByTyping
<1>1. TypeOK /\ [Next]_vars => [\A p \in Pfis : ~Oversold(p) /\ Oversold(p)' => Typed(p)]_vars
  BY StepOversold
<1> QED
  BY <1>1, TypeCorrect, PTL DEF Spec, OversoldOnlyByTyping

-----------------------------------------------------------------------------
(* The surplus found.                                                      *)

LitresFound     == [e \in Finds |-> find[e].qty]
StandingOf(p)   == {e \in Finds : find[e].pfi = p /\ find[e].live}

(* One step keeps the surplus of every PFI the sum of its entries.         *)
LEMMA FoundStep == TypeOK /\ FoundIsEntries /\ [Next]_vars => FoundIsEntries'
<1> SUFFICES ASSUME TypeOK, FoundIsEntries, [Next]_vars PROVE FoundIsEntries'
  OBVIOUS
<1> USE StockAssumption
<1>f. FoundIsEntries <=> \A p \in Pfis : found[p] = SumFunctionOnSet(LitresFound, StandingOf(p))
  BY DEF FoundIsEntries, LitresFound, StandingOf
<1>g. FoundIsEntries' <=> \A p \in Pfis : found'[p] = SumFunctionOnSet(LitresFound', StandingOf(p)')
  BY DEF FoundIsEntries, LitresFound, StandingOf
<1>t. \A e \in Finds : LitresFound[e] \in Int
  BY DEF LitresFound, TypeOK
<1>fin. \A p : IsFiniteSet(StandingOf(p)) /\ StandingOf(p) \subseteq Finds
  BY FS_Subset DEF StandingOf
<1>sum. \A p : SumFunctionOnSet(LitresFound, StandingOf(p)) \in Int
  BY <1>t, <1>fin, SumType
<1>1. ASSUME NEW e \in Finds, NEW x \in Pfis, NEW q \in FindLitres, RecordSurplus(e, x, q)
      PROVE  FoundIsEntries'
  <2>1. /\ find[e] = NoFind
        /\ find' = [find EXCEPT ![e] = [pfi |-> x, qty |-> q, live |-> TRUE]]
        /\ found' = [found EXCEPT ![x] = @ + q]
    BY <1>1 DEF RecordSurplus
  <2>2. \A d \in Finds : d # e => find'[d] = find[d]
    BY <2>1 DEF TypeOK
  <2>3. find'[e] = [pfi |-> x, qty |-> q, live |-> TRUE] /\ ~find[e].live
    BY <2>1 DEF TypeOK, NoFind
  <2>4. /\ \A d \in Finds : d # e => LitresFound'[d] = LitresFound[d]
        /\ LitresFound'[e] = q /\ q \in Nat
    <3>1. \A d \in Finds : LitresFound'[d] = find'[d].qty /\ LitresFound[d] = find[d].qty
      BY DEF LitresFound
    <3>2. q \in Nat
      OBVIOUS
    <3>3. LitresFound'[e] = q
      BY <2>3, <3>1
    <3> QED
      BY <2>2, <3>1, <3>2, <3>3
  <2>5. ASSUME NEW p \in Pfis PROVE found'[p] = SumFunctionOnSet(LitresFound', StandingOf(p)')
    <3>1. e \notin StandingOf(p)
      BY <2>3 DEF StandingOf
    <3>2. \A d \in StandingOf(p) : LitresFound[d] \in Int /\ LitresFound'[d] = LitresFound[d]
      BY <1>t, <1>fin, <2>4, <3>1
    <3>3. SumFunctionOnSet(LitresFound', StandingOf(p)) = SumFunctionOnSet(LitresFound, StandingOf(p))
      BY <1>fin, <3>2, SumSame
    <3>4. CASE p = x
      <4>1. StandingOf(p)' = StandingOf(p) \cup {e}
        BY <2>2, <2>3, <3>4 DEF StandingOf
      <4>2. \A d \in StandingOf(p) \cup {e} : LitresFound'[d] \in Int
        BY <1>t, <1>fin, <2>4
      <4>3. SumFunctionOnSet(LitresFound', StandingOf(p) \cup {e})
              = SumFunctionOnSet(LitresFound', StandingOf(p)) + LitresFound'[e]
        BY <1>fin, <3>1, <4>2, SumWith
      <4>4. found'[p] = found[p] + q
        BY <2>1, <3>4 DEF TypeOK
      <4> QED
        BY <1>f, <2>4, <3>3, <4>1, <4>3, <4>4
    <3>5. CASE p # x
      <4>1. StandingOf(p)' = StandingOf(p)
        BY <2>2, <2>3, <3>5 DEF StandingOf
      <4>2. found'[p] = found[p]
        BY <2>1, <3>5 DEF TypeOK
      <4> QED
        BY <1>f, <3>3, <4>1, <4>2
    <3> QED
      BY <3>4, <3>5
  <2> QED
    BY <1>g, <2>5
<1>2. ASSUME NEW e \in Finds, VoidSurplus(e) PROVE FoundIsEntries'
  <2> DEFINE x == find[e].pfi
             q == find[e].qty
  <2>1. /\ find[e].live
        /\ find' = [find EXCEPT ![e] = [find[e] EXCEPT !.live = FALSE]]
        /\ found' = [found EXCEPT ![x] = @ - q]
    BY <1>2 DEF VoidSurplus, Standing
  <2>2. \A d \in Finds : d # e => find'[d] = find[d]
    BY <2>1 DEF TypeOK
  <2>3. find'[e].qty = q /\ find'[e].live = FALSE /\ q \in Nat
    BY <2>1 DEF TypeOK
  <2>4. \A d \in Finds : LitresFound'[d] = LitresFound[d]
    BY <2>2, <2>3 DEF LitresFound
  <2>5. ASSUME NEW p \in Pfis PROVE found'[p] = SumFunctionOnSet(LitresFound', StandingOf(p)')
    <3>1. StandingOf(p)' = StandingOf(p) \ {e}
      BY <2>2, <2>3 DEF StandingOf
    <3>2. IsFiniteSet(StandingOf(p) \ {e})
          /\ \A d \in StandingOf(p) \ {e} : LitresFound[d] \in Int /\ LitresFound'[d] = LitresFound[d]
      BY <1>t, <1>fin, <2>4, FS_Subset
    <3>3. SumFunctionOnSet(LitresFound', StandingOf(p) \ {e}) = SumFunctionOnSet(LitresFound, StandingOf(p) \ {e})
      BY <3>2, SumSame
    <3>4. CASE p = x
      <4>1. e \in StandingOf(p)
        BY <2>1, <3>4 DEF StandingOf
      <4>2. \A d \in StandingOf(p) : LitresFound[d] \in Int
        BY <1>t, <1>fin
      <4>3. SumFunctionOnSet(LitresFound, StandingOf(p))
              = LitresFound[e] + SumFunctionOnSet(LitresFound, StandingOf(p) \ {e})
        BY <1>fin, <4>1, <4>2, SumWithout
      <4>4. found'[p] = found[p] - q /\ LitresFound[e] = q
        BY <2>1, <3>4 DEF TypeOK, LitresFound
      <4>5. SumFunctionOnSet(LitresFound, StandingOf(p) \ {e}) \in Int
        BY <3>2, SumType
      <4> QED
        BY <1>f, <2>3, <3>1, <3>3, <4>3, <4>4, <4>5
    <3>5. CASE p # x
      <4>1. StandingOf(p) \ {e} = StandingOf(p)
        BY <3>5 DEF StandingOf
      <4>2. found'[p] = found[p]
        BY <2>1, <3>5 DEF TypeOK
      <4> QED
        BY <1>f, <3>1, <3>3, <4>1, <4>2
    <3> QED
      BY <3>4, <3>5
  <2> QED
    BY <1>g, <2>5
<1>3. CASE UNCHANGED <<found, find>>
  BY <1>3 DEF FoundIsEntries
<1>4. ASSUME NEW x \in Pfis, Typed(x) PROVE FoundIsEntries'
  BY <1>3, <1>4 DEF Typed, UpdatePfi
<1> QED
  BY <1>1, <1>2, <1>3, <1>4 DEF Next, vars, pfiVars, FindPfi, PlaceOrder, RefusePlace, Release,
     GenerateTickets, GateIn, EndOrder, UpdateOrder, CommitAssign, CommitDelete, RefuseAssign, BeginDelete,
     RefuseDelete, MergeOrders, BeginAssign, BeginActivate, Activate, FinishPfi

(* The surplus a PFI sells from is the sum of the entries that stand, over *)
(* any number of entries recorded and taken back.                          *)
THEOREM FoundIsSum == Spec => []FoundIsEntries
<1>1. Init => FoundIsEntries
  <2> SUFFICES ASSUME Init, NEW p \in Pfis
               PROVE  found[p] = SumFunctionOnSet([e \in Finds |-> find[e].qty],
                                                  {e \in Finds : find[e].pfi = p /\ find[e].live})
    BY DEF FoundIsEntries
  <2>1. {e \in Finds : find[e].pfi = p /\ find[e].live} = {} /\ found[p] = 0
    BY DEF Init, NoFind, Nothing
  <2> QED
    BY <2>1, SumEmpty
<1> QED
  BY <1>1, FoundStep, TypeCorrect, PTL DEF Spec

-----------------------------------------------------------------------------
(* What a placing, an assignment and a live order always have.             *)

(* An offer is for an order not there yet, within what was asked for, and  *)
(* names a PFI exactly when it has litres.                                 *)
OffersFit ==
  \A o \in Orders :
    plan[o] # NoPlan =>
      /\ status[o] = "Absent"
      /\ plan[o].qty > 0
      /\ Total(plan[o].take) <= plan[o].qty
      /\ plan[o].pfi = NoPfi <=> plan[o].take = Nothing

AbsentEmpty == \A o \in Orders : status[o] = "Absent" => held[o] = Nothing /\ moved[o] = NoPfi

(* An order is for some litres, and a live one with a PFI holds some: what *)
(* it gives back is then what it holds.                                    *)
OrdersHold ==
  \A o \in Orders :
    /\ Exists(o) => qty[o] > 0
    /\ Lives(o) /\ pfi[o] # NoPfi => held[o] # Nothing

AssignsFit == \A o \in Orders : assigning[o] # NoAssign => assigning[o].to \in Pfis /\ assigning[o].qty > 0

StockInv == OffersFit /\ AbsentEmpty /\ OrdersHold /\ AssignsFit

LEMMA SomeLitres ==
  /\ \A p \in Pfis, q \in Nat \ {0} : Only(p, q) # Nothing
  /\ \A a \in Litres, b \in Litres : a # Nothing \/ b # Nothing => Plus(a, b) # Nothing
<1>1. ASSUME NEW p \in Pfis, NEW q \in Nat \ {0} PROVE Only(p, q) # Nothing
  <2>1. Only(p, q)[p] # Nothing[p]
    BY DEF Only, Nothing
  <2> QED
    BY <2>1
<1>2. ASSUME NEW a \in Litres, NEW b \in Litres, a # Nothing \/ b # Nothing
      PROVE  Plus(a, b) # Nothing
  <2>1. PICK p \in Pfis : a[p] # 0 \/ b[p] # 0
    BY <1>2 DEF Litres, Nothing
  <2>2. Plus(a, b)[p] # Nothing[p]
    BY <2>1 DEF Plus, Nothing, Litres
  <2> QED
    BY <2>2
<1> QED
  BY <1>1, <1>2

LEMMA StockInvInit == Init => StockInv
BY DEF Init, StockInv, OffersFit, AbsentEmpty, OrdersHold, AssignsFit, Exists, Lives

LEMMA StockInvStep == TypeOK /\ StockInv /\ [Next]_vars => StockInv'
<1> SUFFICES ASSUME TypeOK, StockInv, [Next]_vars PROVE StockInv'
  OBVIOUS
<1>q. \A q \in Quantities : q > 0
  BY StockAssumption
<1> USE StockAssumption DEF StockInv, OffersFit, AbsentEmpty, OrdersHold, AssignsFit, Exists, Lives,
        vars, orderVars, pfiVars, flightVars
<1>1. ASSUME NEW o \in Orders, NEW q \in Quantities, NEW p \in Pfis \cup {NoPfi},
             NEW take \in [Pfis -> 0..q], FindPfi(o, q, take, p)
      PROVE  StockInv'
  <2>a. q > 0
    BY <1>q
  <2>b. p = NoPfi <=> take = Nothing
    BY <1>1 DEF FindPfi
  <2>1. /\ status[o] = "Absent" /\ Total(take) <= q
        /\ plan' = [plan EXCEPT ![o] = [qty |-> q, take |-> take, pfi |-> p]]
        /\ UNCHANGED <<orderVars, assigning>>
    BY <1>1 DEF FindPfi, Greedy
  <2>2. OffersFit'
    BY <2>a, <2>b, <2>1 DEF TypeOK
  <2> QED
    BY <2>1, <2>2
<1>2. ASSUME NEW o \in Orders, NEW st \in {"Pending", "Released"}, PlaceOrder(o, st) PROVE StockInv'
  <2>1. /\ plan[o] # NoPlan
        /\ held' = [held EXCEPT ![o] = plan[o].take]
        /\ status' = [status EXCEPT ![o] = st]
        /\ qty' = [qty EXCEPT ![o] = plan[o].qty]
        /\ pfi' = [pfi EXCEPT ![o] = plan[o].pfi]
        /\ plan' = [plan EXCEPT ![o] = NoPlan]
        /\ UNCHANGED <<moved, assigning>>
    BY <1>2 DEF PlaceOrder
  <2>2. OffersFit' /\ AbsentEmpty' /\ AssignsFit'
    BY <2>1 DEF TypeOK
  <2>3. OrdersHold'
    BY <2>1 DEF TypeOK
  <2> QED
    BY <2>2, <2>3
<1>3. ASSUME NEW o \in Orders, RefusePlace(o) PROVE StockInv'
  BY <1>3 DEF RefusePlace, TypeOK
<1>4. ASSUME NEW o \in Orders, Release(o) \/ GenerateTickets(o) \/ GateIn(o) PROVE StockInv'
  <2>1. /\ status[o] \in {"Pending", "Released", "Rolling"} /\ status'[o] \in {"Released", "Rolling"}
        /\ \A x \in Orders : x # o => status'[x] = status[x] /\ moved'[x] = moved[x]
        /\ UNCHANGED <<qty, pfi, held, plan, assigning>>
    BY <1>4 DEF Release, GenerateTickets, GateIn, TypeOK
  <2> QED
    BY <2>1
<1>5. ASSUME NEW o \in Orders, EndOrder(o) PROVE StockInv'
  <2>1. /\ status[o] \in {"Pending", "Released"} /\ status'[o] = "Dead"
        /\ \A x \in Orders : x # o => status'[x] = status[x] /\ held'[x] = held[x]
        /\ UNCHANGED <<qty, pfi, moved, plan, assigning>>
    BY <1>5 DEF EndOrder, RowsDeleted, TypeOK
  <2> QED
    BY <2>1
<1>6. ASSUME NEW o \in Orders, NEW to \in Pfis \cup {NoPfi}, NEW q \in Quantities \cup {qty[o]},
             UpdateOrder(o, q, to)
      PROVE  StockInv'
  <2>1. /\ Lives(o)
        /\ held' = [held EXCEPT ![o] = RowsAfterMove(o, pfi[o], to, q)]
        /\ pfi' = [pfi EXCEPT ![o] = to]
        /\ qty' = [qty EXCEPT ![o] = q]
        /\ UNCHANGED <<status, plan, assigning>>
        /\ \A x \in Orders : x # o => moved'[x] = moved[x]
    BY <1>6 DEF UpdateOrder, MovementAfterMove, TypeOK
  <2>2. q \in Nat \ {0}
    BY <2>1 DEF TypeOK
  <2>3. to # NoPfi => RowsAfterMove(o, pfi[o], to, q) # Nothing
    <3>1. ASSUME to # NoPfi, NEW kept \in Litres PROVE Plus(kept, Only(to, q)) # Nothing
      BY <2>2, <3>1, SomeLitres, LitresType
    <3>2. held[o] \in Litres /\ Nothing \in Litres
      BY LitresType DEF TypeOK
    <3> QED
      BY <3>1, <3>2 DEF RowsAfterMove
  <2> QED
    BY <2>1, <2>2, <2>3 DEF TypeOK
<1>7. ASSUME NEW target \in Orders, NEW source \in Orders, MergeOrders(target, source)
      PROVE  StockInv'
  <2>1. /\ target # source /\ Lives(target) /\ Lives(source)
        /\ status'[target] \in {"Pending", "Released", "Rolling"} /\ status'[source] = "Dead"
        /\ qty'[target] = qty[target] + qty[source] /\ qty'[source] = qty[source]
        /\ held'[target] = Plus(RowsForMerge(target), RowsForMerge(source))
        /\ \A x \in Orders : x \notin {target, source} => /\ status'[x] = status[x]
                                                          /\ qty'[x] = qty[x]
                                                          /\ held'[x] = held[x]
                                                          /\ moved'[x] = moved[x]
        /\ UNCHANGED <<pfi, plan, assigning>>
    BY <1>7 DEF MergeOrders, CombinedStatus, TypeOK
  <2>2. RowsForMerge(target) \in Litres /\ RowsForMerge(source) \in Litres
    BY LitresType DEF RowsForMerge, TypeOK
  <2>3. pfi[target] # NoPfi => held'[target] # Nothing
    <3>1. pfi[target] # NoPfi => RowsForMerge(target) # Nothing
      BY <2>1 DEF RowsForMerge
    <3> QED
      BY <2>1, <2>2, <3>1, SomeLitres
  <2>4. qty'[target] > 0
    BY <2>1 DEF TypeOK
  <2> QED
    BY <2>1, <2>3, <2>4
<1>8. ASSUME NEW o \in Orders, NEW to \in Pfis, BeginAssign(o, to) PROVE StockInv'
  <2>1. /\ Exists(o)
        /\ assigning' = [assigning EXCEPT ![o] =
             [to |-> to, from |-> pfi[o], qty |-> qty[o], rows |-> held[o], moved |-> moved[o] # NoPfi]]
        /\ UNCHANGED <<orderVars, plan>>
    BY <1>8 DEF BeginAssign
  <2>2. AssignsFit'
    BY <2>1 DEF TypeOK
  <2> QED
    BY <2>1, <2>2
<1>9. ASSUME NEW o \in Orders, CommitAssign(o) PROVE StockInv'
  <2> DEFINE a == assigning[o]
  <2>1. /\ a # NoAssign /\ Exists(o)
        /\ held' = [held EXCEPT ![o] = RowsAfterMove(o, a.from, a.to, a.qty)]
        /\ pfi' = [pfi EXCEPT ![o] = a.to]
        /\ assigning' = [assigning EXCEPT ![o] = NoAssign]
        /\ UNCHANGED <<status, qty, plan>>
        /\ \A x \in Orders : x # o => moved'[x] = moved[x]
    BY <1>9 DEF CommitAssign, MovementAfterMove, TypeOK
  <2>2. a.to \in Pfis /\ a.qty \in Nat \ {0}
    BY <2>1 DEF TypeOK
  <2>3. RowsAfterMove(o, a.from, a.to, a.qty) # Nothing
    <3>1. ASSUME NEW kept \in Litres PROVE Plus(kept, Only(a.to, a.qty)) # Nothing
      BY <2>2, <3>1, SomeLitres, LitresType
    <3>2. held[o] \in Litres /\ Nothing \in Litres
      BY LitresType DEF TypeOK
    <3> QED
      BY <2>2, <3>1, <3>2 DEF RowsAfterMove
  <2>4. AssignsFit'
    BY <2>1 DEF TypeOK
  <2>5. OffersFit' /\ AbsentEmpty' /\ OrdersHold'
    BY <2>1, <2>3 DEF TypeOK
  <2> QED
    BY <2>4, <2>5
<1>10. ASSUME NEW o \in Orders, RefuseAssign(o) PROVE StockInv'
  BY <1>10 DEF RefuseAssign, TypeOK
<1>11. ASSUME NEW o \in Orders, CommitDelete(o) PROVE StockInv'
  <2>1. /\ Exists(o) /\ status' = [status EXCEPT ![o] = "Deleted"]
        /\ qty' = [qty EXCEPT ![o] = 0]
        /\ pfi' = [pfi EXCEPT ![o] = NoPfi]
        /\ held' = [held EXCEPT ![o] = Nothing]
        /\ moved' = [moved EXCEPT ![o] = NoPfi]
        /\ UNCHANGED <<plan, assigning>>
    BY <1>11 DEF CommitDelete
  <2> QED
    BY <2>1 DEF TypeOK
<1>12. CASE UNCHANGED <<status, qty, pfi, held, moved, plan, assigning>>
  BY <1>12
<1>13. ASSUME NEW p \in Pfis, Typed(p) PROVE StockInv'
  BY <1>12, <1>13 DEF Typed, UpdatePfi
<1> QED
  BY <1>1, <1>2, <1>3, <1>4, <1>5, <1>6, <1>7, <1>8, <1>9, <1>10, <1>11, <1>12, <1>13
     DEF Next, BeginDelete, RefuseDelete, BeginActivate, Activate, FinishPfi, RecordSurplus, VoidSurplus

-----------------------------------------------------------------------------
(* The sold counter and the litres orders hold.                            *)

HeldBy(h, p)  == [o \in Orders |-> h[o][p]]
HeldSum(h, p) == SumFunctionOnSet(HeldBy(h, p), Orders)

(* When only one order's litres change, the sum changes by as much.        *)
LEMMA HeldSumChange ==
  ASSUME NEW h \in [Orders -> Litres], NEW g \in [Orders -> Litres], NEW o \in Orders, NEW p \in Pfis,
         \A x \in Orders : x # o => g[x] = h[x]
  PROVE  /\ HeldSum(h, p) \in Nat /\ h[o][p] \in Nat /\ h[o][p] <= HeldSum(h, p)
         /\ g[o][p] \in Nat
         /\ HeldSum(g, p) = HeldSum(h, p) + (g[o][p] - h[o][p])
<1> DEFINE f == HeldBy(h, p)
           e == HeldBy(g, p)
<1>1. IsFiniteSet(Orders)
  BY StockAssumption
<1>2. \A x \in Orders : f[x] \in Nat /\ e[x] \in Nat /\ f[x] = h[x][p] /\ e[x] = g[x][p]
  BY DEF HeldBy, Litres
<1>3. \A x \in Orders \ {o} : e[x] = f[x]
  BY <1>2
<1> HIDE DEF f, e
<1>4. \A x \in Orders : f[x] \in Int
  BY <1>2
<1>5. \A x \in Orders : f[x] \in Nat
  BY <1>2
<1>6. e[o] \in Int
  BY <1>2
<1>7. SumFunctionOnSet(f, Orders) \in Nat
  BY <1>1, <1>5, SumNat
<1>8. f[o] <= SumFunctionOnSet(f, Orders)
  BY <1>1, <1>5, SumAtLeast
<1>9. SumFunctionOnSet(e, Orders) = SumFunctionOnSet(f, Orders) + (e[o] - f[o])
  BY <1>1, <1>3, <1>4, <1>6, SumChange
<1> QED
  BY <1>2, <1>7, <1>8, <1>9 DEF HeldSum, f, e

LEMMA HeldOnIsSum == \A p \in Pfis : HeldOn(p) = HeldSum(held, p) /\ HeldOn(p)' = HeldSum(held', p)
BY DEF HeldOn, HeldSum, HeldBy

(* Giving back what is held and taking more moves the counter and the rows *)
(* of one order alike.                                                     *)
LEMMA NoDrift ==
  ASSUME TypeOK, TypeOK', NEW o \in Orders, NEW p \in Pfis, Drift(p) = 0,
         \A x \in Orders : x # o => held'[x] = held[x],
         NEW back \in Nat, NEW take \in Nat, back <= held[o][p],
         held'[o][p] = held[o][p] - back + take,
         sold'[p] = (IF sold[p] > back THEN sold[p] - back ELSE 0) + take
  PROVE  Drift(p)' = 0
<1>1. held \in [Orders -> Litres] /\ held' \in [Orders -> Litres] /\ sold[p] \in Nat /\ sold'[p] \in Nat
  BY DEF TypeOK
<1>2. /\ HeldSum(held, p) \in Nat /\ held[o][p] \in Nat /\ held[o][p] <= HeldSum(held, p)
      /\ held'[o][p] \in Nat
      /\ HeldSum(held', p) = HeldSum(held, p) + (held'[o][p] - held[o][p])
  BY <1>1, HeldSumChange
<1>3. sold[p] = HeldSum(held, p)
  BY <1>1, <1>2, HeldOnIsSum DEF Drift
<1>4. HeldSum(held', p) = HeldSum(held, p) - back + take
  BY <1>2
<1>5. sold'[p] = HeldSum(held', p)
  BY <1>1, <1>2, <1>3, <1>4
<1> QED
  BY <1>1, <1>2, <1>5, HeldOnIsSum DEF Drift

(* One step takes a counter off the litres held only by giving back what   *)
(* was read before, or by typing.                                          *)
LEMMA DriftStep ==
  ASSUME TypeOK, TypeOK', StockInv, Next, NEW p \in Pfis, Drift(p) = 0, Drift(p)' # 0
  PROVE  GivesBackStale(p) \/ Typed(p)
<1> USE StockAssumption
<1>t. /\ \A x \in Orders : held[x] \in Litres /\ held[x][p] \in Nat
      /\ sold[p] \in Nat /\ sold \in [Pfis -> Nat] /\ Nothing \in Litres /\ Nothing[p] = 0
  BY LitresType DEF TypeOK, Litres, Nothing
<1>u. ~UNCHANGED <<held, sold>>
  BY DEF Drift, HeldOn
<1>1. ASSUME NEW o \in Orders, NEW st \in {"Pending", "Released"}, PlaceOrder(o, st) PROVE FALSE
  <2> DEFINE take == plan[o].take
  <2>1. plan[o] # NoPlan /\ sold' = Plus(sold, take) /\ held' = [held EXCEPT ![o] = take]
    BY <1>1 DEF PlaceOrder
  <2>2. held[o] = Nothing /\ take \in Litres /\ take[p] \in Nat
    BY <2>1 DEF StockInv, OffersFit, AbsentEmpty, TypeOK, Litres
  <2>3. held'[o] = take /\ \A x \in Orders : x # o => held'[x] = held[x]
    BY <2>1 DEF TypeOK
  <2> HIDE DEF take
  <2>4. sold'[p] = sold[p] + take[p]
    BY <2>1 DEF Plus
  <2>5. /\ 0 \in Nat /\ 0 <= held[o][p] /\ held'[o][p] = held[o][p] - 0 + take[p]
        /\ sold'[p] = (IF sold[p] > 0 THEN sold[p] - 0 ELSE 0) + take[p]
    BY <1>t, <2>2, <2>3, <2>4
  <2> QED
    BY <2>2, <2>3, <2>5, NoDrift
<1>2. ASSUME NEW o \in Orders, EndOrder(o) PROVE FALSE
  <2> DEFINE give == GiveBack(pfi[o], qty[o], held[o])
  <2>1. status[o] \in {"Pending", "Released"} /\ sold' = SoldAfterReturn(give) /\ held' = RowsDeleted(o)
    BY <1>2 DEF EndOrder
  <2>2. CASE pfi[o] = NoPfi
    <3>1. held' = held /\ give = Nothing
      BY <2>1, <2>2 DEF RowsDeleted, GiveBack
    <3>2. \A x \in Pfis : sold'[x] = sold[x]
      BY <1>t, <2>1, <3>1 DEF SoldAfterReturn, Nothing
    <3> QED
      BY <1>u, <2>1, <3>1, <3>2, <1>t DEF SoldAfterReturn
  <2>3. CASE pfi[o] # NoPfi
    <3>1. give = held[o]
      BY <2>1, <2>3 DEF GiveBack, StockInv, OrdersHold, Lives
    <3>2. held'[o] = Nothing /\ \A x \in Orders : x # o => held'[x] = held[x]
      BY <2>1, <2>3 DEF RowsDeleted, TypeOK
    <3>3. sold'[p] = IF sold[p] > held[o][p] THEN sold[p] - held[o][p] ELSE 0
      BY <2>1, <3>1 DEF SoldAfterReturn
    <3>4. /\ 0 \in Nat /\ held'[o][p] = held[o][p] - held[o][p] + 0
          /\ sold'[p] = (IF sold[p] > held[o][p] THEN sold[p] - held[o][p] ELSE 0) + 0
      BY <1>t, <3>2, <3>3
    <3>5. held[o][p] \in Nat /\ held[o][p] <= held[o][p]
      BY <1>t
    <3> QED
      BY <3>2, <3>4, <3>5, NoDrift
  <2> QED
    BY <2>2, <2>3
<1>3. ASSUME NEW o \in Orders, NEW from \in Pfis \cup {NoPfi}, NEW to \in Pfis \cup {NoPfi}, NEW q \in Nat,
             NEW back \in Litres, NEW take \in Litres,
             take = (IF to = NoPfi THEN Nothing ELSE Only(to, q)),
             sold' = Plus(SoldAfterReturn(back), take),
             held' = [held EXCEPT ![o] = RowsAfterMove(o, from, to, q)],
             back[p] = IF from = NoPfi THEN 0 ELSE held[o][p]
      PROVE  FALSE
  <2>1. take[p] \in Nat /\ back[p] \in Nat
    BY DEF Litres
  <2>2. held'[o] = RowsAfterMove(o, from, to, q) /\ \A x \in Orders : x # o => held'[x] = held[x]
    BY <1>3 DEF TypeOK
  <2>3. sold'[p] = (IF sold[p] > back[p] THEN sold[p] - back[p] ELSE 0) + take[p]
    BY <1>3 DEF Plus, SoldAfterReturn
  <2>4. held'[o][p] = (IF from = NoPfi THEN held[o][p] ELSE 0) + take[p]
    <3>1. CASE to = NoPfi
      BY <1>3, <1>t, <2>2, <3>1 DEF RowsAfterMove
    <3>2. CASE to # NoPfi
      <4>1. held'[o] = Plus(IF from = NoPfi THEN held[o] ELSE Nothing, take)
        BY <1>3, <2>2, <3>2 DEF RowsAfterMove
      <4> QED
        BY <1>t, <4>1 DEF Plus
    <3> QED
      BY <3>1, <3>2
  <2>5. back[p] <= held[o][p] /\ held'[o][p] = held[o][p] - back[p] + take[p]
    BY <1>3, <1>t, <2>1, <2>4
  <2> QED
    BY <2>1, <2>2, <2>3, <2>5, NoDrift
<1>4. ASSUME NEW o \in Orders, NEW to \in Pfis \cup {NoPfi}, NEW q \in Quantities \cup {qty[o]},
             UpdateOrder(o, q, to)
      PROVE  FALSE
  <2> DEFINE give == GiveBack(pfi[o], qty[o], held[o])
             take == IF to = NoPfi THEN Nothing ELSE Only(to, q)
  <2>1. /\ Lives(o)
        /\ sold' = Plus(SoldAfterReturn(give), take)
        /\ held' = [held EXCEPT ![o] = RowsAfterMove(o, pfi[o], to, q)]
    BY <1>4 DEF UpdateOrder
  <2>2. q \in Nat /\ pfi[o] \in Pfis \cup {NoPfi}
    BY DEF TypeOK
  <2>3. give \in Litres /\ take \in Litres
    BY <2>2, GiveBackType, LitresType DEF TypeOK
  <2>4. give[p] = IF pfi[o] = NoPfi THEN 0 ELSE held[o][p]
    BY <1>t, <2>1 DEF GiveBack, StockInv, OrdersHold
  <2> HIDE DEF give
  <2>5. take = IF to = NoPfi THEN Nothing ELSE Only(to, q)
    OBVIOUS
  <2> HIDE DEF take
  <2> QED
    BY <1>3, <2>1, <2>2, <2>3, <2>4, <2>5
<1>5. ASSUME NEW o \in Orders, CommitAssign(o) PROVE GivesBackStale(p)
  <2> SUFFICES ASSUME ~GivesBackStale(p) PROVE FALSE
    OBVIOUS
  <2> DEFINE a == assigning[o]
             give == AssignGives(o)
             take == Only(a.to, a.qty)
  <2>1. /\ a # NoAssign /\ assigning' = [assigning EXCEPT ![o] = NoAssign]
        /\ sold' = Plus(SoldAfterReturn(give), take)
        /\ held' = [held EXCEPT ![o] = RowsAfterMove(o, a.from, a.to, a.qty)]
    BY <1>5 DEF CommitAssign
  <2>2. a.to \in Pfis /\ a.to # NoPfi /\ a.qty \in Nat /\ a.from \in Pfis \cup {NoPfi} /\ a.rows \in Litres
    BY <2>1 DEF StockInv, AssignsFit, TypeOK
  <2>3. give \in Litres /\ take \in Litres
    BY <2>2, GiveBackType, LitresType DEF AssignGives
  <2>4. give[p] = held[o][p]
    <3>1. assigning'[o] = NoAssign
      BY <2>1 DEF TypeOK
    <3> QED
      BY <2>1, <3>1 DEF GivesBackStale
  <2>5. a.from = NoPfi => give[p] = 0
    BY <1>t DEF AssignGives, GiveBack
  <2>6. give[p] = IF a.from = NoPfi THEN 0 ELSE held[o][p]
    BY <2>4, <2>5
  <2>7. take = IF a.to = NoPfi THEN Nothing ELSE Only(a.to, a.qty)
    BY <2>2
  <2> HIDE DEF give, take, a
  <2> QED
    BY <1>3, <2>1, <2>2, <2>3, <2>6, <2>7
<1>6. ASSUME NEW o \in Orders, CommitDelete(o) PROVE GivesBackStale(p)
  <2> SUFFICES ASSUME ~GivesBackStale(p) PROVE FALSE
    OBVIOUS
  <2> DEFINE back == deleting[o].rows
  <2>1. /\ deleting[o].open /\ deleting' = [deleting EXCEPT ![o] = NoDelete]
        /\ sold' = SoldAfterReturn(back) /\ held' = [held EXCEPT ![o] = Nothing]
    BY <1>6 DEF CommitDelete
  <2>2. back[p] = held[o][p]
    <3>1. ~deleting'[o].open
      BY <2>1 DEF TypeOK, NoDelete
    <3> QED
      BY <2>1, <3>1 DEF GivesBackStale
  <2>3. held'[o] = Nothing /\ \A x \in Orders : x # o => held'[x] = held[x]
    BY <2>1 DEF TypeOK
  <2>4. sold'[p] = IF sold[p] > held[o][p] THEN sold[p] - held[o][p] ELSE 0
    BY <2>1, <2>2 DEF SoldAfterReturn
  <2>5. /\ 0 \in Nat /\ held'[o][p] = held[o][p] - held[o][p] + 0
        /\ sold'[p] = (IF sold[p] > held[o][p] THEN sold[p] - held[o][p] ELSE 0) + 0
    BY <1>t, <2>3, <2>4
  <2>6. held[o][p] \in Nat /\ held[o][p] <= held[o][p]
    BY <1>t
  <2> QED
    BY <2>3, <2>5, <2>6, NoDrift
<1>7. ASSUME NEW target \in Orders, NEW source \in Orders, MergeOrders(target, source) PROVE FALSE
  <2> DEFINE first == [held EXCEPT ![target] = Plus(RowsForMerge(target), RowsForMerge(source))]
  <2>1. /\ target # source /\ Lives(target) /\ Lives(source) /\ sold' = sold
        /\ held' = [held EXCEPT ![target] = Plus(RowsForMerge(target), RowsForMerge(source)),
                               ![source] = Nothing]
    BY <1>7 DEF MergeOrders, pfiVars
  <2>2. RowsForMerge(target) = held[target] /\ RowsForMerge(source) = held[source]
    BY <2>1 DEF RowsForMerge, StockInv, OrdersHold
  <2>3. /\ held \in [Orders -> Litres] /\ held' \in [Orders -> Litres] /\ first \in [Orders -> Litres]
        /\ \A x \in Orders : x # target => first[x] = held[x]
        /\ \A x \in Orders : x # source => held'[x] = first[x]
    BY <1>t, <2>1, <2>2, LitresType DEF TypeOK
  <2>4. first[target][p] = held[target][p] + held[source][p] /\ held'[source][p] = 0
    BY <1>t, <2>1, <2>2 DEF TypeOK, Plus
  <2>5. first[source][p] = held[source][p]
    BY <2>1, <2>3
  <2> HIDE DEF first
  <2>6. /\ HeldSum(held, p) \in Nat
        /\ HeldSum(first, p) = HeldSum(held, p) + (first[target][p] - held[target][p])
    BY <2>3, HeldSumChange
  <2>7. HeldSum(held', p) = HeldSum(first, p) + (held'[source][p] - first[source][p])
    BY <2>3, HeldSumChange
  <2>8. HeldSum(held', p) = HeldSum(held, p)
    BY <1>t, <2>4, <2>5, <2>6, <2>7
  <2> QED
    BY <2>1, <2>8, HeldOnIsSum DEF Drift
<1>8. ASSUME NEW x \in Pfis, Typed(x) PROVE Typed(p)
  <2>1. CASE x = p
    BY <1>8, <2>1
  <2>2. CASE x # p
    <3>1. sold'[p] = sold[p] /\ held' = held
      BY <1>8, <2>2 DEF Typed, UpdatePfi, TypeOK, orderVars
    <3> QED
      BY <3>1 DEF Drift, HeldOn
  <2> QED
    BY <2>1, <2>2
<1>9. (\/ \E o \in Orders, q \in Quantities, x \in Pfis \cup {NoPfi} :
            \E take \in [Pfis -> 0..q] : FindPfi(o, q, take, x)
       \/ \E o \in Orders : \/ RefusePlace(o) \/ Release(o) \/ GenerateTickets(o) \/ GateIn(o)
                            \/ RefuseAssign(o) \/ BeginDelete(o) \/ RefuseDelete(o)
       \/ \E o \in Orders, to \in Pfis : BeginAssign(o, to)
       \/ \E x \in Pfis : BeginActivate(x) \/ Activate(x) \/ FinishPfi(x)
       \/ \E e \in Finds, x \in Pfis, q \in FindLitres : RecordSurplus(e, x, q)
       \/ \E e \in Finds : VoidSurplus(e))
      => UNCHANGED <<held, sold>>
  BY DEF FindPfi, RefusePlace, Release, GenerateTickets, GateIn, RefuseAssign, BeginDelete,
         RefuseDelete, BeginAssign, BeginActivate, Activate, FinishPfi, RecordSurplus, VoidSurplus,
         pfiVars, orderVars
<1> QED
  BY <1>u, <1>1, <1>2, <1>4, <1>5, <1>6, <1>7, <1>8, <1>9 DEF Next

(* A counter that equals the litres its orders hold is taken off them only *)
(* by an assignment or a deletion that gives back what it read earlier, or *)
(* by a typed figure, with any number of requests in flight.               *)
THEOREM DriftIsStale == Spec => CounterDriftsOnlyByStale
<1>1. TypeOK /\ TypeOK' /\ StockInv /\ [Next]_vars
        => [\A p \in Pfis : Drift(p) = 0 /\ Drift(p)' # 0 => GivesBackStale(p) \/ Typed(p)]_vars
  BY DriftStep
<1> QED
  BY <1>1, TypeCorrect, StockInvInit, StockInvStep, PTL DEF Spec, CounterDriftsOnlyByStale

-----------------------------------------------------------------------------
(* Reservations in order.                                                  *)

LEMMA TotalType == \A a \in Litres : Total(a) \in Nat
<1> TAKE a \in Litres
<1>1. IsFiniteSet(Pfis) /\ \A p \in Pfis : a[p] \in Nat
  BY StockAssumption DEF Litres
<1> QED
  BY <1>1, SumNat DEF Total

LEMMA TotalNothing == Total(Nothing) = 0
<1>1. IsFiniteSet(Pfis) /\ \A p \in Pfis : Nothing[p] = 0
  BY StockAssumption DEF Nothing
<1> QED
  BY <1>1, SumZero DEF Total

LEMMA TotalOnly == \A p \in Pfis, q \in Nat : Total(Only(p, q)) = q
<1> TAKE p \in Pfis, q \in Nat
<1>1. IsFiniteSet(Pfis) /\ \A x \in Pfis : Nothing[x] \in Int
  BY StockAssumption DEF Nothing
<1>2. Only(p, q)[p] \in Int /\ Only(p, q)[p] = q /\ Nothing[p] = 0
  BY DEF Only, Nothing
<1>3. \A x \in Pfis \ {p} : Only(p, q)[x] = Nothing[x]
  BY DEF Only, Nothing
<1>4. SumFunctionOnSet(Only(p, q), Pfis) = SumFunctionOnSet(Nothing, Pfis) + (Only(p, q)[p] - Nothing[p])
  BY <1>1, <1>2, <1>3, SumChange
<1> QED
  BY <1>2, <1>4, TotalNothing DEF Total

LEMMA TotalPlus == \A a, b \in Litres : Total(Plus(a, b)) = Total(a) + Total(b)
<1> TAKE a, b \in Litres
<1>1. IsFiniteSet(Pfis)
  BY StockAssumption
<1>2. \A p \in Pfis : a[p] \in Int /\ b[p] \in Int /\ Plus(a, b)[p] = a[p] + b[p]
  BY DEF Litres, Plus
<1> QED
  BY <1>1, <1>2, SumPlus DEF Total

(* Nothing added to nothing, or to one PFI's litres.                       *)
LEMMA PlusNothing ==
  /\ Plus(Nothing, Nothing) = Nothing
  /\ \A p \in Pfis, q \in Nat : Plus(Nothing, Only(p, q)) = Only(p, q)
BY DEF Plus, Nothing, Only

(* One step other than the end of an assignment keeps every order sound.   *)
LEMMA SoundStep ==
  ASSUME TypeOK, StockInv, AllSound, Next,
         ~\E o \in Orders : assigning[o] # NoAssign /\ assigning'[o] = NoAssign
  PROVE  AllSound'
<1>q. \A q \in Quantities : q \in Nat
  BY StockAssumption
<1> USE StockAssumption DEF AllSound, Sound, Lives
<1>t. \A o \in Orders : held[o] \in Litres /\ qty[o] \in Nat
  BY DEF TypeOK
<1>1. ASSUME NEW o \in Orders, NEW st \in {"Pending", "Released"}, PlaceOrder(o, st) PROVE AllSound'
  <2>1. /\ plan[o] # NoPlan
        /\ held' = [held EXCEPT ![o] = plan[o].take]
        /\ status' = [status EXCEPT ![o] = st]
        /\ qty' = [qty EXCEPT ![o] = plan[o].qty]
        /\ pfi' = [pfi EXCEPT ![o] = plan[o].pfi]
        /\ moved' = moved
    BY <1>1 DEF PlaceOrder
  <2>2. moved[o] = NoPfi /\ Total(plan[o].take) <= plan[o].qty /\ (plan[o].pfi = NoPfi => plan[o].take = Nothing)
    BY <2>1 DEF StockInv, OffersFit, AbsentEmpty
  <2> QED
    BY <2>1, <2>2 DEF TypeOK
<1>2. ASSUME NEW o \in Orders, Release(o) \/ GenerateTickets(o) \/ GateIn(o) PROVE AllSound'
  <2>1. /\ status[o] \in {"Pending", "Released", "Rolling"} /\ status'[o] \in {"Released", "Rolling"}
        /\ moved'[o] \in {moved[o], pfi[o]}
        /\ \A x \in Orders : x # o => status'[x] = status[x] /\ moved'[x] = moved[x]
        /\ UNCHANGED <<qty, pfi, held>>
    BY <1>2 DEF Release, GenerateTickets, GateIn, TypeOK
  <2> QED
    BY <2>1
<1>3. ASSUME NEW o \in Orders, EndOrder(o) PROVE AllSound'
  <2>1. /\ status[o] \in {"Pending", "Released"} /\ status'[o] = "Dead" /\ held' = RowsDeleted(o)
        /\ \A x \in Orders : x # o => status'[x] = status[x]
        /\ UNCHANGED <<qty, pfi, moved>>
    BY <1>3 DEF EndOrder, TypeOK
  <2>2. held'[o] = Nothing /\ \A x \in Orders : x # o => held'[x] = held[x]
    BY <2>1 DEF RowsDeleted, TypeOK
  <2> QED
    BY <2>1, <2>2
<1>4. ASSUME NEW o \in Orders, NEW to \in Pfis \cup {NoPfi}, NEW q \in Quantities \cup {qty[o]},
             UpdateOrder(o, q, to)
      PROVE  AllSound'
  <2>1. /\ Lives(o)
        /\ held' = [held EXCEPT ![o] = RowsAfterMove(o, pfi[o], to, q)]
        /\ pfi' = [pfi EXCEPT ![o] = to]
        /\ qty' = [qty EXCEPT ![o] = q]
        /\ moved' = IF to # pfi[o] THEN MovementAfterMove(o, to) ELSE moved
        /\ status' = status
    BY <1>4 DEF UpdateOrder
  <2>2. q \in Nat
    BY <1>t, <1>q
  <2>3. RowsAfterMove(o, pfi[o], to, q) = IF to = NoPfi THEN Nothing ELSE Only(to, q)
    BY <2>1, <2>2, PlusNothing DEF RowsAfterMove
  <2>4. Total(RowsAfterMove(o, pfi[o], to, q)) <= q
    BY <2>2, <2>3, TotalNothing, TotalOnly
  <2>5. moved'[o] \in {NoPfi, to} /\ \A x \in Orders : x # o => moved'[x] = moved[x]
    BY <2>1 DEF MovementAfterMove, TypeOK
  <2>6. /\ held'[o] = RowsAfterMove(o, pfi[o], to, q) /\ pfi'[o] = to /\ qty'[o] = q
        /\ \A x \in Orders : x # o => held'[x] = held[x] /\ pfi'[x] = pfi[x] /\ qty'[x] = qty[x]
    BY <2>1 DEF TypeOK
  <2> QED
    BY <2>1, <2>3, <2>4, <2>5, <2>6
<1>5. ASSUME NEW target \in Orders, NEW source \in Orders, MergeOrders(target, source) PROVE AllSound'
  <2>1. /\ target # source /\ Lives(target) /\ Lives(source) /\ pfi[target] = pfi[source]
        /\ status'[target] \in {"Pending", "Released", "Rolling"} /\ status'[source] = "Dead"
        /\ qty'[target] = qty[target] + qty[source]
        /\ held'[target] = Plus(RowsForMerge(target), RowsForMerge(source)) /\ held'[source] = Nothing
        /\ moved'[target] \in {moved[target], moved[source]} /\ moved'[source] = NoPfi
        /\ \A x \in Orders : x \notin {target, source} => /\ status'[x] = status[x]
                                                          /\ qty'[x] = qty[x]
                                                          /\ held'[x] = held[x]
                                                          /\ moved'[x] = moved[x]
        /\ pfi' = pfi
    BY <1>5 DEF MergeOrders, CombinedStatus, TypeOK
  <2>2. RowsForMerge(target) = held[target] /\ RowsForMerge(source) = held[source]
    BY <2>1 DEF RowsForMerge, StockInv, OrdersHold
  <2>3. Total(held'[target]) <= qty'[target]
    <3>1. /\ Total(held[target]) \in Nat /\ Total(held[source]) \in Nat
          /\ Total(Plus(held[target], held[source])) = Total(held[target]) + Total(held[source])
      BY <1>t, TotalType, TotalPlus
    <3> QED
      BY <1>t, <2>1, <2>2, <3>1
  <2>4. ASSUME pfi[target] = NoPfi PROVE held'[target] = Nothing
    <3>1. held[target] = Nothing /\ held[source] = Nothing
      BY <2>1, <2>4
    <3>2. held'[target] = Plus(Nothing, Nothing)
      BY <2>1, <2>2, <3>1
    <3> QED
      BY <3>2, PlusNothing
  <2> QED
    BY <2>1, <2>3, <2>4
<1>6. ASSUME NEW o \in Orders, CommitDelete(o) PROVE AllSound'
  <2>1. /\ status' = [status EXCEPT ![o] = "Deleted"] /\ held' = [held EXCEPT ![o] = Nothing]
        /\ qty' = [qty EXCEPT ![o] = 0] /\ pfi' = [pfi EXCEPT ![o] = NoPfi]
        /\ moved' = [moved EXCEPT ![o] = NoPfi]
    BY <1>6 DEF CommitDelete
  <2> QED
    BY <2>1 DEF TypeOK
<1>7. ASSUME NEW o \in Orders, CommitAssign(o) \/ RefuseAssign(o) PROVE FALSE
  <2>1. assigning[o] # NoAssign /\ assigning' = [assigning EXCEPT ![o] = NoAssign]
    BY <1>7 DEF CommitAssign, RefuseAssign
  <2> QED
    BY <2>1 DEF TypeOK
<1>8. CASE UNCHANGED orderVars
  BY <1>8 DEF orderVars
<1>9. ASSUME NEW p \in Pfis, Typed(p) PROVE AllSound'
  BY <1>8, <1>9 DEF Typed, UpdatePfi
<1> QED
  BY <1>1, <1>2, <1>3, <1>4, <1>5, <1>6, <1>7, <1>8, <1>9 DEF Next, FindPfi, RefusePlace, BeginDelete,
     RefuseDelete, BeginAssign, BeginActivate, Activate, FinishPfi, RecordSurplus, VoidSurplus

(* Reservations that are all in order stay so through every operation but  *)
(* the end of a bulk assignment.                                           *)
THEOREM SoundUntilAssign == Spec => SoundButForAssign
<1>1. TypeOK /\ StockInv /\ [Next]_vars
        => [AllSound /\ ~AllSound' =>
              \E o \in Orders : assigning[o] # NoAssign /\ assigning'[o] = NoAssign]_vars
  BY SoundStep
<1> QED
  BY <1>1, TypeCorrect, StockInvInit, StockInvStep, PTL DEF Spec, SoundButForAssign

=============================================================================
