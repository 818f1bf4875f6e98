------------------------------ MODULE WalletProofs ------------------------------
(***************************************************************************)
(* Proofs about the wallets and the requests that are paid from them.  The *)
(* books of a wallet are sums over the ledger and over the holds; each     *)
(* step changes one or two of the terms, or moves all of one customer's to *)
(* another (SumLemmas).                                                    *)
(***************************************************************************)
EXTENDS Requests, SumLemmas

-----------------------------------------------------------------------------
(* The terms of the two sums.                                              *)
OnLedger(r, c) == IF r.cust = c THEN r.amt ELSE 0
OnHold(h, c)   == IF h.status = "active" /\ h.cust = c THEN h.amt ELSE 0

(* Whose row and whose hold it is; a transfer has both its legs or none;   *)
(* a merge is of two.                                                      *)
MergesTwo == \A m \in Screens : merging[m] # NoMerge => merging[m].from # merging[m].to
LegsMeet  == \A t \in Transfers : Booked(<<"in", t>>) => Booked(<<"out", t>>)
WalletInv == TypeOK /\ MergesTwo /\ LegsMeet /\ FreeLineIsReversed

LEMMA RowsFinite == IsFiniteSet(Rows)
<1>1. \A a : IsFiniteSet({a})
  BY FS_Singleton
<1>2. /\ IsFiniteSet({"old"} \X Deposits) /\ IsFiniteSet({"in"} \X Transfers) /\ IsFiniteSet({"refund"} \X Requests)
      /\ IsFiniteSet({"out"} \X Transfers) /\ IsFiniteSet({"pay"} \X Requests) /\ IsFiniteSet({"spent"} \X Orders)
  BY <1>1, FS_Product, WalletAssumption
<1>3. IsFiniteSet(Credits)
  BY <1>2, FS_Union DEF Credits
<1>4. IsFiniteSet({"rev"} \X Credits)
  BY <1>1, <1>3, FS_Product
<1>5. IsFiniteSet(Debits)
  BY <1>2, <1>4, FS_Union DEF Debits
<1> QED
  BY <1>3, <1>5, FS_Union DEF Rows

(* Which rows there are.                                                   *)
LEMMA RowNames ==
  /\ \A d \in Deposits : <<"old", d>> \in Rows /\ <<"old", d>> \in Credits
  /\ \A t \in Transfers : <<"in", t>> \in Rows /\ <<"out", t>> \in Rows /\ <<"in", t>> # <<"out", t>>
  /\ \A r \in Requests : <<"refund", r>> \in Rows /\ <<"pay", r>> \in Rows
  /\ \A o \in Orders : <<"spent", o>> \in Rows
  /\ \A k \in Credits : k \in Rows /\ <<"rev", k>> \in Rows
BY DEF Credits, Debits, Rows

LEMMA RowTypes ==
  ASSUME TypeOK
  PROVE  /\ \A k \in Rows : row[k] \in RowType /\ row[k].amt \in Int /\ (Booked(k) => row[k].cust \in Customers)
         /\ \A k \in Rows, c \in Customers : OnLedger(row[k], c) \in Int /\ (~Booked(k) => OnLedger(row[k], c) = 0)
         /\ \A o \in Orders : hold[o] \in HoldType /\ hold[o].amt \in Nat /\ (hold[o] # NoHold => hold[o].cust \in Customers)
         /\ \A o \in Orders, c \in Customers : OnHold(hold[o], c) \in Int
<1>1. \A k \in Rows : row[k] \in RowType
  BY DEF TypeOK
<1>2. \A r \in RowType : r.amt \in Int /\ (r # NoRow => r.cust \in Customers)
  BY DEF RowType, NoRow
<1>3. \A o \in Orders : hold[o] \in HoldType
  BY DEF TypeOK
<1>4. \A h \in HoldType : h.amt \in Nat /\ (h # NoHold => h.cust \in Customers)
  BY DEF HoldType, NoHold
<1>5. NoRow.amt = 0
  BY DEF NoRow
<1> QED
  BY <1>1, <1>2, <1>3, <1>4, <1>5 DEF OnLedger, OnHold, Booked

-----------------------------------------------------------------------------
(* The ledger sum and the sum of holds, as functions are added up.         *)
LedgerOf(c) == [k \in Rows |-> OnLedger(row[k], c)]
HoldsOf(c)  == [o \in Orders |-> OnHold(hold[o], c)]

LEMMA Books == \A c \in Customers : /\ Ledger(c) = SumFunctionOnSet(LedgerOf(c), Rows)
                                    /\ Held(c) = SumFunctionOnSet(HoldsOf(c), Orders)
BY DEF Ledger, Held, LedgerOf, HoldsOf, OnLedger, OnHold, Active

LEMMA BooksAreInts ==
  ASSUME TypeOK
  PROVE  \A c \in Customers : Ledger(c) \in Int /\ Held(c) \in Int
<1> TAKE c \in Customers
<1>1. \A k \in Rows : LedgerOf(c)[k] \in Int
  BY RowTypes DEF LedgerOf
<1>2. \A o \in Orders : HoldsOf(c)[o] \in Int
  BY RowTypes DEF HoldsOf
<1>3. SumFunctionOnSet(LedgerOf(c), Rows) \in Int
  BY <1>1, RowsFinite, SumType
<1>4. SumFunctionOnSet(HoldsOf(c), Orders) \in Int
  BY <1>2, WalletAssumption, SumType
<1> QED
  BY <1>3, <1>4, Books

(* One row is written.                                                     *)
LEMMA LedgerBooks ==
  ASSUME TypeOK, NEW k \in Rows, NEW c \in Customers, NEW v \in Int, ~Booked(k), Book(k, c, v)
  PROVE  \A x \in Customers : Ledger(x)' = Ledger(x) + (IF x = c THEN v ELSE 0)
<1> TAKE x \in Customers
<1> DEFINE new == [cust |-> c, amt |-> v]
<1>1. row' = [row EXCEPT ![k] = new] /\ row \in [Rows -> RowType]
  BY DEF Book, TypeOK
<1>2. \A j \in Rows : LedgerOf(x)[j] \in Int
  BY RowTypes DEF LedgerOf
<1>3. \A j \in Rows \ {k} : LedgerOf(x)'[j] = LedgerOf(x)[j]
  BY <1>1 DEF LedgerOf
<1>4. LedgerOf(x)'[k] = (IF x = c THEN v ELSE 0) /\ LedgerOf(x)[k] = 0
  BY <1>1, RowTypes DEF LedgerOf, OnLedger
<1>5. SumFunctionOnSet(LedgerOf(x)', Rows) = SumFunctionOnSet(LedgerOf(x), Rows) + (LedgerOf(x)'[k] - LedgerOf(x)[k])
  BY <1>2, <1>3, <1>4, RowsFinite, SumChange
<1>6. Ledger(x) = SumFunctionOnSet(LedgerOf(x), Rows) /\ Ledger(x)' = SumFunctionOnSet(LedgerOf(x)', Rows)
  BY Books DEF Ledger, LedgerOf, OnLedger
<1> QED
  BY <1>4, <1>5, <1>6, BooksAreInts

(* Both legs of a transfer are.                                            *)
LEMMA LedgerTransfers ==
  ASSUME TypeOK, NEW k \in Rows, NEW j \in Rows, k # j, ~Booked(k), ~Booked(j),
         NEW c \in Customers, NEW e \in Customers, NEW v \in Int,
         row'[k] = [cust |-> c, amt |-> -v], row'[j] = [cust |-> e, amt |-> v],
         \A i \in Rows \ {k, j} : row'[i] = row[i]
  PROVE  \A x \in Customers : Ledger(x)' = Ledger(x) + (IF x = c THEN -v ELSE 0) + (IF x = e THEN v ELSE 0)
<1> TAKE x \in Customers
<1> DEFINE f == LedgerOf(x)
           g == [i \in Rows |-> IF i = k THEN (IF x = c THEN -v ELSE 0) ELSE LedgerOf(x)[i]]
           h == LedgerOf(x)'
<1>1. row \in [Rows -> RowType]
  BY DEF TypeOK
<1>2. \A i \in Rows : f[i] \in Int
  BY RowTypes DEF LedgerOf
<1>3. f[k] = 0 /\ f[j] = 0
  BY RowTypes DEF LedgerOf
<1>4. /\ \A i \in Rows \ {k, j} : h[i] = f[i]
      /\ h[k] = (IF x = c THEN -v ELSE 0) /\ h[j] = (IF x = e THEN v ELSE 0)
  BY <1>1 DEF LedgerOf, OnLedger
<1>5. /\ \A i \in Rows \ {k} : g[i] = f[i] /\ g[i] \in Int
      /\ g[k] = (IF x = c THEN -v ELSE 0) /\ g[k] \in Int
      /\ \A i \in Rows \ {j} : h[i] = g[i]
      /\ h[j] \in Int /\ g[j] = 0
  BY <1>2, <1>3, <1>4
<1>6. Ledger(x) = SumFunctionOnSet(f, Rows) /\ Ledger(x)' = SumFunctionOnSet(h, Rows)
  BY Books DEF Ledger, LedgerOf, OnLedger
<1> HIDE DEF f, g, h
<1>7. SumFunctionOnSet(g, Rows) = SumFunctionOnSet(f, Rows) + (g[k] - f[k])
  BY <1>2, <1>5, RowsFinite, SumChange
<1>8. SumFunctionOnSet(h, Rows) = SumFunctionOnSet(g, Rows) + (h[j] - g[j])
  <2>1. \A i \in Rows : g[i] \in Int
    BY <1>5
  <2> QED
    BY <1>5, <2>1, RowsFinite, SumChange
<1>9. Ledger(x) \in Int
  BY BooksAreInts
<1> QED
  BY <1>3, <1>4, <1>5, <1>6, <1>7, <1>8, <1>9

LEMMA LedgerStays == ASSUME UNCHANGED row PROVE \A x \in Customers : Ledger(x)' = Ledger(x)
BY DEF Ledger

(* One hold is written.                                                    *)
LEMMA HeldChanges ==
  ASSUME TypeOK, NEW o \in Orders, NEW h \in HoldType, hold' = [hold EXCEPT ![o] = h]
  PROVE  \A x \in Customers : Held(x)' = Held(x) + (OnHold(h, x) - OnHold(hold[o], x))
<1> TAKE x \in Customers
<1>1. hold \in [Orders -> HoldType]
  BY DEF TypeOK
<1>2. \A j \in Orders : HoldsOf(x)[j] \in Int
  BY RowTypes DEF HoldsOf
<1>3. /\ \A j \in Orders \ {o} : HoldsOf(x)'[j] = HoldsOf(x)[j]
      /\ HoldsOf(x)'[o] = OnHold(h, x) /\ HoldsOf(x)[o] = OnHold(hold[o], x)
  BY <1>1 DEF HoldsOf, OnHold
<1>4. h.amt \in Int
  BY DEF HoldType, NoHold
<1>5. OnHold(h, x) \in Int
  BY <1>4 DEF OnHold
<1>6. SumFunctionOnSet(HoldsOf(x)', Orders)
        = SumFunctionOnSet(HoldsOf(x), Orders) + (HoldsOf(x)'[o] - HoldsOf(x)[o])
  BY <1>2, <1>3, <1>5, WalletAssumption, SumChange
<1>7. Held(x) = SumFunctionOnSet(HoldsOf(x), Orders) /\ Held(x)' = SumFunctionOnSet(HoldsOf(x)', Orders)
  BY Books DEF Held, HoldsOf, OnHold, Active
<1> QED
  BY <1>3, <1>6, <1>7

LEMMA HeldStays == ASSUME UNCHANGED hold PROVE \A x \in Customers : Held(x)' = Held(x)
BY DEF Held, Active

(* A merge moves everything of c to e.                                     *)
LEMMA LedgerMoves ==
  ASSUME TypeOK, NEW c \in Customers, NEW e \in Customers, c # e, row' = Moved(row, c, e)
  PROVE  /\ Ledger(e)' = Ledger(e) + Ledger(c) /\ Ledger(c)' = 0
         /\ \A x \in Customers \ {c, e} : Ledger(x)' = Ledger(x)
<1>1. row \in [Rows -> RowType]
  BY DEF TypeOK
<1>2. \A k \in Rows : /\ row[k].cust = c => row'[k].cust = e /\ row'[k].amt = row[k].amt
                      /\ row[k].cust # c => row'[k] = row[k]
  <2> TAKE k \in Rows
  <2>1. row'[k] = IF row[k].cust = c THEN [row[k] EXCEPT !.cust = e] ELSE row[k]
    BY <1>1 DEF Moved
  <2>2. row[k] = NoRow \/ row[k] \in [cust: Customers, amt: Int]
    BY <1>1 DEF RowType
  <2> QED
    BY <2>1, <2>2 DEF NoRow
<1>3. \A x \in Customers : /\ Ledger(x) = SumFunctionOnSet(LedgerOf(x), Rows)
                           /\ Ledger(x)' = SumFunctionOnSet(LedgerOf(x)', Rows)
  BY Books DEF Ledger, LedgerOf, OnLedger
<1>4. \A x \in Customers, k \in Rows : LedgerOf(x)[k] \in Int
  BY RowTypes DEF LedgerOf
<1>5. Ledger(e)' = Ledger(e) + Ledger(c)
  <2>1. \A k \in Rows : LedgerOf(e)'[k] = LedgerOf(e)[k] + LedgerOf(c)[k]
    BY <1>2, RowTypes DEF LedgerOf, OnLedger
  <2>2. SumFunctionOnSet(LedgerOf(e)', Rows) = SumFunctionOnSet(LedgerOf(e), Rows) + SumFunctionOnSet(LedgerOf(c), Rows)
    BY <1>4, <2>1, RowsFinite, SumPlus
  <2> QED
    BY <1>3, <2>2
<1>6. Ledger(c)' = 0
  <2>1. \A k \in Rows : LedgerOf(c)'[k] = 0
    BY <1>2 DEF LedgerOf, OnLedger
  <2> QED
    BY <1>3, <2>1, RowsFinite, SumZero
<1>7. ASSUME NEW x \in Customers \ {c, e}
      PROVE  Ledger(x)' = Ledger(x)
  <2>1. \A k \in Rows : LedgerOf(x)'[k] = LedgerOf(x)[k]
    BY <1>2 DEF LedgerOf, OnLedger
  <2> QED
    BY <1>3, <1>4, <2>1, RowsFinite, SumSame
<1> QED
  BY <1>5, <1>6, <1>7

LEMMA HeldMoves ==
  ASSUME TypeOK, NEW c \in Customers, NEW e \in Customers, c # e, hold' = Moved(hold, c, e)
  PROVE  /\ Held(e)' = Held(e) + Held(c) /\ Held(c)' = 0
         /\ \A x \in Customers \ {c, e} : Held(x)' = Held(x)
<1>1. hold \in [Orders -> HoldType]
  BY DEF TypeOK
<1>2. \A k \in Orders : /\ hold[k].cust = c => /\ hold'[k].cust = e /\ hold'[k].amt = hold[k].amt
                                               /\ hold'[k].status = hold[k].status
                        /\ hold[k].cust # c => hold'[k] = hold[k]
  <2> TAKE k \in Orders
  <2>1. hold'[k] = IF hold[k].cust = c THEN [hold[k] EXCEPT !.cust = e] ELSE hold[k]
    BY <1>1 DEF Moved
  <2>2. hold[k] = NoHold \/ hold[k] \in [cust: Customers, amt: Nat, status: {"active", "released", "converted"}]
    BY <1>1 DEF HoldType
  <2> QED
    BY <2>1, <2>2 DEF NoHold
<1>3. \A x \in Customers : /\ Held(x) = SumFunctionOnSet(HoldsOf(x), Orders)
                           /\ Held(x)' = SumFunctionOnSet(HoldsOf(x)', Orders)
  BY Books DEF Held, HoldsOf, OnHold, Active
<1>4. \A x \in Customers, k \in Orders : HoldsOf(x)[k] \in Int
  BY RowTypes DEF HoldsOf
<1>5. Held(e)' = Held(e) + Held(c)
  <2>1. \A k \in Orders : HoldsOf(e)'[k] = HoldsOf(e)[k] + HoldsOf(c)[k]
    BY <1>2, RowTypes DEF HoldsOf, OnHold
  <2>2. SumFunctionOnSet(HoldsOf(e)', Orders) = SumFunctionOnSet(HoldsOf(e), Orders) + SumFunctionOnSet(HoldsOf(c), Orders)
    BY <1>4, <2>1, WalletAssumption, SumPlus
  <2> QED
    BY <1>3, <2>2
<1>6. Held(c)' = 0
  <2>1. \A k \in Orders : HoldsOf(c)'[k] = 0
    BY <1>2 DEF HoldsOf, OnHold
  <2> QED
    BY <1>3, <2>1, WalletAssumption, SumZero
<1>7. ASSUME NEW x \in Customers \ {c, e}
      PROVE  Held(x)' = Held(x)
  <2>1. \A k \in Orders : HoldsOf(x)'[k] = HoldsOf(x)[k]
    BY <1>2 DEF HoldsOf, OnHold
  <2> QED
    BY <1>3, <1>4, <2>1, WalletAssumption, SumSame
<1> QED
  BY <1>5, <1>6, <1>7

-----------------------------------------------------------------------------
(* What a step does to the ledger: rows are added, never taken out.        *)
LEMMA RowWritten ==
  ASSUME TypeOK, NEW k \in Rows, NEW c \in Customers, NEW v \in Int, Book(k, c, v)
  PROVE  row' \in [Rows -> RowType] /\ \A j \in Rows : Booked(j)' <=> Booked(j) \/ j = k
<1> DEFINE new == [cust |-> c, amt |-> v]
<1>1. new \in RowType /\ new # NoRow
  BY WalletAssumption DEF RowType, NoRow
<1>2. row' = [row EXCEPT ![k] = new] /\ row \in [Rows -> RowType]
  BY DEF Book, TypeOK
<1> HIDE DEF new
<1> QED
  BY <1>1, <1>2 DEF Booked

LEMMA RowsMoved ==
  ASSUME TypeOK, NEW c \in Customers, NEW e \in Customers, row' = Moved(row, c, e), hold' = Moved(hold, c, e)
  PROVE  /\ row' \in [Rows -> RowType] /\ (\A j \in Rows : Booked(j)' <=> Booked(j))
         /\ hold' \in [Orders -> HoldType]
<1>1. row \in [Rows -> RowType] /\ hold \in [Orders -> HoldType]
  BY DEF TypeOK
<1>2. ASSUME NEW j \in Rows
      PROVE  row'[j] \in RowType /\ (row'[j] # NoRow <=> row[j] # NoRow)
  <2>1. row'[j] = IF row[j].cust = c THEN [row[j] EXCEPT !.cust = e] ELSE row[j]
    BY <1>1 DEF Moved
  <2>2. row[j] = NoRow \/ row[j] \in [cust: Customers, amt: Int]
    BY <1>1 DEF RowType
  <2>3. CASE row[j] = NoRow
    <3>1. row[j].cust # c
      BY <2>3, WalletAssumption DEF NoRow
    <3> QED
      BY <1>1, <2>1, <3>1
  <2>4. CASE row[j] \in [cust: Customers, amt: Int]
    <3>1. row'[j] \in [cust: Customers, amt: Int]
      BY <2>1, <2>4
    <3>2. \A r \in [cust: Customers, amt: Int] : r # NoRow
      BY WalletAssumption DEF NoRow
    <3> QED
      BY <2>4, <3>1, <3>2 DEF RowType
  <2> QED
    BY <2>2, <2>3, <2>4
<1>3. ASSUME NEW o \in Orders
      PROVE  hold'[o] \in HoldType
  <2>1. hold'[o] = IF hold[o].cust = c THEN [hold[o] EXCEPT !.cust = e] ELSE hold[o]
    BY <1>1 DEF Moved
  <2>2. hold[o] = NoHold \/ hold[o] \in [cust: Customers, amt: Nat, status: {"active", "released", "converted"}]
    BY <1>1 DEF HoldType
  <2>3. CASE hold[o] = NoHold
    <3>1. hold[o].cust # c
      BY <2>3, WalletAssumption DEF NoHold
    <3> QED
      BY <1>1, <2>1, <3>1
  <2> QED
    BY <2>1, <2>2, <2>3 DEF HoldType
<1>4. DOMAIN row' = Rows /\ DOMAIN hold' = Orders /\ row' = [j \in Rows |-> row'[j]] /\ hold' = [o \in Orders |-> hold'[o]]
  BY <1>1 DEF Moved
<1> QED
  BY <1>2, <1>3, <1>4 DEF Booked

(* A step that adds rows, if any, keeps the invariant but for what it does *)
(* itself.                                                                 *)
LEMMA RowsAdded ==
  ASSUME WalletInv, TypeOK', UNCHANGED merging,
         \A k \in Rows : Booked(k) => Booked(k)',
         \A t \in Transfers : Booked(<<"in", t>>)' => Booked(<<"in", t>>) \/ Booked(<<"out", t>>)',
         \A d \in Deposits : line'[d] = "UNMATCHED" => line[d] = "UNMATCHED" \/ Booked(<<"rev", <<"old", d>>>>)'
  PROVE  WalletInv'
BY RowNames DEF WalletInv, MergesTwo, LegsMeet, FreeLineIsReversed

(* A booking by credit or debit.                                           *)
LEMMA Booking ==
  ASSUME WalletInv, NEW k \in Rows, NEW c \in Customers, NEW v \in Int,
         Credit(k, c, v) \/ Debit(k, c, v), UNCHANGED <<alive, hold, merging>>,
         \A t \in Transfers : k # <<"in", t>>,
         line' \in [Deposits -> {"MATCHED", "UNMATCHED"}], backs' \subseteq Deposits,
         \A d \in Deposits : line'[d] = "UNMATCHED" => line[d] = "UNMATCHED" \/ k = <<"rev", <<"old", d>>>>
  PROVE  WalletInv'
<1> USE DEF WalletInv
<1>1. Book(k, c, v) \/ Book(k, c, -v)
  BY DEF Credit, Debit
<1>2. row' \in [Rows -> RowType] /\ \A j \in Rows : Booked(j)' <=> Booked(j) \/ j = k
  BY <1>1, RowWritten
<1>3. balance' \in [Customers -> Int]
  BY DEF Credit, Debit, TypeOK
<1>4. TypeOK'
  BY <1>2, <1>3 DEF TypeOK
<1>5. \A t \in Transfers : Booked(<<"in", t>>)' => Booked(<<"in", t>>)
  BY <1>2, RowNames
<1>6. \A d \in Deposits : line'[d] = "UNMATCHED" => line[d] = "UNMATCHED" \/ Booked(<<"rev", <<"old", d>>>>)'
  BY <1>2, RowNames
<1> QED
  BY <1>2, <1>4, <1>5, <1>6, RowsAdded

(* A deposit is reversed under its own reference.                          *)
LEMMA ReverseNames ==
  ASSUME TypeOK, NEW k \in Credits, Reverse(k)
  PROVE  /\ k \in Rows /\ <<"rev", k>> \in Rows /\ row[k].cust \in Customers /\ row[k].amt \in Int
         /\ Debit(<<"rev", k>>, row[k].cust, row[k].amt) /\ \A t \in Transfers : <<"rev", k>> # <<"in", t>>
BY RowNames, RowTypes DEF Reverse, Reversible

LEMMA WalletStep == WalletInv /\ [WalletNext]_walletVars => WalletInv'
<1> SUFFICES ASSUME WalletInv, [WalletNext]_walletVars PROVE WalletInv'
  OBVIOUS
<1> USE WalletAssumption DEF WalletInv
<1>0. Amounts \subseteq Int
  OBVIOUS
<1>1. ASSUME NEW t \in Transfers, NEW c \in Customers, NEW e \in Customers, NEW v \in Amounts, Transfer(t, c, e, v)
      PROVE  WalletInv'
  <2> DEFINE debit == [cust |-> c, amt |-> -v]
             credit == [cust |-> e, amt |-> v]
  <2>1. /\ row' = [row EXCEPT ![<<"out", t>>] = debit, ![<<"in", t>>] = credit]
        /\ balance' = [balance EXCEPT ![c] = @ - v, ![e] = @ + v]
        /\ UNCHANGED <<alive, hold, line, backs, merging>>
    BY <1>1 DEF Transfer
  <2>2. debit \in RowType /\ credit \in RowType /\ debit # NoRow /\ credit # NoRow
    BY <1>0 DEF RowType, NoRow
  <2> HIDE DEF debit, credit
  <2>3. row \in [Rows -> RowType] /\ balance \in [Customers -> Int]
    BY DEF TypeOK
  <2>4. /\ row' \in [Rows -> RowType]
        /\ \A k \in Rows : row'[k] = IF k = <<"in", t>> THEN credit ELSE IF k = <<"out", t>> THEN debit ELSE row[k]
    BY <2>1, <2>2, <2>3, RowNames
  <2>5. \A k \in Rows : Booked(k)' <=> Booked(k) \/ k \in {<<"out", t>>, <<"in", t>>}
    BY <2>2, <2>4 DEF Booked
  <2>6. balance' \in [Customers -> Int]
    BY <1>0, <2>1, <2>3
  <2>7. TypeOK'
    BY <2>1, <2>4, <2>6 DEF TypeOK
  <2>8. \A u \in Transfers : Booked(<<"in", u>>)' => Booked(<<"in", u>>) \/ Booked(<<"out", u>>)'
    <3> SUFFICES ASSUME NEW u \in Transfers, Booked(<<"in", u>>)', ~Booked(<<"in", u>>) PROVE Booked(<<"out", u>>)'
      OBVIOUS
    <3>1. <<"in", u>> \in {<<"out", t>>, <<"in", t>>}
      BY <2>5, RowNames
    <3>2. u = t
      BY <3>1
    <3> QED
      BY <2>5, <3>2, RowNames
  <2> QED
    BY <2>1, <2>5, <2>7, <2>8, RowsAdded
<1>2. ASSUME NEW k \in Credits, ReverseDeposit(k)
      PROVE  WalletInv'
  <2>1. line \in [Deposits -> {"MATCHED", "UNMATCHED"}] /\ backs \subseteq Deposits
    BY DEF TypeOK
  <2> QED
    BY <1>2, <2>1, ReverseNames, Booking DEF ReverseDeposit
<1>3. ASSUME NEW d \in Deposits, Unmatch(d)
      PROVE  WalletInv'
  <2>1. <<"old", d>> \in Credits /\ Reverse(<<"old", d>>)
    BY <1>3, RowNames DEF Unmatch
  <2>2. /\ line' = [line EXCEPT ![d] = "UNMATCHED"] /\ backs' = backs \ {d} /\ UNCHANGED <<alive, hold, merging>>
        /\ line \in [Deposits -> {"MATCHED", "UNMATCHED"}] /\ backs \subseteq Deposits
    BY <1>3 DEF Unmatch, LineFreed, TypeOK
  <2>3. line' \in [Deposits -> {"MATCHED", "UNMATCHED"}] /\ backs' \subseteq Deposits
    BY <2>2
  <2>4. \A x \in Deposits : line'[x] = "UNMATCHED" => line[x] = "UNMATCHED" \/ <<"rev", <<"old", d>>>> = <<"rev", <<"old", x>>>>
    BY <2>2
  <2> QED
    BY <2>1, <2>2, <2>3, <2>4, ReverseNames, Booking
<1>4. ASSUME NEW d \in Deposits, RefuseUnmatch(d)
      PROVE  WalletInv'
  <2>1. UNCHANGED <<alive, balance, row, hold, merging>> /\ backs' = backs \ {d} /\ line' = line
    BY <1>4 DEF RefuseUnmatch, LineAfterRefusal, TypeOK
  <2>2. TypeOK'
    BY <2>1 DEF TypeOK
  <2> QED
    BY <2>1, <2>2, RowsAdded DEF Booked
<1>5. ASSUME UNCHANGED <<alive, row, line, backs, merging>>, balance' \in [Customers -> Int], hold' \in [Orders -> HoldType]
      PROVE  WalletInv'
  <2>1. TypeOK'
    BY <1>5 DEF TypeOK
  <2> QED
    BY <1>5, <2>1, RowsAdded DEF Booked
<1>6. ASSUME NEW o \in Orders, NEW c \in Customers, ReassignHold(o, c)
      PROVE  WalletInv'
  <2>1. hold[o] \in [cust: Customers, amt: Nat, status: {"active", "released", "converted"}]
    BY <1>6 DEF ReassignHold, Active, TypeOK, HoldType, NoHold
  <2>2. hold' = [hold EXCEPT ![o].cust = c] /\ balance' \in [Customers -> Int]
    BY <1>6, <2>1 DEF ReassignHold, HoldMoves, TypeOK
  <2>3. hold' \in [Orders -> HoldType]
    BY <2>1, <2>2 DEF TypeOK, HoldType
  <2> QED
    BY <1>5, <1>6, <2>2, <2>3 DEF ReassignHold
<1>7. ASSUME NEW o \in Orders, NEW s \in {"released", "none"}, EndHold(o, s)
      PROVE  WalletInv'
  <2>1. hold[o] \in [cust: Customers, amt: Nat, status: {"active", "released", "converted"}]
    BY <1>7 DEF EndHold, Active, TypeOK, HoldType, NoHold
  <2>2. balance' \in [Customers -> Int]
    BY <1>7, <2>1 DEF EndHold, TypeOK
  <2>3. \/ hold' = [hold EXCEPT ![o] = NoHold]
        \/ hold' = [hold EXCEPT ![o] = [hold[o] EXCEPT !.status = s]] /\ s = "released"
    BY <1>7 DEF EndHold
  <2>4. hold' \in [Orders -> HoldType]
    BY <2>1, <2>3 DEF TypeOK, HoldType
  <2> QED
    BY <1>5, <1>7, <2>2, <2>4 DEF EndHold
<1>8. ASSUME NEW o \in Orders, ConvertHold(o)
      PROVE  WalletInv'
  <2>1. hold[o] \in [cust: Customers, amt: Nat, status: {"active", "released", "converted"}]
    BY <1>8 DEF ConvertHold, Active, TypeOK, HoldType, NoHold
  <2>2. /\ hold' = [hold EXCEPT ![o].status = "converted"] /\ Book(<<"spent", o>>, hold[o].cust, -hold[o].amt)
        /\ UNCHANGED <<alive, balance, line, backs, merging>>
    BY <1>8 DEF ConvertHold
  <2>3. hold' \in [Orders -> HoldType]
    BY <2>1, <2>2 DEF TypeOK, HoldType
  <2>4. -hold[o].amt \in Int /\ hold[o].cust \in Customers /\ <<"spent", o>> \in Rows
    BY <2>1, RowNames
  <2>5. row' \in [Rows -> RowType] /\ \A j \in Rows : Booked(j)' <=> Booked(j) \/ j = <<"spent", o>>
    BY <2>2, <2>4, RowWritten
  <2>6. TypeOK'
    BY <2>2, <2>3, <2>5 DEF TypeOK
  <2>7. \A t \in Transfers : Booked(<<"in", t>>)' => Booked(<<"in", t>>)
    BY <2>5, RowNames
  <2> QED
    BY <2>2, <2>5, <2>6, <2>7, RowsAdded
<1>9. ASSUME NEW o \in Orders, DropHold(o)
      PROVE  WalletInv'
  <2>1. hold' \in [Orders -> HoldType] /\ balance' \in [Customers -> Int]
    BY <1>9 DEF DropHold, TypeOK, HoldType
  <2> QED
    BY <1>5, <1>9, <2>1 DEF DropHold
<1>10. ASSUME NEW m \in Screens, AbortMerge(m) \/ \E c, e \in Customers : BeginMerge(m, c, e)
       PROVE  WalletInv'
  <2>1. UNCHANGED <<alive, balance, row, hold, line, backs>>
    BY <1>10 DEF BeginMerge, AbortMerge
  <2>2. \E r \in MergeType : merging' = [merging EXCEPT ![m] = r] /\ (r # NoMerge => r.from # r.to)
    <3>1. CASE AbortMerge(m)
      BY <3>1 DEF AbortMerge, MergeType
    <3>2. ASSUME NEW c \in Customers, NEW e \in Customers, BeginMerge(m, c, e)
          PROVE  <2>2
      <4>1. [from |-> c, to |-> e, read |-> balance[c]] \in MergeType
        BY DEF MergeType, TypeOK
      <4> QED
        BY <3>2, <4>1 DEF BeginMerge
    <3> QED
      BY <1>10, <3>1, <3>2
  <2>3. merging \in [Screens -> MergeType]
    BY DEF TypeOK
  <2>4. merging' \in [Screens -> MergeType] /\ MergesTwo'
    BY <2>2, <2>3 DEF MergesTwo
  <2>5. TypeOK'
    BY <2>1, <2>4 DEF TypeOK
  <2> QED
    BY <2>1, <2>4, <2>5 DEF LegsMeet, FreeLineIsReversed, Booked
<1>11. ASSUME NEW m \in Screens, CommitMerge(m)
       PROVE  WalletInv'
  <2>1. merging[m] \in MergeType /\ merging[m] # NoMerge
    BY <1>11 DEF CommitMerge, TypeOK
  <2>2. PICK c \in Customers, e \in Customers : c = merging[m].from /\ e = merging[m].to /\ merging[m].read \in Int
    BY <2>1 DEF MergeType
  <2>3. /\ alive' = alive \ {c} /\ balance' = [balance EXCEPT ![e] = @ + merging[m].read, ![c] = 0]
        /\ row' = Moved(row, c, e) /\ hold' = Moved(hold, c, e)
        /\ merging' = [merging EXCEPT ![m] = NoMerge] /\ UNCHANGED <<line, backs>>
    BY <1>11, <2>2 DEF CommitMerge, HoldsMoved
  <2>4. /\ row' \in [Rows -> RowType] /\ (\A j \in Rows : Booked(j)' <=> Booked(j))
        /\ hold' \in [Orders -> HoldType]
    BY <2>3, RowsMoved
  <2>5. balance' \in [Customers -> Int]
    BY <2>2, <2>3 DEF TypeOK
  <2>6. merging' \in [Screens -> MergeType] /\ MergesTwo'
    BY <2>3 DEF TypeOK, MergeType, MergesTwo
  <2>7. TypeOK'
    BY <2>3, <2>4, <2>5, <2>6 DEF TypeOK
  <2>8. LegsMeet' /\ FreeLineIsReversed'
    BY <2>3, <2>4, RowNames DEF LegsMeet, FreeLineIsReversed
  <2> QED
    BY <2>6, <2>7, <2>8
<1>12. ASSUME NEW r \in Requests, NEW c \in Customers, NEW v \in Amounts, Charge(r, c, v) \/ GiveBack(r, c, v)
       PROVE  WalletInv'
  <2>1. line \in [Deposits -> {"MATCHED", "UNMATCHED"}] /\ backs \subseteq Deposits
    BY DEF TypeOK
  <2>2. CASE Charge(r, c, v)
    BY <1>0, <2>1, <2>2, RowNames, Booking DEF Charge
  <2>3. CASE GiveBack(r, c, v)
    BY <1>0, <2>1, <2>3, RowNames, Booking DEF GiveBack
  <2> QED
    BY <1>12, <2>2, <2>3
<1>13. CASE UNCHANGED walletVars
  BY <1>13 DEF walletVars, TypeOK, MergesTwo, LegsMeet, FreeLineIsReversed, Booked
<1> QED
  BY <1>1, <1>2, <1>3, <1>4, <1>6, <1>7, <1>8, <1>9, <1>10, <1>11, <1>12, <1>13 DEF WalletNext, DeskMoves

LEMMA WalletInit == Init => WalletInv
<1> SUFFICES ASSUME Init PROVE WalletInv
  OBVIOUS
<1>0. \A v \in Amounts : v \in Int /\ v \in Nat
  BY WalletAssumption
<1> USE WalletAssumption DEF Init
<1>1. row \in [Rows -> RowType]
  <2>1. ASSUME NEW r \in [cust: Customers, amt: Amounts]
        PROVE  r \in [cust: Customers, amt: Int]
    <3>1. r.cust \in Customers /\ r.amt \in Amounts /\ r = [cust |-> r.cust, amt |-> r.amt]
      OBVIOUS
    <3>2. r.amt \in Int
      BY <1>0, <3>1
    <3> QED
      BY <3>1, <3>2
  <2>2. \A k \in Rows : row[k] \in RowType
    BY <2>1 DEF RowType
  <2> QED
    BY <2>2
<1>2. hold \in [Orders -> HoldType]
  <2>1. \A h \in [cust: Customers, amt: Amounts, status: {"active"}] :
          h \in [cust: Customers, amt: Nat, status: {"active", "released", "converted"}]
    OBVIOUS
  <2>2. \A o \in Orders : hold[o] \in HoldType
    BY <2>1 DEF HoldType
  <2> QED
    BY <2>2
<1>3. \A c \in Customers : Ledger(c) \in Int /\ Held(c) \in Int
  <2> TAKE c \in Customers
  <2>1. \A k \in Rows : LedgerOf(c)[k] \in Int
    <3>1. \A r \in RowType : r.amt \in Int
      BY DEF RowType, NoRow
    <3> QED
      BY <1>1, <3>1 DEF LedgerOf, OnLedger
  <2>2. \A o \in Orders : HoldsOf(c)[o] \in Int
    <3>1. \A h \in HoldType : h.amt \in Int
      BY DEF HoldType, NoHold
    <3> QED
      BY <1>2, <3>1 DEF HoldsOf, OnHold
  <2>3. SumFunctionOnSet(LedgerOf(c), Rows) \in Int
    BY <2>1, RowsFinite, SumType
  <2>4. SumFunctionOnSet(HoldsOf(c), Orders) \in Int
    BY <2>2, SumType
  <2> QED
    BY <2>3, <2>4, Books
<1>4. balance \in [Customers -> Int]
  BY <1>3
<1>5. TypeOK
  BY <1>1, <1>2, <1>4 DEF TypeOK, MergeType
<1>6. \A t \in Transfers : ~Booked(<<"in", t>>)
  BY RowNames
<1> QED
  BY <1>5, <1>6 DEF WalletInv, MergesTwo, LegsMeet, FreeLineIsReversed

(* Every wallet variable has its type.                                     *)
THEOREM WalletTypes == WalletSpec => []TypeOK
<1>1. WalletInv => TypeOK
  BY DEF WalletInv
<1> QED
  BY WalletInit, WalletStep, <1>1, PTL DEF WalletSpec

(* A statement line is free to pay an order only once the deposit it was   *)
(* booked as has left its wallet: unmatchStatementDeposit, whatever the    *)
(* balance was spent on in between.                                        *)
THEOREM FreeMeansReversed == WalletSpec => []FreeLineIsReversed
<1>1. WalletInv => FreeLineIsReversed
  BY DEF WalletInv
<1> QED
  BY WalletInit, WalletStep, <1>1, PTL DEF WalletSpec

-----------------------------------------------------------------------------
(* The spend of an order is booked once: an active hold has none yet.      *)
SpentOnce == \A o \in Orders : Active(o) => ~Booked(<<"spent", o>>)

(* A booking that is not a spend, with the holds as they were.             *)
LEMMA NoSpend ==
  ASSUME TypeOK, SpentOnce, UNCHANGED hold,
         \A o \in Orders : Booked(<<"spent", o>>)' => Booked(<<"spent", o>>)
  PROVE  SpentOnce'
BY DEF SpentOnce, Active

LEMMA NoSpendBooked ==
  ASSUME TypeOK, SpentOnce, UNCHANGED hold, NEW k \in Rows, NEW c \in Customers, NEW v \in Int,
         Credit(k, c, v) \/ Debit(k, c, v), \A o \in Orders : k # <<"spent", o>>
  PROVE  SpentOnce'
<1>1. Book(k, c, v) \/ Book(k, c, -v)
  BY DEF Credit, Debit
<1>2. \A j \in Rows : Booked(j)' <=> Booked(j) \/ j = k
  BY <1>1, RowWritten
<1> QED
  BY <1>2, RowNames, NoSpend

LEMMA SpentStep == WalletInv /\ SpentOnce /\ [WalletNext]_walletVars => SpentOnce'
<1> SUFFICES ASSUME TypeOK, MergesTwo, SpentOnce, [WalletNext]_walletVars PROVE SpentOnce'
  BY DEF WalletInv
<1> USE WalletAssumption
<1>0. Amounts \subseteq Int
  OBVIOUS
<1>1. ASSUME NEW t \in Transfers, NEW c \in Customers, NEW e \in Customers, NEW v \in Amounts, Transfer(t, c, e, v)
      PROVE  SpentOnce'
  <2>1. \A o \in Orders : row'[<<"spent", o>>] = row[<<"spent", o>>]
    BY <1>1, RowNames DEF Transfer, TypeOK
  <2> QED
    BY <1>1, <2>1, NoSpend DEF Transfer, Booked
<1>2. ASSUME NEW k \in Credits, Reverse(k), UNCHANGED hold
      PROVE  SpentOnce'
  BY <1>2, ReverseNames, NoSpendBooked
<1>3. ASSUME NEW d \in Deposits, Unmatch(d) \/ RefuseUnmatch(d)
      PROVE  SpentOnce'
  <2>1. CASE Unmatch(d)
    BY <1>2, <2>1, RowNames DEF Unmatch
  <2>2. CASE RefuseUnmatch(d)
    BY <2>2, NoSpend DEF RefuseUnmatch, Booked
  <2> QED
    BY <1>3, <2>1, <2>2
<1>4. ASSUME UNCHANGED row, \A o \in Orders : Active(o)' => Active(o)
      PROVE  SpentOnce'
  BY <1>4 DEF SpentOnce, Booked
<1>5. ASSUME NEW o \in Orders, NEW c \in Customers, ReassignHold(o, c)
      PROVE  SpentOnce'
  <2>1. hold[o] \in [cust: Customers, amt: Nat, status: {"active", "released", "converted"}]
    BY <1>5 DEF ReassignHold, Active, TypeOK, HoldType, NoHold
  <2>2. \A u \in Orders : Active(u)' => Active(u)
    BY <1>5, <2>1 DEF ReassignHold, HoldMoves, Active, TypeOK
  <2> QED
    BY <1>4, <1>5, <2>2 DEF ReassignHold
<1>6. ASSUME NEW o \in Orders, NEW s \in {"released", "none"}, EndHold(o, s)
      PROVE  SpentOnce'
  <2>1. \A u \in Orders : Active(u)' => Active(u)
    BY <1>6 DEF EndHold, Active, TypeOK
  <2> QED
    BY <1>4, <1>6, <2>1 DEF EndHold
<1>7. ASSUME NEW o \in Orders, ConvertHold(o)
      PROVE  SpentOnce'
  <2>1. hold[o] \in [cust: Customers, amt: Nat, status: {"active", "released", "converted"}]
    BY <1>7 DEF ConvertHold, Active, TypeOK, HoldType, NoHold
  <2>2. \A u \in Orders : Active(u)' => Active(u) /\ u # o
    BY <1>7, <2>1 DEF ConvertHold, Active, TypeOK
  <2>3. -hold[o].amt \in Int /\ hold[o].cust \in Customers /\ <<"spent", o>> \in Rows
    BY <2>1, RowNames
  <2>4. \A j \in Rows : Booked(j)' <=> Booked(j) \/ j = <<"spent", o>>
    BY <1>7, <2>3, RowWritten DEF ConvertHold
  <2> QED
    BY <2>2, <2>4, RowNames DEF SpentOnce
<1>8. ASSUME NEW o \in Orders, DropHold(o)
      PROVE  SpentOnce'
  <2>1. \A u \in Orders : Active(u)' => Active(u)
    BY <1>8 DEF DropHold, NoHold, Active, TypeOK
  <2> QED
    BY <1>4, <1>8, <2>1 DEF DropHold
<1>9. ASSUME NEW m \in Screens, CommitMerge(m)
      PROVE  SpentOnce'
  <2>1. PICK c \in Customers, e \in Customers : c = merging[m].from /\ e = merging[m].to
    BY <1>9 DEF CommitMerge, TypeOK, MergeType
  <2>2. row' = Moved(row, c, e) /\ hold' = Moved(hold, c, e)
    BY <1>9, <2>1 DEF CommitMerge, HoldsMoved
  <2>3. \A j \in Rows : Booked(j)' <=> Booked(j)
    BY <2>2, RowsMoved
  <2>4. ASSUME NEW o \in Orders
        PROVE  Active(o)' => Active(o)
    <3>1. hold'[o] = IF hold[o].cust = c THEN [hold[o] EXCEPT !.cust = e] ELSE hold[o]
      BY <2>2 DEF Moved, TypeOK
    <3>2. hold[o] = NoHold \/ hold[o] \in [cust: Customers, amt: Nat, status: {"active", "released", "converted"}]
      BY DEF TypeOK, HoldType
    <3> QED
      BY <3>1, <3>2 DEF Active, NoHold
  <2> QED
    BY <2>3, <2>4, RowNames DEF SpentOnce
<1>10. ASSUME NEW r \in Requests, NEW c \in Customers, NEW v \in Amounts, Charge(r, c, v) \/ GiveBack(r, c, v)
       PROVE  SpentOnce'
  <2>1. CASE Charge(r, c, v)
    BY <1>0, <2>1, RowNames, NoSpendBooked DEF Charge
  <2>2. CASE GiveBack(r, c, v)
    BY <1>0, <2>2, RowNames, NoSpendBooked DEF GiveBack
  <2> QED
    BY <1>10, <2>1, <2>2
<1>11. CASE UNCHANGED <<row, hold>>
  BY <1>11 DEF SpentOnce, Active, Booked
<1> QED
  BY <1>1, <1>2, <1>3, <1>5, <1>6, <1>7, <1>8, <1>9, <1>10, <1>11
     DEF WalletNext, DeskMoves, walletVars, BeginMerge, AbortMerge, ReverseDeposit

LEMMA SpentInit == Init => SpentOnce
BY RowNames DEF Init, SpentOnce

-----------------------------------------------------------------------------
(* The balance moves with the books.                                       *)
LEMMA BalancedBooking ==
  ASSUME TypeOK, TypeOK', Balanced, UNCHANGED hold, NEW k \in Rows, NEW c \in Customers, NEW v \in Int,
         Credit(k, c, v) \/ Debit(k, c, v)
  PROVE  Balanced'
<1>1. \A x \in Customers : Held(x)' = Held(x)
  BY HeldStays
<1>2. \A x \in Customers : balance[x] \in Int /\ balance'[x] \in Int /\ Ledger(x) \in Int /\ Held(x) \in Int
  BY BooksAreInts DEF TypeOK
<1>3. balance \in [Customers -> Int]
  BY DEF TypeOK
<1>4. CASE Credit(k, c, v)
  <2>1. \A x \in Customers : Ledger(x)' = Ledger(x) + (IF x = c THEN v ELSE 0)
    BY <1>4, LedgerBooks DEF Credit
  <2>2. \A x \in Customers : balance'[x] = balance[x] + (IF x = c THEN v ELSE 0)
    BY <1>2, <1>3, <1>4 DEF Credit
  <2> QED
    BY <1>1, <1>2, <2>1, <2>2 DEF Balanced
<1>5. CASE Debit(k, c, v)
  <2>1. \A x \in Customers : Ledger(x)' = Ledger(x) + (IF x = c THEN -v ELSE 0)
    BY <1>5, LedgerBooks DEF Debit
  <2>2. \A x \in Customers : balance'[x] = balance[x] + (IF x = c THEN -v ELSE 0)
    BY <1>2, <1>3, <1>5 DEF Debit
  <2> QED
    BY <1>1, <1>2, <2>1, <2>2 DEF Balanced
<1> QED
  BY <1>4, <1>5

LEMMA BalancedStep ==
  ASSUME WalletInv, SpentOnce, TypeOK', Balanced, [WalletNext]_walletVars
  PROVE  Balanced' \/ \E m \in Screens : StaleMerge(m)
<1> USE WalletAssumption DEF WalletInv
<1>0. Amounts \subseteq Int
  OBVIOUS
<1>a. /\ balance \in [Customers -> Int] /\ balance' \in [Customers -> Int]
      /\ \A x \in Customers : Ledger(x) \in Int /\ Held(x) \in Int /\ balance[x] = Ledger(x) - Held(x)
  BY BooksAreInts DEF TypeOK, Balanced
<1>1. ASSUME NEW t \in Transfers, NEW c \in Customers, NEW e \in Customers, NEW v \in Amounts, Transfer(t, c, e, v)
      PROVE  Balanced'
  <2>1. ~Booked(<<"out", t>>) /\ ~Booked(<<"in", t>>)
    BY <1>1 DEF Transfer, LegsMeet
  <2>2. \A x \in Customers : Ledger(x)' = Ledger(x) + (IF x = c THEN -v ELSE 0) + (IF x = e THEN v ELSE 0)
    <3>1. /\ <<"out", t>> \in Rows /\ <<"in", t>> \in Rows /\ <<"out", t>> # <<"in", t>> /\ v \in Int
          /\ row'[<<"out", t>>] = [cust |-> c, amt |-> -v] /\ row'[<<"in", t>>] = [cust |-> e, amt |-> v]
          /\ \A i \in Rows \ {<<"out", t>>, <<"in", t>>} : row'[i] = row[i]
      BY <1>0, <1>1, RowNames DEF Transfer, TypeOK
    <3> HIDE WalletAssumption
    <3> QED
      BY <2>1, <3>1, LedgerTransfers
  <2>3. \A x \in Customers : balance'[x] = balance[x] + (IF x = c THEN -v ELSE 0) + (IF x = e THEN v ELSE 0)
    BY <1>0, <1>1, <1>a DEF Transfer
  <2>4. \A x \in Customers : Held(x)' = Held(x)
    BY <1>1, HeldStays DEF Transfer
  <2> QED
    BY <1>0, <1>a, <2>2, <2>3, <2>4 DEF Balanced
<1>2. ASSUME NEW k \in Credits, Reverse(k), UNCHANGED hold
      PROVE  Balanced'
  BY <1>2, ReverseNames, BalancedBooking
<1>3. ASSUME NEW r \in Requests, NEW c \in Customers, NEW v \in Amounts, Charge(r, c, v) \/ GiveBack(r, c, v)
      PROVE  Balanced'
  <2>1. CASE Charge(r, c, v)
    BY <1>0, <2>1, RowNames, BalancedBooking DEF Charge
  <2>2. CASE GiveBack(r, c, v)
    BY <1>0, <2>2, RowNames, BalancedBooking DEF GiveBack
  <2> QED
    BY <1>3, <2>1, <2>2
<1>4. ASSUME balance' = balance, row' = row, hold' = hold
      PROVE  Balanced'
  <2>1. \A x \in Customers : Ledger(x)' = Ledger(x) /\ Held(x)' = Held(x)
    BY <1>4, LedgerStays, HeldStays
  <2> QED
    BY <1>4, <2>1 DEF Balanced
<1>5. ASSUME NEW o \in Orders, Active(o), UNCHANGED row,
             NEW h \in HoldType, hold' = [hold EXCEPT ![o] = h],
             \A x \in Customers : balance'[x] = balance[x] - (OnHold(h, x) - OnHold(hold[o], x))
      PROVE  Balanced'
  <2>1. \A x \in Customers : Held(x)' = Held(x) + (OnHold(h, x) - OnHold(hold[o], x))
    BY <1>5, HeldChanges
  <2>2. \A x \in Customers : Ledger(x)' = Ledger(x)
    BY <1>5, LedgerStays
  <2>3. \A x \in Customers : OnHold(h, x) \in Int /\ OnHold(hold[o], x) \in Int
    <3>1. h.amt \in Int
      BY DEF HoldType, NoHold
    <3> QED
      BY <3>1, RowTypes DEF OnHold
  <2> QED
    BY <1>5, <1>a, <2>1, <2>2, <2>3 DEF Balanced
<1>h. \A o \in Orders : Active(o) => hold[o] \in [cust: Customers, amt: Nat, status: {"active", "released", "converted"}]
  BY DEF Active, TypeOK, HoldType, NoHold
<1>6. ASSUME NEW o \in Orders, NEW c \in Customers, ReassignHold(o, c)
      PROVE  Balanced'
  <2> DEFINE h == [hold[o] EXCEPT !.cust = c]
  <2>1. Active(o) /\ hold[o].cust # c /\ hold[o].status = "active"
    BY <1>6 DEF ReassignHold, Active
  <2>2. /\ hold[o] \in [cust: Customers, amt: Nat, status: {"active", "released", "converted"}]
        /\ h \in [cust: Customers, amt: Nat, status: {"active", "released", "converted"}]
        /\ h.cust = c /\ h.amt = hold[o].amt /\ h.status = hold[o].status
    BY <2>1, <1>h
  <2>3. hold' = [hold EXCEPT ![o] = h]
    BY <1>6 DEF ReassignHold, HoldMoves
  <2>4. \A x \in Customers : balance'[x] = IF x = c THEN balance[x] - hold[o].amt
                                           ELSE IF x = hold[o].cust THEN balance[x] + hold[o].amt ELSE balance[x]
    BY <1>6, <1>a, <2>1, <2>2 DEF ReassignHold
  <2> HIDE DEF h
  <2>5. \A x \in Customers : balance'[x] = balance[x] - (OnHold(h, x) - OnHold(hold[o], x))
    BY <1>a, <2>1, <2>2, <2>4 DEF OnHold
  <2>6. h \in HoldType
    BY <2>2 DEF HoldType
  <2> QED
    BY <1>5, <1>6, <2>1, <2>3, <2>5, <2>6 DEF ReassignHold
<1>7. ASSUME NEW o \in Orders, NEW s \in {"released", "none"}, EndHold(o, s)
      PROVE  Balanced'
  <2> DEFINE h == IF s = "none" THEN NoHold ELSE [hold[o] EXCEPT !.status = s]
  <2>1. Active(o) /\ hold[o].status = "active" /\ hold' = [hold EXCEPT ![o] = h]
    BY <1>7 DEF EndHold, Active
  <2>2. hold[o] \in [cust: Customers, amt: Nat, status: {"active", "released", "converted"}]
    BY <2>1, <1>h
  <2>3. h \in HoldType /\ h.status # "active"
    <3>1. CASE s = "none"
      BY <3>1 DEF HoldType, NoHold
    <3>2. CASE s = "released"
      BY <3>2, <2>2 DEF HoldType
    <3> QED
      BY <3>1, <3>2
  <2>4. \A x \in Customers : balance'[x] = IF x = hold[o].cust THEN balance[x] + hold[o].amt ELSE balance[x]
    BY <1>7, <1>a, <2>2 DEF EndHold
  <2> HIDE DEF h
  <2>5. \A x \in Customers : balance'[x] = balance[x] - (OnHold(h, x) - OnHold(hold[o], x))
    BY <1>a, <2>1, <2>2, <2>3, <2>4 DEF OnHold
  <2> QED
    BY <1>5, <1>7, <2>1, <2>3, <2>5 DEF EndHold
<1>8. ASSUME NEW o \in Orders, ConvertHold(o)
      PROVE  Balanced'
  <2> DEFINE h == [hold[o] EXCEPT !.status = "converted"]
  <2>1. Active(o) /\ hold[o].status = "active" /\ hold' = [hold EXCEPT ![o] = h]
    BY <1>8 DEF ConvertHold, Active
  <2>2. hold[o] \in [cust: Customers, amt: Nat, status: {"active", "released", "converted"}]
    BY <2>1, <1>h
  <2>3. h \in [cust: Customers, amt: Nat, status: {"active", "released", "converted"}] /\ h.status # "active"
    BY <2>2
  <2> HIDE DEF h
  <2>4. \A x \in Customers : Held(x)' = Held(x) + (OnHold(h, x) - OnHold(hold[o], x))
    BY <2>1, <2>3, HeldChanges DEF HoldType
  <2>5. -hold[o].amt \in Int /\ ~Booked(<<"spent", o>>)
    BY <2>1, <2>2 DEF SpentOnce
  <2>6. \A x \in Customers : Ledger(x)' = Ledger(x) + (IF x = hold[o].cust THEN -hold[o].amt ELSE 0)
    BY <1>8, <2>2, <2>5, RowNames, LedgerBooks DEF ConvertHold
  <2>7. \A x \in Customers : OnHold(h, x) = 0 /\ OnHold(hold[o], x) = IF x = hold[o].cust THEN hold[o].amt ELSE 0
    BY <2>1, <2>2, <2>3 DEF OnHold
  <2> QED
    BY <1>8, <1>a, <2>2, <2>4, <2>6, <2>7 DEF ConvertHold, Balanced
<1>9. ASSUME NEW o \in Orders, DropHold(o)
      PROVE  Balanced'
  <2>1. \A x \in Customers : Held(x)' = Held(x) + (OnHold(NoHold, x) - OnHold(hold[o], x))
    BY <1>9, HeldChanges DEF DropHold, HoldType
  <2>2. \A x \in Customers : OnHold(NoHold, x) = 0 /\ OnHold(hold[o], x) = 0
    BY <1>9 DEF DropHold, OnHold, NoHold
  <2>3. \A x \in Customers : Ledger(x)' = Ledger(x)
    BY <1>9, LedgerStays DEF DropHold
  <2> QED
    BY <1>9, <1>a, <2>1, <2>2, <2>3 DEF DropHold, Balanced
<1>10. ASSUME NEW m \in Screens, CommitMerge(m), ~StaleMerge(m)
       PROVE  Balanced'
  <2>1. PICK c \in Customers, e \in Customers : c = merging[m].from /\ e = merging[m].to
    BY <1>10 DEF CommitMerge, TypeOK, MergeType
  <2>2. c # e /\ merging[m].read = balance[c]
    BY <1>10, <2>1 DEF CommitMerge, MergesTwo, StaleMerge
  <2>3. /\ row' = Moved(row, c, e) /\ hold' = Moved(hold, c, e)
        /\ balance' = [balance EXCEPT ![e] = @ + balance[c], ![c] = 0]
    BY <1>10, <2>1, <2>2 DEF CommitMerge, HoldsMoved
  <2>4. /\ Ledger(e)' = Ledger(e) + Ledger(c) /\ Ledger(c)' = 0
        /\ \A x \in Customers \ {c, e} : Ledger(x)' = Ledger(x)
    BY <2>2, <2>3, LedgerMoves
  <2>5. /\ Held(e)' = Held(e) + Held(c) /\ Held(c)' = 0
        /\ \A x \in Customers \ {c, e} : Held(x)' = Held(x)
    BY <2>2, <2>3, HeldMoves
  <2>6. /\ balance'[e] = balance[e] + balance[c] /\ balance'[c] = 0
        /\ \A x \in Customers \ {c, e} : balance'[x] = balance[x]
    BY <1>a, <2>2, <2>3
  <2> QED
    BY <1>a, <2>4, <2>5, <2>6 DEF Balanced
<1>11. ASSUME NEW d \in Deposits, Unmatch(d) \/ RefuseUnmatch(d)
       PROVE  Balanced'
  <2>1. CASE Unmatch(d)
    BY <1>2, <2>1, RowNames DEF Unmatch
  <2>2. CASE RefuseUnmatch(d)
    BY <1>4, <2>2 DEF RefuseUnmatch
  <2> QED
    BY <1>11, <2>1, <2>2
<1>12. ASSUME NEW m \in Screens, AbortMerge(m) \/ \E c, e \in Customers : BeginMerge(m, c, e)
       PROVE  Balanced'
  BY <1>4, <1>12 DEF BeginMerge, AbortMerge
<1>13. ASSUME NEW k \in Credits, ReverseDeposit(k)
       PROVE  Balanced'
  BY <1>2, <1>13 DEF ReverseDeposit
<1>14. CASE UNCHANGED walletVars
  BY <1>4, <1>14 DEF walletVars
<1> HIDE WalletAssumption
<1> QED
  BY <1>1, <1>3, <1>6, <1>7, <1>8, <1>9, <1>10, <1>11, <1>12, <1>13, <1>14 DEF WalletNext, DeskMoves

(* customers.balance is what the deposits and the holds add up to after    *)
(* every transfer, reversal, hold, payment and refund, if it was before;   *)
(* only a merge that adds a balance it has read too early breaks it.       *)
THEOREM BooksDoBalance == WalletSpec => BooksBalanceButForStaleMerge
<1> DEFINE Inv == WalletInv /\ SpentOnce
           Follows == walletVars' # walletVars /\ Balanced => Balanced' \/ \E m \in Screens : StaleMerge(m)
<1>1. Init => Inv
  BY WalletInit, SpentInit
<1>2. Inv /\ [WalletNext]_walletVars => Inv'
  BY WalletStep, SpentStep
<1>3. Inv /\ Inv' /\ [WalletNext]_walletVars => [Follows]_walletVars
  BY BalancedStep DEF WalletInv
<1> HIDE DEF Inv, Follows
<1>4. WalletSpec => [][Follows]_walletVars
  BY <1>1, <1>2, <1>3, PTL DEF WalletSpec
<1> QED
  BY <1>4 DEF BooksBalanceButForStaleMerge, Follows

-----------------------------------------------------------------------------
(* Requests.  What a desk keeps is what its next statement needs.          *)
DeskType == [at: {"idle", "taking", "approving", "paying", "marking", "returning",
                  "putting", "refunding", "closing", "swept", "expiring", "shelving", "typing"},
             req: Requests \cup {NoOne}, cust: Customers \cup {NoOne}, paid: BOOLEAN,
             slot: Slots \cup {NoSlot}, read: Nat]
Fine(c) ==
  /\ c.at \notin {"idle", "typing"} => c.req \in Requests
  /\ c.at \in {"paying", "returning", "putting", "refunding"} => c.cust \in Customers
  /\ c.at = "taking" => c.slot \in Slots /\ c.read >= Need[c.req]
DesksFine == \A d \in Desks : Fine(desk[d])
RequestInv == WalletInv /\ TypeOKRequests /\ DesksFine

LEMMA IdleFine == Idle \in DeskType /\ Fine(Idle)
BY DEF Idle, DeskType, Fine

LEMMA DeskSteps ==
  ASSUME desk \in [Desks -> DeskType], DesksFine, NEW d \in Desks, NEW s \in DeskType, Fine(s), Step(d, s)
  PROVE  desk' \in [Desks -> DeskType] /\ DesksFine'
<1>1. desk' = [desk EXCEPT ![d] = s]
  BY DEF Step
<1>2. \A x \in Desks : desk'[x] = IF x = d THEN s ELSE desk[x]
  BY <1>1
<1>3. desk' \in [Desks -> DeskType]
  BY <1>1
<1>4. \A x \in Desks : desk'[x] = s \/ desk'[x] = desk[x]
  BY <1>2
<1>5. Fine(s) /\ \A x \in Desks : Fine(desk[x])
  BY DEF DesksFine
<1>6. ASSUME NEW x \in Desks
      PROVE  Fine(desk[x])'
  <2>1. Fine(desk'[x])
    BY <1>4, <1>5
  <2> QED
    BY <2>1 DEF Fine
<1> QED
  BY <1>3, <1>6 DEF DesksFine

(* The desks' steps are bookings of the wallet, or leave it alone.         *)
LEMMA RequestsUseWallet == RequestInv /\ [Next]_vars => [WalletNext]_walletVars
<1> SUFFICES ASSUME RequestInv, [Next]_vars, ~UNCHANGED walletVars PROVE WalletNext
  OBVIOUS
<1>1. CASE DeskMoves
  BY <1>1 DEF WalletNext
<1>2. ASSUME NEW m \in Screens, MergeWithRequests(m)
      PROVE  WalletNext
  BY <1>2 DEF MergeWithRequests, WalletNext
<1>3. ASSUME NEW d \in Desks, PayDebit(d) \/ Refund(d)
      PROVE  WalletNext
  <2> DEFINE r == desk[d].req
             c == desk[d].cust
  <2>1. desk[d].at = "paying" \/ desk[d].at = "refunding"
    BY <1>3 DEF PayDebit, Refund, Busy
  <2>2. r \in Requests /\ c \in Customers
    BY <2>1 DEF RequestInv, DesksFine, Fine
  <2>3. Price[r] \in Amounts
    BY <2>2, RequestsAssumption
  <2>4. Charge(r, c, Price[r]) \/ GiveBack(r, c, Price[r])
    BY <1>3 DEF PayDebit, Refund
  <2> HIDE DEF r, c
  <2> QED
    BY <2>2, <2>3, <2>4 DEF WalletNext
<1>4. CASE RequestNext /\ ~\E d \in Desks : PayDebit(d) \/ Refund(d)
  BY <1>4 DEF RequestNext, CreateRequest, Withdraw, DayEnds, Review, UpdatePayment, UpdateCollection,
              BeginApprove, BeginPay, CancelLpg, BeginSweep, BeginExpireIfStale, TakeCylinders, FinishApprove,
              RefuseApprove, RefusePay, PayMark, BeginReturn, ReturnCylinders, RefundLost, MarkRefunded,
              SweepLocks, SweepSkips, ExpiryReads, ExpiryReturns, CommitExpiry, FinishEdit, Crash, BeginEdit, OnlyDesk
<1>5. CASE UNCHANGED vars
  BY <1>5 DEF vars
<1> QED
  BY <1>1, <1>2, <1>3, <1>4, <1>5 DEF Next

LEMMA RequestsInit == InitRequests => RequestInv
<1> SUFFICES ASSUME InitRequests PROVE RequestInv
  OBVIOUS
<1>1. WalletInv /\ TypeOK
  BY WalletInit DEF InitRequests, WalletInv
<1>2. desk \in [Desks -> DeskType] /\ DesksFine
  BY IdleFine DEF InitRequests, DesksFine, Fine
<1>3. shelf \in [Slots -> Nat \cup {Gone}]
  BY RequestsAssumption DEF InitRequests
<1>4. /\ status \in [Requests -> Status] /\ pay \in [Requests -> {"Unpaid", "Paid", "Refunded"}]
      /\ away \subseteq Requests /\ lapsed \subseteq Requests /\ owner \in [Requests -> Customers]
  BY DEF InitRequests, Status
<1> QED
  BY <1>1, <1>2, <1>3, <1>4 DEF RequestInv, TypeOKRequests, DeskType

(* A row of cylinders is written with a quantity, or as gone.              *)
LEMMA ShelfWritten ==
  ASSUME shelf \in [Slots -> Nat \cup {Gone}], NEW k \in Slots, NEW n \in Nat \cup {Gone},
         Put(k, n) \/ shelf' = [shelf EXCEPT ![k] = n]
  PROVE  shelf' \in [Slots -> Nat \cup {Gone}]
BY DEF Put

LEMMA CylindersReturned ==
  ASSUME shelf \in [Slots -> Nat \cup {Gone}], NEW c \in DeskType, c.req \in Requests, Return(c)
  PROVE  shelf' \in [Slots -> Nat \cup {Gone}]
<1>1. Need[c.req] \in Nat /\ c.read \in Nat
  BY RequestsAssumption DEF DeskType
<1>2. CASE c.slot = NoSlot
  BY <1>1, <1>2, ShelfWritten DEF Return, Fresh
<1>3. CASE c.slot # NoSlot
  <2>1. c.slot \in Slots /\ c.read + Need[c.req] \in Nat
    BY <1>1, <1>3 DEF DeskType
  <2> QED
    BY <1>3, <2>1, ShelfWritten DEF Return
<1> QED
  BY <1>2, <1>3

LEMMA RequestsStep == RequestInv /\ [Next]_vars => RequestInv'
<1> SUFFICES ASSUME RequestInv, [Next]_vars PROVE RequestInv'
  OBVIOUS
<1>1. WalletInv'
  BY RequestsUseWallet, WalletStep DEF RequestInv
<1>2. /\ desk \in [Desks -> DeskType] /\ DesksFine
      /\ shelf \in [Slots -> Nat \cup {Gone}]
      /\ status \in [Requests -> Status] /\ pay \in [Requests -> {"Unpaid", "Paid", "Refunded"}]
      /\ away \subseteq Requests /\ lapsed \subseteq Requests /\ owner \in [Requests -> Customers]
  BY DEF RequestInv, TypeOKRequests, DeskType
<1>3. ASSUME NEW d \in Desks
      PROVE  desk[d] \in DeskType /\ Fine(desk[d])
  BY <1>2 DEF DesksFine
<1>d. ASSUME desk' \in [Desks -> DeskType], DesksFine', shelf' \in [Slots -> Nat \cup {Gone}],
             status' \in [Requests -> Status], pay' \in [Requests -> {"Unpaid", "Paid", "Refunded"}],
             away' \subseteq Requests, lapsed' \subseteq Requests, owner' \in [Requests -> Customers]
      PROVE  RequestInv'
  BY <1>1, <1>d DEF RequestInv, TypeOKRequests, DeskType, WalletInv
<1>s. ASSUME UNCHANGED desk PROVE desk' \in [Desks -> DeskType] /\ DesksFine'
  BY <1>2, <1>s DEF DesksFine, Fine
<1>n. \A x \in Slots \cup {NoSlot} : x = NoSlot \/ x \in Slots
  OBVIOUS
<1>4. ASSUME NEW r \in Requests, CreateRequest(r) \/ Withdraw(r) \/ DayEnds(r)
      PROVE  RequestInv'
  BY <1>2, <1>4, <1>s, <1>d DEF CreateRequest, Withdraw, DayEnds, Status
<1>5. ASSUME NEW r \in Requests, NEW to \in {"Approved", "Rejected"}, Review(r, to)
      PROVE  RequestInv'
  BY <1>2, <1>5, <1>s, <1>d DEF Review, Transition, Status
<1>6. ASSUME NEW r \in Requests, NEW q \in {"Paid", "Unpaid"}, UpdatePayment(r, q)
      PROVE  RequestInv'
  BY <1>2, <1>6, <1>s, <1>d DEF UpdatePayment
<1>7. ASSUME NEW r \in Requests, NEW gone \in BOOLEAN, UpdateCollection(r, gone)
      PROVE  RequestInv'
  BY <1>2, <1>7, <1>s, <1>d DEF UpdateCollection
(* The desk alone moves, to a state that is given.                         *)
<1>8. ASSUME NEW d \in Desks, NEW c \in DeskType, Fine(c), Step(d, c),
             shelf' \in [Slots -> Nat \cup {Gone}],
             status' \in [Requests -> Status], pay' \in [Requests -> {"Unpaid", "Paid", "Refunded"}],
             UNCHANGED <<away, lapsed, owner>>
      PROVE  RequestInv'
  BY <1>2, <1>8, <1>d, DeskSteps
<1>9. ASSUME NEW d \in Desks, NEW r \in Requests, BeginApprove(d, r)
      PROVE  RequestInv'
  <2>1. PICK k \in OnShelf : /\ shelf[k] >= Need[r]
                             /\ Step(d, [Idle EXCEPT !.at = "taking", !.req = r, !.slot = k, !.read = shelf[k]])
    BY <1>9 DEF BeginApprove
  <2> DEFINE c == [Idle EXCEPT !.at = "taking", !.req = r, !.slot = k, !.read = shelf[k]]
  <2>2. k \in Slots /\ shelf[k] \in Nat
    BY <1>2 DEF OnShelf, Gone
  <2>3. c \in DeskType /\ Fine(c)
    BY <2>1, <2>2 DEF Idle, DeskType, Fine
  <2> HIDE DEF c
  <2> QED
    BY <1>2, <1>8, <1>9, <2>1, <2>3 DEF BeginApprove, OnlyDesk, c
<1>10. ASSUME NEW d \in Desks, NEW r \in Requests, BeginPay(d, r)
       PROVE  RequestInv'
  <2> DEFINE c == [Idle EXCEPT !.at = "paying", !.req = r, !.cust = owner[r]]
  <2>1. c \in DeskType /\ Fine(c)
    BY <1>2 DEF Idle, DeskType, Fine
  <2> QED
    BY <1>2, <1>8, <1>10, <2>1 DEF BeginPay, OnlyDesk
<1>11. ASSUME NEW d \in Desks, NEW r \in Requests, CancelLpg(d, r)
       PROVE  RequestInv'
  <2> DEFINE c(at) == [at |-> at, req |-> r, cust |-> owner[r], paid |-> Refundable(r), slot |-> NoSlot, read |-> 0]
  <2>1. Refundable(r) \in BOOLEAN
    BY DEF Refundable
  <2>2. \A at \in {"returning", "refunding"} : c(at) \in DeskType /\ Fine(c(at))
    BY <1>2, <2>1 DEF DeskType, Fine
  <2>3. \E s \in {Idle, c("returning"), c("refunding")} : Step(d, s)
    BY <1>11 DEF CancelLpg, Resume, AfterReturn, Idle
  <2>4. \E s \in DeskType : Fine(s) /\ Step(d, s)
    BY <2>2, <2>3, IdleFine
  <2>5. status' \in [Requests -> Status]
    BY <1>2, <1>11 DEF CancelLpg, Transition, Status
  <2> HIDE DEF c
  <2> QED
    BY <1>2, <1>8, <1>11, <2>4, <2>5 DEF CancelLpg
<1>12. ASSUME NEW d \in Desks, NEW r \in Requests, BeginSweep(d, r) \/ BeginExpireIfStale(d, r)
       PROVE  RequestInv'
  <2> DEFINE c(at) == [Idle EXCEPT !.at = at, !.req = r]
  <2>1. \A at \in {"swept", "expiring"} : c(at) \in DeskType /\ Fine(c(at))
    BY DEF Idle, DeskType, Fine
  <2>2. Step(d, c("swept")) \/ Step(d, c("expiring"))
    BY <1>12 DEF BeginSweep, BeginExpireIfStale, Expiring
  <2> HIDE DEF c
  <2> QED
    BY <1>2, <1>8, <1>12, <2>1, <2>2 DEF BeginSweep, BeginExpireIfStale, OnlyDesk
<1>13. ASSUME NEW d \in Desks, TakeCylinders(d)
       PROVE  RequestInv'
  <2> DEFINE c == [desk[d] EXCEPT !.at = "approving"]
  <2>1. desk[d].at = "taking" /\ Step(d, c) /\ Put(desk[d].slot, Left(desk[d].read - Need[desk[d].req]))
    BY <1>13 DEF TakeCylinders, Busy, Then
  <2>2. desk[d].slot \in Slots /\ desk[d].read >= Need[desk[d].req] /\ desk[d].req \in Requests /\ desk[d].read \in Nat
    BY <1>3, <2>1 DEF Fine, DeskType
  <2>3. Left(desk[d].read - Need[desk[d].req]) \in Nat \cup {Gone}
    BY <2>2, RequestsAssumption DEF Left
  <2>4. shelf' \in [Slots -> Nat \cup {Gone}]
    BY <1>2, <2>1, <2>2, <2>3, ShelfWritten
  <2>5. c \in DeskType /\ Fine(c)
    BY <1>3, <2>2 DEF DeskType, Fine
  <2> HIDE DEF c
  <2> QED
    BY <1>2, <1>8, <1>13, <2>1, <2>4, <2>5 DEF TakeCylinders
(* A desk that is done, refused or gone.                                   *)
<1>14. ASSUME NEW d \in Desks, Step(d, Idle), shelf' \in [Slots -> Nat \cup {Gone}],
              status' \in [Requests -> Status], pay' \in [Requests -> {"Unpaid", "Paid", "Refunded"}],
              UNCHANGED <<away, lapsed, owner>>
       PROVE  RequestInv'
  BY <1>8, <1>14, IdleFine
<1>15. ASSUME NEW d \in Desks, RefuseApprove(d) \/ RefusePay(d) \/ SweepSkips(d) \/ Crash(d)
       PROVE  RequestInv'
  BY <1>2, <1>14, <1>15 DEF RefuseApprove, RefusePay, SweepSkips, Crash, OnlyDesk
<1>16. ASSUME NEW d \in Desks, FinishApprove(d) \/ CommitExpiry(d)
       PROVE  RequestInv'
  <2>1. status' \in [Requests -> Status]
    BY <1>2, <1>16 DEF FinishApprove, CommitExpiry, Transition, Status
  <2> QED
    BY <1>2, <1>14, <1>16, <2>1 DEF FinishApprove, CommitExpiry
<1>17. ASSUME NEW d \in Desks, PayMark(d) \/ MarkRefunded(d)
       PROVE  RequestInv'
  <2>1. pay' \in [Requests -> {"Unpaid", "Paid", "Refunded"}]
    BY <1>2, <1>17 DEF PayMark, MarkRefunded
  <2> QED
    BY <1>2, <1>14, <1>17, <2>1 DEF PayMark, MarkRefunded
<1>18. ASSUME NEW d \in Desks, FinishEdit(d)
       PROVE  RequestInv'
  <2>1. desk[d].read \in Nat
    BY <1>3 DEF DeskType
  <2>2. PICK k \in Fresh : shelf' = [shelf EXCEPT ![k] = desk[d].read]
    BY <1>18 DEF FinishEdit
  <2>3. shelf' \in [Slots -> Nat \cup {Gone}]
    BY <1>2, <2>1, <2>2 DEF Fresh
  <2> QED
    BY <1>2, <1>14, <1>18, <2>3 DEF FinishEdit
(* What it has read goes with it to the next step.                         *)
<1>19. ASSUME NEW d \in Desks, NEW at \in {"marking", "closing"}, desk[d].at \in {"paying", "refunding"}, Then(d, at),
              UNCHANGED <<status, pay, away, owner, lapsed, shelf>>
       PROVE  RequestInv'
  <2> DEFINE c == [desk[d] EXCEPT !.at = at]
  <2>1. c \in DeskType /\ Fine(c)
    BY <1>3, <1>19 DEF DeskType, Fine
  <2>2. Step(d, c)
    BY <1>19 DEF Then
  <2> HIDE DEF c
  <2> QED
    BY <1>2, <1>8, <1>19, <2>1, <2>2
<1>20. ASSUME NEW d \in Desks, PayDebit(d) \/ Refund(d) \/ RefundLost(d)
       PROVE  RequestInv'
  BY <1>19, <1>20 DEF PayDebit, Refund, RefundLost, Busy, OnlyDesk
<1>21. ASSUME NEW d \in Desks, NEW at \in {"putting", "shelving"}, NEW k \in ShelfSeen,
              desk[d].at = IF at = "putting" THEN "returning" ELSE "expiring",
              Step(d, [desk[d] EXCEPT !.at = at, !.slot = k, !.read = ReadShelf(k).read]), OnlyDesk
       PROVE  RequestInv'
  <2> DEFINE c == [desk[d] EXCEPT !.at = at, !.slot = k, !.read = ReadShelf(k).read]
  <2>1. k \in Slots \cup {NoSlot} /\ ReadShelf(k).read \in Nat
    BY <1>2 DEF ShelfSeen, OnShelf, ReadShelf, Gone
  <2>2. c \in DeskType /\ Fine(c)
    BY <1>3, <1>21, <2>1 DEF DeskType, Fine
  <2> HIDE DEF c
  <2> QED
    BY <1>2, <1>8, <1>21, <2>2 DEF OnlyDesk, c
<1>22. ASSUME NEW d \in Desks, BeginReturn(d) \/ ExpiryReads(d)
       PROVE  RequestInv'
  BY <1>21, <1>22 DEF BeginReturn, ExpiryReads, Busy
<1>23. ASSUME NEW d \in Desks, ReturnCylinders(d)
       PROVE  RequestInv'
  <2> DEFINE c == [desk[d] EXCEPT !.at = "refunding", !.slot = NoSlot, !.read = 0]
  <2>1. desk[d].at = "putting" /\ Return(desk[d]) /\ (Step(d, c) \/ Step(d, Idle))
    BY <1>23 DEF ReturnCylinders, Busy, Resume, AfterReturn
  <2>2. desk[d].req \in Requests /\ c \in DeskType /\ Fine(c)
    BY <1>3, <2>1 DEF DeskType, Fine
  <2>3. shelf' \in [Slots -> Nat \cup {Gone}]
    BY <1>2, <1>3, <2>1, <2>2, CylindersReturned
  <2> HIDE DEF c
  <2> QED
    BY <1>2, <1>8, <1>14, <1>23, <2>1, <2>2, <2>3 DEF ReturnCylinders
<1>24. ASSUME NEW d \in Desks, ExpiryReturns(d)
       PROVE  RequestInv'
  <2> DEFINE c == [desk[d] EXCEPT !.at = "expiring", !.paid = TRUE, !.slot = NoSlot, !.read = 0]
  <2>1. desk[d].at = "shelving" /\ Return(desk[d]) /\ Step(d, c)
    BY <1>24 DEF ExpiryReturns, Busy
  <2>2. desk[d].req \in Requests /\ c \in DeskType /\ Fine(c)
    BY <1>3, <2>1 DEF DeskType, Fine
  <2>3. shelf' \in [Slots -> Nat \cup {Gone}]
    BY <1>2, <1>3, <2>1, <2>2, CylindersReturned
  <2> HIDE DEF c
  <2> QED
    BY <1>2, <1>8, <1>24, <2>1, <2>2, <2>3 DEF ExpiryReturns
<1>25. ASSUME NEW d \in Desks, SweepLocks(d)
       PROVE  RequestInv'
  <2> DEFINE c == [Idle EXCEPT !.at = "expiring", !.req = desk[d].req]
  <2>1. desk[d].req \in Requests
    BY <1>3, <1>25 DEF SweepLocks, Busy, Fine
  <2>2. c \in DeskType /\ Fine(c)
    BY <2>1 DEF Idle, DeskType, Fine
  <2>3. Step(d, c)
    BY <1>25 DEF SweepLocks, Expiring
  <2> HIDE DEF c
  <2> QED
    BY <1>2, <1>8, <1>25, <2>2, <2>3 DEF SweepLocks, OnlyDesk
<1>26. ASSUME NEW d \in Desks, NEW n \in Shelves, BeginEdit(d, n)
       PROVE  RequestInv'
  <2> DEFINE c == [Idle EXCEPT !.at = "typing", !.read = n]
  <2>1. n \in Nat
    BY RequestsAssumption
  <2>2. c \in DeskType /\ Fine(c)
    BY <2>1 DEF Idle, DeskType, Fine
  <2>3. shelf' \in [Slots -> Nat \cup {Gone}] /\ Step(d, c)
    BY <1>2, <1>26 DEF BeginEdit
  <2> HIDE DEF c
  <2> QED
    BY <1>2, <1>8, <1>26, <2>2, <2>3 DEF BeginEdit
<1>27. ASSUME NEW m \in Screens, MergeWithRequests(m)
       PROVE  RequestInv'
  <2>1. merging[m].to \in Customers
    BY <1>27 DEF MergeWithRequests, CommitMerge, RequestInv, WalletInv, TypeOK, MergeType
  <2>2. owner' \in [Requests -> Customers]
    BY <1>2, <1>27, <2>1 DEF MergeWithRequests, OwnersMoved
  <2> QED
    BY <1>2, <1>s, <1>d, <1>27, <2>2 DEF MergeWithRequests
<1>28. ASSUME UNCHANGED reqVars
       PROVE  RequestInv'
  BY <1>2, <1>s, <1>d, <1>28 DEF reqVars
<1> QED
  BY <1>4, <1>5, <1>6, <1>7, <1>9, <1>10, <1>11, <1>12, <1>13, <1>15, <1>16, <1>17, <1>18, <1>20, <1>22,
     <1>23, <1>24, <1>25, <1>26, <1>27, <1>28 DEF Next, RequestNext, vars

(* The requests' variables have their types.                               *)
THEOREM RequestTypes == Spec => []TypeOKRequests
<1>1. RequestInv => TypeOKRequests
  BY DEF RequestInv
<1> QED
  BY RequestsInit, RequestsStep, <1>1, PTL DEF Spec

(* Whatever desks, sweeps and crashes do to requests, the wallet is moved  *)
(* by its own operations only: what is shown of the wallet alone holds     *)
(* with the requests at work (payLpgOrder, cancelLpgOrderRequest).         *)
THEOREM RequestsImplementWallet == Spec => WalletSpec
<1>1. InitRequests => Init
  BY DEF InitRequests
<1> QED
  BY RequestsInit, RequestsStep, RequestsUseWallet, <1>1, PTL DEF Spec, WalletSpec

-----------------------------------------------------------------------------
(* Only a request that was approved has been paid from the wallet.         *)
Reviewed(r) == status[r] \notin {"None", "Pending Review"}
PaidWasApproved ==
  /\ \A r \in Requests : Booked(<<"pay", r>>) => Reviewed(r)
  /\ \A d \in Desks : desk[d].at = "paying" => Reviewed(desk[d].req)

(* What the desk does in the wallet books no payment of a request, and     *)
(* unbooks no refund.                                                      *)
LEMMA DeskBooksNone ==
  ASSUME WalletInv, DeskMoves \/ \E m \in Screens : CommitMerge(m)
  PROVE  \A r \in Requests : /\ Booked(<<"pay", r>>)' <=> Booked(<<"pay", r>>)
                             /\ Booked(<<"refund", r>>)' <=> Booked(<<"refund", r>>)
<1> USE DEF WalletInv
<1> DEFINE Same == \A r \in Requests : /\ Booked(<<"pay", r>>)' <=> Booked(<<"pay", r>>)
                                       /\ Booked(<<"refund", r>>)' <=> Booked(<<"refund", r>>)
<1>1. ASSUME NEW t \in Transfers, NEW c \in Customers, NEW e \in Customers, NEW v \in Amounts, Transfer(t, c, e, v)
      PROVE  Same
  <2>1. \A r \in Requests : row'[<<"pay", r>>] = row[<<"pay", r>>] /\ row'[<<"refund", r>>] = row[<<"refund", r>>]
    BY <1>1, RowNames DEF Transfer, TypeOK
  <2> QED
    BY <2>1 DEF Booked
<1>2. ASSUME NEW k \in Rows, NEW c \in Customers, NEW v \in Int, Book(k, c, v),
             \A r \in Requests : k # <<"pay", r>> /\ k # <<"refund", r>>
      PROVE  Same
  <2>1. \A j \in Rows : Booked(j)' <=> Booked(j) \/ j = k
    BY <1>2, RowWritten
  <2> QED
    BY <1>2, <2>1, RowNames
<1>3. ASSUME NEW k \in Credits, Reverse(k)
      PROVE  Same
  <2>1. /\ <<"rev", k>> \in Rows /\ row[k].cust \in Customers /\ -row[k].amt \in Int
        /\ Book(<<"rev", k>>, row[k].cust, -row[k].amt)
    BY <1>3, ReverseNames DEF Debit
  <2> QED
    BY <1>2, <2>1
<1>4. ASSUME NEW o \in Orders, ConvertHold(o)
      PROVE  Same
  <2>1. hold[o] \in [cust: Customers, amt: Nat, status: {"active", "released", "converted"}]
    BY <1>4 DEF ConvertHold, Active, TypeOK, HoldType, NoHold
  <2>2. /\ <<"spent", o>> \in Rows /\ hold[o].cust \in Customers /\ -hold[o].amt \in Int
        /\ Book(<<"spent", o>>, hold[o].cust, -hold[o].amt)
    BY <1>4, <2>1, RowNames DEF ConvertHold
  <2> QED
    BY <1>2, <2>2
<1>5. ASSUME row' = row PROVE Same
  BY <1>5 DEF Booked
<1>6. ASSUME NEW m \in Screens, CommitMerge(m)
      PROVE  Same
  <2>1. PICK c \in Customers, e \in Customers : c = merging[m].from /\ e = merging[m].to
    BY <1>6 DEF CommitMerge, TypeOK, MergeType
  <2>2. row' = Moved(row, c, e) /\ hold' = Moved(hold, c, e)
    BY <1>6, <2>1 DEF CommitMerge, HoldsMoved
  <2> QED
    BY <2>2, RowsMoved, RowNames
<1>7. ASSUME NEW d \in Deposits, Unmatch(d) \/ RefuseUnmatch(d)
      PROVE  Same
  BY <1>3, <1>5, <1>7, RowNames DEF Unmatch, RefuseUnmatch
<1> HIDE DEF Same
<1>8. Same
  BY <1>1, <1>3, <1>4, <1>5, <1>6, <1>7
     DEF DeskMoves, ReverseDeposit, ReassignHold, EndHold, DropHold, BeginMerge, AbortMerge
<1> QED
  BY <1>8 DEF Same

LEMMA Prices == \A r \in Requests : Price[r] \in Int
<1>1. \A r \in Requests : Price[r] \in Amounts
  BY RequestsAssumption
<1>2. \A v \in Amounts : v \in Int
  BY WalletAssumption
<1> QED
  BY <1>1, <1>2

(* A desk's own payment or refund.                                         *)
LEMMA PayBooks ==
  ASSUME RequestInv, NEW d \in Desks, PayDebit(d)
  PROVE  \A r \in Requests : /\ Booked(<<"pay", r>>)' <=> Booked(<<"pay", r>>) \/ r = desk[d].req
                             /\ Booked(<<"refund", r>>)' <=> Booked(<<"refund", r>>)
<1> DEFINE q == desk[d].req
           c == desk[d].cust
<1>1. q \in Requests /\ c \in Customers
  BY DEF PayDebit, Busy, RequestInv, DesksFine, Fine
<1>2. Price[q] \in Int
  BY <1>1, Prices
<1>3. Book(<<"pay", q>>, c, -Price[q]) /\ -Price[q] \in Int
  BY <1>2 DEF PayDebit, Charge, Debit
<1>4. TypeOK /\ <<"pay", q>> \in Rows
  BY <1>1, RowNames DEF RequestInv, WalletInv
<1> HIDE DEF q, c
<1>5. \A j \in Rows : Booked(j)' <=> Booked(j) \/ j = <<"pay", q>>
  BY <1>1, <1>3, <1>4, RowWritten
<1> QED
  BY <1>5, RowNames DEF q

LEMMA RefundBooks ==
  ASSUME RequestInv, NEW d \in Desks, Refund(d)
  PROVE  \A r \in Requests : /\ Booked(<<"pay", r>>)' <=> Booked(<<"pay", r>>)
                             /\ Booked(<<"refund", r>>)' <=> Booked(<<"refund", r>>) \/ r = desk[d].req
<1> DEFINE q == desk[d].req
           c == desk[d].cust
<1>1. q \in Requests /\ c \in Customers
  BY DEF Refund, Busy, RequestInv, DesksFine, Fine
<1>2. Price[q] \in Int
  BY <1>1, Prices
<1>3. Book(<<"refund", q>>, c, Price[q])
  BY <1>2 DEF Refund, GiveBack, Credit
<1>4. TypeOK /\ <<"refund", q>> \in Rows
  BY <1>1, RowNames DEF RequestInv, WalletInv
<1> HIDE DEF q, c
<1>5. \A j \in Rows : Booked(j)' <=> Booked(j) \/ j = <<"refund", q>>
  BY <1>1, <1>2, <1>3, <1>4, RowWritten
<1> QED
  BY <1>5, RowNames DEF q

LEMMA ReviewedStays ==
  ASSUME RequestInv, [Next]_vars
  PROVE  \A r \in Requests : Reviewed(r) => Reviewed(r)'
<1>1. status \in [Requests -> Status]
  BY DEF RequestInv, TypeOKRequests
<1>2. ASSUME NEW q, NEW to \in {"Approved", "Rejected", "Cancelled", "Expired"}, status' = [status EXCEPT ![q] = to]
      PROVE  \A r \in Requests : Reviewed(r) => Reviewed(r)'
  BY <1>1, <1>2 DEF Reviewed
<1>3. CASE status' = status
  BY <1>3 DEF Reviewed
<1>4. ASSUME NEW q \in Requests, CreateRequest(q)
      PROVE  \A r \in Requests : Reviewed(r) => Reviewed(r)'
  BY <1>1, <1>4 DEF CreateRequest, Reviewed
<1>5. CASE RequestNext
  BY <1>2, <1>3, <1>4, <1>5
     DEF RequestNext, Withdraw, DayEnds, Review, Transition, UpdatePayment, UpdateCollection, OnlyDesk,
         BeginApprove, BeginPay, CancelLpg, BeginSweep, BeginExpireIfStale, TakeCylinders, FinishApprove,
         RefuseApprove, PayDebit, RefusePay, PayMark, BeginReturn, ReturnCylinders, Refund, RefundLost,
         MarkRefunded, SweepLocks, SweepSkips, ExpiryReads, ExpiryReturns, CommitExpiry, FinishEdit, Crash, BeginEdit
<1>6. CASE \/ DeskMoves /\ UNCHANGED reqVars
           \/ \E m \in Screens : MergeWithRequests(m)
           \/ UNCHANGED vars
  BY <1>3, <1>6 DEF reqVars, vars, MergeWithRequests
<1> QED
  BY <1>5, <1>6 DEF Next

LEMMA ApprovedStep == RequestInv /\ PaidWasApproved /\ [Next]_vars => PaidWasApproved'
<1> SUFFICES ASSUME RequestInv, PaidWasApproved, [Next]_vars PROVE PaidWasApproved'
  OBVIOUS
<1>1. \A r \in Requests : Reviewed(r) => Reviewed(r)'
  BY ReviewedStays
<1>2. /\ desk \in [Desks -> DeskType]
      /\ \A d \in Desks : desk[d].at = "paying" => desk[d].req \in Requests
  BY DEF RequestInv, TypeOKRequests, DeskType, DesksFine, Fine
(* Desks that are paying.                                                  *)
<1>3. ASSUME NEW d \in Desks, desk'[d].at = "paying",
             desk'[d] = desk[d] \/ (Reviewed(desk'[d].req) /\ desk'[d].req \in Requests)
      PROVE  Reviewed(desk[d].req)'
  <2>1. PICK q \in Requests : q = desk'[d].req /\ Reviewed(q)
    BY <1>2, <1>3 DEF PaidWasApproved
  <2>2. Reviewed(q)'
    BY <1>1, <2>1
  <2> QED
    BY <2>1, <2>2 DEF Reviewed
<1>4. ASSUME NEW d \in Desks, NEW c, Step(d, c), c.at # "paying"
      PROVE  \A x \in Desks : desk'[x].at = "paying" => desk'[x] = desk[x]
  BY <1>2, <1>4 DEF Step
<1>5. ASSUME NEW d \in Desks, NEW at, at # "paying", Then(d, at)
      PROVE  \A x \in Desks : desk'[x].at = "paying" => desk'[x] = desk[x]
  <2>1. desk[d] \in DeskType /\ desk' = [desk EXCEPT ![d] = [desk[d] EXCEPT !.at = at]]
    BY <1>2, <1>5 DEF Then, Step
  <2>2. [desk[d] EXCEPT !.at = at].at = at
    BY <2>1 DEF DeskType
  <2> QED
    BY <1>2, <1>5, <2>1, <2>2
<1>6. ASSUME NEW d \in Desks, NEW r \in Requests, BeginPay(d, r)
      PROVE  \A x \in Desks : desk'[x].at = "paying" => desk'[x] = desk[x] \/ (Reviewed(desk'[x].req) /\ desk'[x].req \in Requests)
  BY <1>2, <1>6 DEF BeginPay, Payable, Reviewed, Step, Idle
<1>7. ASSUME NEW d \in Desks, NEW r \in Requests, BeginApprove(d, r) \/ CancelLpg(d, r) \/ BeginSweep(d, r) \/ BeginExpireIfStale(d, r)
      PROVE  \A x \in Desks : desk'[x].at = "paying" => desk'[x] = desk[x]
  BY <1>4, <1>7 DEF BeginApprove, CancelLpg, BeginSweep, BeginExpireIfStale, Expiring, Idle, Resume, AfterReturn
<1>8. ASSUME NEW d \in Desks, \/ TakeCylinders(d) \/ PayDebit(d) \/ Refund(d) \/ RefundLost(d)
      PROVE  \A x \in Desks : desk'[x].at = "paying" => desk'[x] = desk[x]
  BY <1>5, <1>8 DEF TakeCylinders, PayDebit, Refund, RefundLost
<1>9. ASSUME NEW d \in Desks,
             \/ FinishApprove(d) \/ RefuseApprove(d) \/ RefusePay(d) \/ PayMark(d) \/ MarkRefunded(d)
             \/ SweepLocks(d) \/ SweepSkips(d) \/ CommitExpiry(d) \/ FinishEdit(d) \/ Crash(d)
             \/ \E n \in Shelves : BeginEdit(d, n)
      PROVE  \A x \in Desks : desk'[x].at = "paying" => desk'[x] = desk[x]
  BY <1>4, <1>9 DEF FinishApprove, RefuseApprove, RefusePay, PayMark, MarkRefunded, SweepLocks, SweepSkips,
                    CommitExpiry, FinishEdit, Crash, BeginEdit, Expiring, Idle
<1>10. ASSUME NEW d \in Desks, BeginReturn(d) \/ ExpiryReads(d) \/ ReturnCylinders(d) \/ ExpiryReturns(d)
       PROVE  \A x \in Desks : desk'[x].at = "paying" => desk'[x] = desk[x]
  <2>1. desk[d] \in DeskType
    BY <1>2
  <2>2. \E c : Step(d, c) /\ c.at # "paying"
    <3>1. ASSUME NEW k, NEW n, NEW at \in {"putting", "shelving"},
                 Step(d, [desk[d] EXCEPT !.at = at, !.slot = k, !.read = n])
          PROVE  <2>2
      <4>1. [desk[d] EXCEPT !.at = at, !.slot = k, !.read = n].at = at
        BY <2>1 DEF DeskType
      <4> QED
        BY <3>1, <4>1
    <3>2. CASE BeginReturn(d) \/ ExpiryReads(d)
      BY <3>1, <3>2 DEF BeginReturn, ExpiryReads
    <3>3. CASE ReturnCylinders(d)
      <4> DEFINE c == [desk[d] EXCEPT !.at = "refunding", !.slot = NoSlot, !.read = 0]
      <4>1. c.at = "refunding" /\ Idle.at = "idle"
        BY <2>1 DEF DeskType, Idle
      <4>2. Step(d, c) \/ Step(d, Idle)
        BY <3>3 DEF ReturnCylinders, Resume, AfterReturn
      <4> QED
        BY <4>1, <4>2
    <3>4. CASE ExpiryReturns(d)
      <4> DEFINE c == [desk[d] EXCEPT !.at = "expiring", !.paid = TRUE, !.slot = NoSlot, !.read = 0]
      <4>1. c.at = "expiring" /\ Step(d, c)
        BY <2>1, <3>4 DEF DeskType, ExpiryReturns
      <4> QED
        BY <4>1
    <3> QED
      BY <1>10, <3>2, <3>3, <3>4
  <2> QED
    BY <1>4, <2>2
<1>12. \A d \in Desks : desk'[d].at = "paying" => Reviewed(desk[d].req)'
  <2>1. CASE desk' = desk
    BY <1>3, <2>1
  <2>2. ASSUME NEW d \in Desks, NEW r \in Requests, BeginPay(d, r)
        PROVE  \A x \in Desks : desk'[x].at = "paying" => Reviewed(desk[x].req)'
    BY <1>3, <1>6, <2>2
  <2>3. CASE \A x \in Desks : desk'[x].at = "paying" => desk'[x] = desk[x]
    BY <1>3, <2>3
  <2>4. CASE \/ DeskMoves /\ UNCHANGED reqVars
             \/ \E m \in Screens : MergeWithRequests(m)
             \/ UNCHANGED vars
    BY <2>1, <2>4 DEF reqVars, vars, MergeWithRequests
  <2>5. CASE RequestNext
    <3>1. \/ desk' = desk \/ \E d \in Desks, r \in Requests : BeginPay(d, r)
          \/ \A x \in Desks : desk'[x].at = "paying" => desk'[x] = desk[x]
      BY <1>7, <1>8, <1>9, <1>10, <2>5
         DEF RequestNext, CreateRequest, Withdraw, DayEnds, Review, UpdatePayment, UpdateCollection
    <3> QED
      BY <2>1, <2>2, <2>3, <3>1
  <2> QED
    BY <2>4, <2>5 DEF Next
(* Payments that are booked.                                               *)
<1>13. ASSUME NEW r \in Requests, Booked(<<"pay", r>>)'
       PROVE  Reviewed(r)'
  <2>1. CASE Booked(<<"pay", r>>)
    BY <1>1, <2>1 DEF PaidWasApproved
  <2>2. ASSUME NEW d \in Desks, PayDebit(d), r = desk[d].req
        PROVE  Reviewed(r)'
    BY <1>1, <2>2 DEF PaidWasApproved, PayDebit, Busy
  <2>3. Booked(<<"pay", r>>) \/ \E d \in Desks : PayDebit(d) /\ r = desk[d].req
    <3>1. WalletInv
      BY DEF RequestInv
    <3>2. CASE (DeskMoves /\ UNCHANGED reqVars) \/ \E m \in Screens : MergeWithRequests(m)
      BY <1>13, <3>1, <3>2, DeskBooksNone DEF MergeWithRequests
    <3>3. CASE UNCHANGED walletVars
      BY <1>13, <3>3 DEF walletVars, Booked
    <3>4. ASSUME NEW d \in Desks, PayDebit(d) \/ Refund(d) PROVE <2>3
      BY <1>13, <3>4, PayBooks, RefundBooks
    <3>5. CASE RequestNext /\ ~\E d \in Desks : PayDebit(d) \/ Refund(d)
      BY <3>3, <3>5 DEF RequestNext, CreateRequest, Withdraw, DayEnds, Review, UpdatePayment, UpdateCollection,
              BeginApprove, BeginPay, CancelLpg, BeginSweep, BeginExpireIfStale, TakeCylinders, FinishApprove,
              RefuseApprove, RefusePay, PayMark, BeginReturn, ReturnCylinders, RefundLost, MarkRefunded,
              SweepLocks, SweepSkips, ExpiryReads, ExpiryReturns, CommitExpiry, FinishEdit, Crash, BeginEdit, OnlyDesk
    <3> QED
      BY <3>2, <3>3, <3>4, <3>5 DEF Next, vars
  <2> QED
    BY <2>1, <2>2, <2>3
<1> QED
  BY <1>12, <1>13 DEF PaidWasApproved

LEMMA ApprovedInit == InitRequests => PaidWasApproved
<1> SUFFICES ASSUME InitRequests PROVE PaidWasApproved
  OBVIOUS
<1>1. \A r \in Requests : ~Booked(<<"pay", r>>)
  <2>1. \A r \in Requests : <<"pay", r>> \in Rows /\ <<"pay", r>> \notin {"old"} \X Deposits
    BY RowNames
  <2>2. \A k \in Rows : Booked(k) <=> k \in {"old"} \X Deposits
    BY DEF InitRequests, Init
  <2> QED
    BY <2>1, <2>2
<1>2. \A d \in Desks : desk[d].at = "idle"
  BY DEF InitRequests, Idle
<1> QED
  BY <1>1, <1>2 DEF PaidWasApproved

(* A desk on the way to the refund of r.                                   *)
OnTheWay(c, r) == c.req = r /\ c.paid /\ c.at \in {"returning", "putting", "refunding"}

(* What may keep the money of r (KeepsMoneyOnlyByRace).                    *)
Excused(r) ==
  \/ Unmarked(r)
  \/ \E d \in Desks : desk[d].req = r /\ (CommitExpiry(d) \/ PayDebit(d) \/ Crash(d))
  \/ \E d \in Desks : desk[d].req = r /\ RefundLost(d) /\ desk[d].cust \notin alive

LEMMA KeepsStep ==
  ASSUME RequestInv, PaidWasApproved, [Next]_vars, NEW r \in Requests, ~Kept(r), Kept(r)'
  PROVE  Excused(r)
<1> SUFFICES ASSUME ~Excused(r) PROVE FALSE
  OBVIOUS
<1>1. /\ status \in [Requests -> Status] /\ desk \in [Desks -> DeskType] /\ WalletInv
      /\ pay[r] = "Paid"
  BY DEF RequestInv, TypeOKRequests, DeskType, Excused, Unmarked
<1>2. /\ status'[r] \in {"Rejected", "Cancelled", "Expired"} /\ Booked(<<"pay", r>>)' /\ ~Booked(<<"refund", r>>)'
      /\ \A d \in Desks : ~OnTheWay(desk'[d], r)
  BY DEF Kept, Ended, Refunding, OnTheWay
<1>3. status[r] \in {"Rejected", "Cancelled", "Expired"} /\ Booked(<<"pay", r>>) /\ ~Booked(<<"refund", r>>)
        => \E d \in Desks : OnTheWay(desk[d], r)
  BY DEF Kept, Ended, Refunding, OnTheWay
(* A step that leaves the request and its rows, with the desks on the way. *)
<1>4. ASSUME status'[r] = status[r],
             Booked(<<"pay", r>>)' <=> Booked(<<"pay", r>>), Booked(<<"refund", r>>)' <=> Booked(<<"refund", r>>),
             \A d \in Desks : OnTheWay(desk[d], r) => OnTheWay(desk'[d], r)
      PROVE  FALSE
  BY <1>2, <1>3, <1>4
<1>5. ASSUME row' = row, desk' = desk, status'[r] = status[r]
      PROVE  FALSE
  BY <1>4, <1>5 DEF Booked
<1>6. ASSUME NEW d \in Desks, NEW c, Step(d, c), OnTheWay(desk[d], r) => OnTheWay(c, r)
      PROVE  \A x \in Desks : OnTheWay(desk[x], r) => OnTheWay(desk'[x], r)
  BY <1>1, <1>6 DEF Step
<1>7. ASSUME NEW d \in Desks, NEW c, Step(d, c), OnTheWay(desk[d], r) => OnTheWay(c, r), status'[r] = status[r], row' = row
      PROVE  FALSE
  BY <1>4, <1>6, <1>7 DEF Booked
(* The request itself, and the steps without a desk.                       *)
<1>8. ASSUME NEW q \in Requests, CreateRequest(q) \/ DayEnds(q)
      PROVE  FALSE
  <2>1. row' = row /\ desk' = desk
    BY <1>8 DEF CreateRequest, DayEnds, walletVars
  <2>2. CASE status'[r] = status[r]
    BY <1>5, <2>1, <2>2
  <2>3. CASE status'[r] # status[r]
    BY <1>1, <1>2, <1>8, <2>3 DEF CreateRequest, DayEnds
  <2> QED
    BY <2>2, <2>3
<1>9. ASSUME NEW q \in Requests, NEW to \in {"Approved", "Rejected"}, Review(q, to)
      PROVE  FALSE
  <2>1. row' = row /\ desk' = desk /\ Legal(status[q], to) /\ status' = [status EXCEPT ![q] = to]
    BY <1>9 DEF Review, Transition, walletVars
  <2>2. CASE q # r
    BY <1>1, <1>5, <2>1, <2>2
  <2>3. CASE q = r
    <3>1. status[r] = "Pending Review"
      BY <1>9, <2>1, <2>3 DEF Legal
    <3>2. ~Booked(<<"pay", r>>)
      BY <3>1 DEF PaidWasApproved, Reviewed
    <3> QED
      BY <1>2, <2>1, <3>2 DEF Booked
  <2> QED
    BY <2>2, <2>3
<1>10. ASSUME NEW q \in Requests, Withdraw(q)
       PROVE  FALSE
  <2>1. q # r
    BY <1>1, <1>10 DEF Withdraw, Withdrawable
  <2> QED
    BY <1>1, <1>5, <1>10, <2>1 DEF Withdraw, walletVars
<1>11. ASSUME NEW q \in Requests,
              (\E v \in {"Paid", "Unpaid"} : UpdatePayment(q, v)) \/ \E gone \in BOOLEAN : UpdateCollection(q, gone)
       PROVE  FALSE
  BY <1>5, <1>11 DEF UpdatePayment, UpdateCollection, walletVars
<1>12. ASSUME (DeskMoves /\ UNCHANGED reqVars) \/ \E m \in Screens : MergeWithRequests(m)
       PROVE  FALSE
  <2>1. DeskMoves \/ \E m \in Screens : CommitMerge(m)
    BY <1>12 DEF MergeWithRequests
  <2>2. desk' = desk /\ status' = status
    BY <1>12 DEF MergeWithRequests, reqVars
  <2> QED
    BY <1>1, <1>4, <2>1, <2>2, DeskBooksNone
(* A cancellation: of r it sets out for the refund.                        *)
<1>13. ASSUME NEW d \in Desks, NEW q \in Requests, CancelLpg(d, q)
       PROVE  FALSE
  <2> DEFINE c(at) == [[Idle EXCEPT !.req = q, !.cust = owner[q], !.paid = Refundable(q)] EXCEPT !.at = at]
  <2>1. desk[d] = Idle /\ row' = row
    BY <1>13 DEF CancelLpg, Free, walletVars
  <2>a. [Idle EXCEPT !.req = q, !.cust = owner[q], !.paid = Refundable(q)].paid = Refundable(q)
    BY DEF Idle
  <2>2. PICK s : Step(d, s) /\ (s = c("returning") \/ s = c("refunding") \/ (s = Idle /\ ~Refundable(q)))
    BY <1>13, <2>a DEF CancelLpg, Resume, AfterReturn
  <2>3. CASE q # r
    <3>1. status'[r] = status[r] /\ ~OnTheWay(desk[d], r)
      BY <1>1, <1>13, <2>1, <2>3 DEF CancelLpg, Transition, OnTheWay, Idle
    <3> QED
      BY <1>7, <2>1, <2>2, <3>1
  <2>4. CASE q = r
    <3>1. Refundable(q)
      BY <1>1, <2>4 DEF Refundable
    <3>2. OnTheWay(s, r)
      <4>1. \A at \in {"returning", "refunding"} : c(at).at = at /\ c(at).req = q /\ c(at).paid = Refundable(q)
        BY DEF Idle
      <4> QED
        BY <2>2, <2>4, <3>1, <4>1 DEF OnTheWay
    <3>3. desk'[d] = s
      BY <1>1, <2>2 DEF Step
    <3> QED
      BY <1>2, <3>2, <3>3
  <2> QED
    BY <2>3, <2>4
(* Desks that are not on the way to a refund.                              *)
<1>14. ASSUME NEW d \in Desks, NEW c, Step(d, c), desk[d].at \notin {"returning", "putting", "refunding"},
              status'[r] = status[r], row' = row
       PROVE  FALSE
  BY <1>7, <1>14 DEF OnTheWay
<1>15. Idle.at = "idle"
  BY DEF Idle
<1>16. ASSUME NEW d \in Desks, NEW q \in Requests,
              BeginApprove(d, q) \/ BeginPay(d, q) \/ BeginSweep(d, q) \/ BeginExpireIfStale(d, q)
       PROVE  FALSE
  BY <1>14, <1>15, <1>16 DEF BeginApprove, BeginPay, BeginSweep, BeginExpireIfStale, Free, OnlyDesk, walletVars
<1>17. ASSUME NEW d \in Desks,
              \/ TakeCylinders(d) \/ RefuseApprove(d) \/ RefusePay(d) \/ PayMark(d) \/ MarkRefunded(d)
              \/ SweepLocks(d) \/ SweepSkips(d) \/ ExpiryReads(d) \/ ExpiryReturns(d) \/ FinishEdit(d)
              \/ \E n \in Shelves : BeginEdit(d, n)
       PROVE  FALSE
  BY <1>14, <1>15, <1>17
     DEF TakeCylinders, RefuseApprove, RefusePay, PayMark, MarkRefunded, SweepLocks, SweepSkips, ExpiryReads,
         ExpiryReturns, FinishEdit, BeginEdit, Busy, Free, Then, OnlyDesk, walletVars
<1>18. ASSUME NEW d \in Desks, FinishApprove(d) \/ CommitExpiry(d)
       PROVE  FALSE
  <2>1. CASE desk[d].req # r
    <3>1. status'[r] = status[r]
      BY <1>1, <1>18, <2>1 DEF FinishApprove, CommitExpiry, Transition
    <3> QED
      BY <1>14, <1>18, <3>1 DEF FinishApprove, CommitExpiry, Busy, walletVars
  <2>2. CASE desk[d].req = r
    <3>1. FinishApprove(d)
      BY <1>18, <2>2 DEF Excused
    <3>2. status'[r] = "Approved"
      BY <1>1, <2>2, <3>1 DEF FinishApprove, Transition
    <3> QED
      BY <1>2, <3>2
  <2> QED
    BY <2>1, <2>2
<1>19. ASSUME NEW d \in Desks, PayDebit(d)
       PROVE  FALSE
  <2>1. desk[d].req # r
    BY <1>19 DEF Excused
  <2>2. desk[d].at = "paying" /\ \E c : Step(d, c)
    BY <1>19 DEF PayDebit, Busy, Then
  <2>3. \A x \in Desks : OnTheWay(desk[x], r) => OnTheWay(desk'[x], r)
    BY <1>6, <2>1, <2>2 DEF OnTheWay
  <2> QED
    BY <1>4, <1>19, <2>1, <2>3, PayBooks DEF PayDebit
(* Desks that are: the way goes on, or ends in the refund.                 *)
<1>20. ASSUME NEW d \in Desks, BeginReturn(d)
       PROVE  FALSE
  <2>1. PICK k : Step(d, [desk[d] EXCEPT !.at = "putting", !.slot = k, !.read = ReadShelf(k).read])
    BY <1>20 DEF BeginReturn
  <2> DEFINE c == [desk[d] EXCEPT !.at = "putting", !.slot = k, !.read = ReadShelf(k).read]
  <2>2. c.at = "putting" /\ c.req = desk[d].req /\ c.paid = desk[d].paid
    BY <1>1 DEF DeskType
  <2>3. OnTheWay(desk[d], r) => OnTheWay(c, r)
    BY <2>2 DEF OnTheWay
  <2> HIDE DEF c
  <2> QED
    BY <1>7, <1>20, <2>1, <2>3 DEF BeginReturn, OnlyDesk, walletVars, c
<1>21. ASSUME NEW d \in Desks, ReturnCylinders(d)
       PROVE  FALSE
  <2> DEFINE c == [desk[d] EXCEPT !.at = "refunding", !.slot = NoSlot, !.read = 0]
  <2>1. \/ desk[d].paid /\ Step(d, c)
        \/ ~desk[d].paid /\ Step(d, Idle)
    BY <1>1, <1>21 DEF ReturnCylinders, Resume, AfterReturn, DeskType
  <2>2. c.at = "refunding" /\ c.req = desk[d].req /\ c.paid = desk[d].paid
    BY <1>1 DEF DeskType
  <2>3. \E s : Step(d, s) /\ (OnTheWay(desk[d], r) => OnTheWay(s, r))
    BY <2>1, <2>2 DEF OnTheWay
  <2> HIDE DEF c
  <2> QED
    BY <1>7, <1>21, <2>3 DEF ReturnCylinders, walletVars
<1>22. ASSUME NEW d \in Desks, Refund(d) \/ RefundLost(d) \/ Crash(d), desk[d].req # r
       PROVE  FALSE
  <2>1. ~OnTheWay(desk[d], r) /\ \E c : Step(d, c)
    BY <1>22 DEF OnTheWay, Refund, RefundLost, Crash, Then
  <2>2. \A x \in Desks : OnTheWay(desk[x], r) => OnTheWay(desk'[x], r)
    BY <1>6, <2>1
  <2>3. CASE Refund(d)
    BY <1>4, <1>22, <2>2, <2>3, RefundBooks DEF Refund
  <2>4. CASE RefundLost(d) \/ Crash(d)
    BY <1>4, <2>2, <2>4 DEF RefundLost, Crash, OnlyDesk, walletVars, Booked
  <2> QED
    BY <1>22, <2>3, <2>4
<1>23. ASSUME NEW d \in Desks, Refund(d) \/ RefundLost(d) \/ Crash(d), desk[d].req = r
       PROVE  FALSE
  <2>1. ~Crash(d)
    BY <1>23 DEF Excused
  <2>2. CASE Refund(d)
    BY <1>2, <1>23, <2>2, RefundBooks
  <2>3. CASE RefundLost(d)
    <3>1. Booked(<<"refund", r>>)
      BY <1>23, <2>3 DEF Excused, RefundLost
    <3> QED
      BY <1>2, <2>3, <3>1 DEF RefundLost, OnlyDesk, walletVars, Booked
  <2> QED
    BY <1>23, <2>1, <2>2, <2>3
<1>24. CASE UNCHANGED vars
  BY <1>5, <1>24 DEF vars, walletVars, reqVars
<1> QED
  BY <1>8, <1>9, <1>10, <1>11, <1>12, <1>13, <1>16, <1>17, <1>18, <1>19, <1>20, <1>21, <1>22, <1>23, <1>24
     DEF Next, RequestNext

(* A request that was paid from the wallet ends with its money on the way  *)
(* back: cancelLpgOrderRequest, against every desk, sweep, merge and crash *)
(* but the races the property names.                                       *)
THEOREM MoneyComesBack == Spec => KeepsMoneyOnlyByRace
<1> DEFINE Inv == RequestInv /\ PaidWasApproved
           Keeps == \A r \in Requests : ~Kept(r) /\ Kept(r)' => Excused(r)
<1>1. InitRequests => Inv
  BY RequestsInit, ApprovedInit
<1>2. Inv /\ [Next]_vars => Inv'
  BY RequestsStep, ApprovedStep
<1>3. Inv /\ [Next]_vars => [Keeps]_vars
  BY KeepsStep
<1> HIDE DEF Inv, Keeps
<1>4. Spec => [][Keeps]_vars
  BY <1>1, <1>2, <1>3, PTL DEF Spec
<1> QED
  BY <1>4 DEF KeepsMoneyOnlyByRace, Keeps, Excused

-----------------------------------------------------------------------------
(* The cylinders.  What a desk has in hand is of an LPG request; what it   *)
(* has read of the shelf is a quantity; and an expiry holds the row of an  *)
(* approved request, alone, until it commits.                              *)
Handles(c) ==
  /\ c.at \in {"taking", "approving", "returning", "putting", "shelving"} => c.req \in Lpg
  /\ c.at = "expiring" /\ c.paid => c.req \in Lpg
  /\ c.at \in {"putting", "shelving"} /\ c.slot # NoSlot => c.read > 0
Holds(c) == c.at \in {"expiring", "shelving"}
HandsFit   == \A d \in Desks : Handles(desk[d])
LocksFit   == \A d \in Desks : Holds(desk[d]) => status[desk[d].req] = "Approved"
LocksApart == \A d, e \in Desks : Holds(desk[d]) /\ Holds(desk[e]) /\ desk[d].req = desk[e].req => d = e
CylinderInv == HandsFit /\ LocksFit /\ LocksApart

(* The terms of the three sums.                                            *)
Quantity(n)  == IF n > 0 THEN n ELSE 0
Wanted(r, s) == IF r \in Lpg /\ s = "Approved" THEN Need[r] ELSE 0
Carried      == SumFunctionOnSet([d \in Desks |-> InHand(desk[d])], Desks)

LEMMA Needs == \A r \in Requests : Need[r] \in Nat /\ Need[r] > 0 /\ Need[r] \in Int
BY RequestsAssumption

LEMMA InHandIsInt ==
  ASSUME NEW c \in DeskType, Fine(c)
  PROVE  InHand(c) \in Int
<1>1. \A r \in Requests : Need[r] \in Int
  BY Needs
<1> QED
  BY <1>1 DEF Fine, InHand

LEMMA DesksTyped ==
  ASSUME RequestInv
  PROVE  /\ desk \in [Desks -> DeskType]
         /\ \A d \in Desks : desk[d] \in DeskType /\ Fine(desk[d]) /\ InHand(desk[d]) \in Int
<1>1. desk \in [Desks -> DeskType] /\ \A d \in Desks : desk[d] \in DeskType /\ Fine(desk[d])
  BY DEF RequestInv, TypeOKRequests, DeskType, DesksFine
<1> QED
  BY <1>1, InHandIsInt

LEMMA ShelfChanges ==
  ASSUME shelf \in [Slots -> Nat \cup {Gone}], NEW k \in Slots, NEW n \in Nat \cup {Gone},
         shelf' = [shelf EXCEPT ![k] = n]
  PROVE  OnHand' = OnHand + (Quantity(n) - Quantity(shelf[k]))
<1> DEFINE f == [j \in Slots |-> IF shelf[j] > 0 THEN shelf[j] ELSE 0]
           e == [j \in Slots |-> IF shelf'[j] > 0 THEN shelf'[j] ELSE 0]
<1>1. \A j \in Slots : f[j] \in Int
  BY DEF Gone
<1>2. f[k] = Quantity(shelf[k]) /\ e[k] = Quantity(n) /\ e[k] \in Int
  BY DEF Gone, Quantity
<1>3. \A j \in Slots \ {k} : e[j] = f[j]
  OBVIOUS
<1>4. OnHand = SumFunctionOnSet(f, Slots) /\ OnHand' = SumFunctionOnSet(e, Slots)
  BY DEF OnHand
<1>5. IsFiniteSet(Slots)
  BY RequestsAssumption
<1> HIDE DEF f, e
<1> QED
  BY <1>1, <1>2, <1>3, <1>4, <1>5, SumChange

LEMMA StatusChanges ==
  ASSUME status \in [Requests -> Status], NEW r \in Requests, NEW s \in Status,
         status' = [status EXCEPT ![r] = s]
  PROVE  Reserved' = Reserved + (Wanted(r, s) - Wanted(r, status[r]))
<1> DEFINE f == [q \in Requests |-> IF q \in Lpg /\ status[q] = "Approved" THEN Need[q] ELSE 0]
           e == [q \in Requests |-> IF q \in Lpg /\ status'[q] = "Approved" THEN Need[q] ELSE 0]
<1>1. \A q \in Requests : Need[q] \in Int
  BY Needs
<1>2. \A q \in Requests : f[q] \in Int
  BY <1>1
<1>3. f[r] = Wanted(r, status[r]) /\ e[r] = Wanted(r, s) /\ e[r] \in Int
  BY <1>1 DEF Wanted
<1>4. \A q \in Requests \ {r} : e[q] = f[q]
  OBVIOUS
<1>5. Reserved = SumFunctionOnSet(f, Requests) /\ Reserved' = SumFunctionOnSet(e, Requests)
  BY DEF Reserved
<1>6. IsFiniteSet(Requests)
  BY WalletAssumption
<1> HIDE DEF f, e
<1> QED
  BY <1>2, <1>3, <1>4, <1>5, <1>6, SumChange

LEMMA HandChanges ==
  ASSUME RequestInv, RequestInv', NEW d \in Desks, \A x \in Desks \ {d} : desk'[x] = desk[x]
  PROVE  Carried' = Carried + (InHand(desk'[d]) - InHand(desk[d]))
<1> DEFINE f == [x \in Desks |-> InHand(desk[x])]
           e == [x \in Desks |-> InHand(desk'[x])]
<1>1. \A x \in Desks : f[x] \in Int
  BY DesksTyped
<1>2. desk'[d] \in DeskType /\ Fine(desk'[d])
  BY DEF RequestInv, TypeOKRequests, DeskType, DesksFine, Fine
<1>3. f[d] = InHand(desk[d]) /\ e[d] = InHand(desk'[d]) /\ e[d] \in Int
  BY <1>2, InHandIsInt
<1>4. \A x \in Desks \ {d} : e[x] = f[x]
  OBVIOUS
<1>5. Carried = SumFunctionOnSet(f, Desks) /\ Carried' = SumFunctionOnSet(e, Desks)
  BY DEF Carried, InHand
<1>6. IsFiniteSet(Desks)
  BY RequestsAssumption
<1> HIDE DEF f, e
<1> QED
  BY <1>1, <1>3, <1>4, <1>5, <1>6, SumChange

LEMMA SumsAreInts ==
  ASSUME RequestInv
  PROVE  /\ OnHand \in Int /\ Reserved \in Int /\ Carried \in Int
         /\ Accounted = OnHand + Reserved + Carried
<1>1. shelf \in [Slots -> Nat \cup {Gone}] /\ IsFiniteSet(Slots) /\ IsFiniteSet(Requests) /\ IsFiniteSet(Desks)
  BY RequestsAssumption, WalletAssumption DEF RequestInv, TypeOKRequests
<1>2. OnHand \in Int
  <2> DEFINE f == [j \in Slots |-> IF shelf[j] > 0 THEN shelf[j] ELSE 0]
  <2>1. \A j \in Slots : f[j] \in Int
    BY <1>1 DEF Gone
  <2> HIDE DEF f
  <2> QED
    BY <1>1, <2>1, SumType DEF OnHand, f
<1>3. Reserved \in Int
  <2> DEFINE f == [q \in Requests |-> IF q \in Lpg /\ status[q] = "Approved" THEN Need[q] ELSE 0]
  <2>1. \A q \in Requests : f[q] \in Int
    BY RequestsAssumption
  <2> HIDE DEF f
  <2> QED
    BY <1>1, <2>1, SumType DEF Reserved, f
<1>4. Carried \in Int
  <2> DEFINE f == [x \in Desks |-> InHand(desk[x])]
  <2>1. \A x \in Desks : f[x] \in Int
    BY DesksTyped
  <2> HIDE DEF f
  <2> QED
    BY <1>1, <2>1, SumType DEF Carried, f
<1> QED
  BY <1>2, <1>3, <1>4 DEF Accounted, Carried

(* What leaves one of the three goes to another.                           *)
LEMMA NothingLost ==
  ASSUME RequestInv, RequestInv', NEW a \in Int, NEW b \in Int, NEW c \in Int, a + b + c = 0,
         OnHand' = OnHand + a, Reserved' = Reserved + b, Carried' = Carried + c
  PROVE  Accounted' = Accounted
<1>1. /\ OnHand \in Int /\ Reserved \in Int /\ Carried \in Int
      /\ Accounted = OnHand + Reserved + Carried
  BY SumsAreInts
<1>2. Accounted' = OnHand' + Reserved' + Carried'
  BY DEF Accounted, Carried
<1> QED
  BY <1>1, <1>2

LEMMA ShelfStays == ASSUME UNCHANGED shelf PROVE OnHand' = OnHand
BY DEF OnHand
LEMMA StatusStays == ASSUME UNCHANGED status PROVE Reserved' = Reserved
BY DEF Reserved
LEMMA HandStays == ASSUME UNCHANGED desk PROVE Carried' = Carried
BY DEF Carried, InHand

(* A desk with nothing in hand that holds no row.                          *)
Loose(c) == c.at \notin {"taking", "approving", "returning", "putting", "expiring", "shelving"}

(* The desk is the one whose step this is.                                 *)
Moves(d, c) == desk'[d] = c /\ \A x \in Desks \ {d} : desk'[x] = desk[x]

LEMMA StepMoves ==
  ASSUME RequestInv, NEW d \in Desks, NEW c, Step(d, c)
  PROVE  Moves(d, c)
BY DesksTyped DEF Step, Moves

(* What the fields of a desk are after its step.                           *)
Reads(c, at, r, p, k, n) == c.at = at /\ c.req = r /\ c.paid = p /\ c.slot = k /\ c.read = n

LEMMA Fields ==
  ASSUME NEW c \in DeskType, NEW at, NEW p, NEW k, NEW n
  PROVE  /\ Reads([c EXCEPT !.at = at], at, c.req, c.paid, c.slot, c.read)
         /\ Reads([c EXCEPT !.at = at, !.slot = k, !.read = n], at, c.req, c.paid, k, n)
         /\ Reads([c EXCEPT !.at = at, !.paid = p, !.slot = k, !.read = n], at, c.req, p, k, n)
         /\ Reads([[c EXCEPT !.slot = k, !.read = n] EXCEPT !.at = at], at, c.req, c.paid, k, n)
<1>1. Reads([c EXCEPT !.at = at], at, c.req, c.paid, c.slot, c.read)
  BY DEF DeskType, Reads
<1>2. Reads([c EXCEPT !.at = at, !.slot = k, !.read = n], at, c.req, c.paid, k, n)
  BY DEF DeskType, Reads
<1>3. Reads([c EXCEPT !.at = at, !.paid = p, !.slot = k, !.read = n], at, c.req, p, k, n)
  BY DEF DeskType, Reads
<1>4. Reads([[c EXCEPT !.slot = k, !.read = n] EXCEPT !.at = at], at, c.req, c.paid, k, n)
  <2> DEFINE e == [c EXCEPT !.slot = k, !.read = n]
  <2>1. /\ Reads(e, c.at, c.req, c.paid, k, n)
        /\ DOMAIN e = {"at", "req", "cust", "paid", "slot", "read"}
    BY DEF DeskType, Reads
  <2> HIDE DEF e
  <2>2. Reads([e EXCEPT !.at = at], at, e.req, e.paid, e.slot, e.read)
    BY <2>1 DEF Reads
  <2> QED
    BY <2>1, <2>2 DEF Reads, e
<1> QED
  BY <1>1, <1>2, <1>3, <1>4

(* The other desks keep what they hold; this one holds no row, the row it  *)
(* held, or one that nobody did.                                           *)
LEMMA DeskGoesOn ==
  ASSUME CylinderInv, NEW d \in Desks, NEW c, Moves(d, c), Handles(c),
         Holds(c) => /\ status'[c.req] = "Approved"
                     /\ (Holds(desk[d]) /\ desk[d].req = c.req) \/ ~Locked(c.req),
         \A x \in Desks \ {d} : Holds(desk[x]) => status'[desk[x].req] = status[desk[x].req]
  PROVE  CylinderInv'
<1>1. \A x \in Desks : Handles(desk'[x])
  BY DEF CylinderInv, HandsFit, Moves
<1>2. ASSUME NEW x \in Desks, Holds(desk'[x])
      PROVE  status'[desk'[x].req] = "Approved"
  BY <1>2 DEF CylinderInv, LocksFit, Moves
<1>3. ASSUME NEW x \in Desks, NEW y \in Desks, Holds(desk'[x]), Holds(desk'[y]), desk'[x].req = desk'[y].req
      PROVE  x = y
  <2>1. ASSUME NEW z \in Desks \ {d}, Holds(desk[z]), Holds(c), desk[z].req = c.req
        PROVE  FALSE
    BY <2>1 DEF CylinderInv, LocksApart, Locked, Holds
  <2> QED
    BY <1>3, <2>1 DEF CylinderInv, LocksApart, Moves
<1> QED
  BY <1>1, <1>2, <1>3 DEF CylinderInv, HandsFit, LocksFit, LocksApart, Handles, Holds

LEMMA LooseGoesOn ==
  ASSUME CylinderInv, NEW d \in Desks, NEW c, Moves(d, c), Loose(c),
         \A x \in Desks \ {d} : Holds(desk[x]) => status'[desk[x].req] = status[desk[x].req]
  PROVE  CylinderInv'
<1>1. Handles(c) /\ ~Holds(c)
  BY DEF Loose, Handles, Holds
<1> QED
  BY <1>1, DeskGoesOn

LEMMA DesksStay ==
  ASSUME CylinderInv, UNCHANGED desk, \A x \in Desks : Holds(desk[x]) => status'[desk[x].req] = status[desk[x].req]
  PROVE  CylinderInv'
BY DEF CylinderInv, HandsFit, LocksFit, LocksApart, Handles, Holds

(* No row that is held is written by anyone but its holder.                *)
LEMMA HeldStatus ==
  ASSUME RequestInv, CylinderInv, NEW r \in Requests, NEW s, status' = [status EXCEPT ![r] = s],
         ~Locked(r) \/ status[r] # "Approved"
  PROVE  \A x \in Desks : Holds(desk[x]) => status'[desk[x].req] = status[desk[x].req]
<1> SUFFICES ASSUME NEW x \in Desks, Holds(desk[x]) PROVE status'[desk[x].req] = status[desk[x].req]
  OBVIOUS
<1>1. status \in [Requests -> Status]
  BY DEF RequestInv, TypeOKRequests
<1>2. status[desk[x].req] = "Approved" /\ Locked(desk[x].req)
  BY DEF CylinderInv, LocksFit, Holds, Locked
<1> QED
  BY <1>1, <1>2

LEMMA IdleFields == Reads(Idle, "idle", NoOne, FALSE, NoSlot, 0) /\ Loose(Idle)
BY DEF Idle, Reads, Loose

(* A desk that is done, refused or gone, or that begins what no cylinder   *)
(* is in.                                                                  *)
LooseStep(d) ==
  \/ RefuseApprove(d) \/ RefusePay(d) \/ SweepSkips(d) \/ Crash(d) \/ PayMark(d) \/ MarkRefunded(d) \/ FinishEdit(d)
  \/ PayDebit(d) \/ Refund(d) \/ RefundLost(d)
  \/ \E r \in Requests : BeginPay(d, r) \/ BeginSweep(d, r)
  \/ \E n \in Shelves : BeginEdit(d, n)

LEMMA LooseMoves ==
  ASSUME RequestInv, NEW d \in Desks, LooseStep(d)
  PROVE  UNCHANGED status /\ \E c : Moves(d, c) /\ Loose(c)
<1>1. desk[d] \in DeskType /\ Idle \in DeskType
  BY DesksTyped, IdleFine
<1>2. ASSUME Step(d, Idle) PROVE \E c : Moves(d, c) /\ Loose(c)
  BY <1>2, StepMoves, IdleFields
<1>3. ASSUME NEW at \in {"marking", "closing"}, Then(d, at) PROVE \E c : Moves(d, c) /\ Loose(c)
  <2> DEFINE c == [desk[d] EXCEPT !.at = at]
  <2>1. c.at = at
    BY <1>1, Fields DEF Reads
  <2>2. Moves(d, c)
    BY <1>3, StepMoves DEF Then
  <2> QED
    BY <2>1, <2>2 DEF Loose
<1>4. ASSUME NEW r \in Requests, BeginPay(d, r) \/ BeginSweep(d, r)
      PROVE  \E c : Moves(d, c) /\ Loose(c)
  <2> DEFINE e == [Idle EXCEPT !.at = "paying", !.req = r, !.cust = owner[r]]
             c == [Idle EXCEPT !.at = "swept", !.req = r]
  <2>1. Loose(e) /\ Loose(c)
    BY DEF Idle, Loose
  <2>2. Step(d, e) \/ Step(d, c)
    BY <1>4 DEF BeginPay, BeginSweep
  <2> HIDE DEF e, c
  <2> QED
    BY <2>1, <2>2, StepMoves
<1>5. ASSUME NEW n \in Shelves, BeginEdit(d, n)
      PROVE  \E c : Moves(d, c) /\ Loose(c)
  <2> DEFINE c == [Idle EXCEPT !.at = "typing", !.read = n]
  <2>1. Loose(c) /\ Step(d, c)
    BY <1>5 DEF Idle, Loose, BeginEdit
  <2> HIDE DEF c
  <2> QED
    BY <2>1, StepMoves
<1>6. UNCHANGED status
  BY DEF LooseStep, RefuseApprove, RefusePay, SweepSkips, Crash, PayMark, MarkRefunded, FinishEdit,
         PayDebit, Refund, RefundLost, BeginPay, BeginSweep, BeginEdit, OnlyDesk
<1> QED
  BY <1>2, <1>3, <1>4, <1>5, <1>6
     DEF LooseStep, RefuseApprove, RefusePay, SweepSkips, Crash, PayMark, MarkRefunded, FinishEdit,
         PayDebit, Refund, RefundLost

(* An approval and its cylinders.                                          *)
LEMMA TakingFields ==
  ASSUME RequestInv, NEW d \in Desks, NEW r \in Requests, BeginApprove(d, r)
  PROVE  \E k \in OnShelf : \E c :
           /\ Moves(d, c) /\ Reads(c, "taking", r, FALSE, k, shelf[k])
           /\ desk[d] = Idle /\ r \in Lpg /\ UNCHANGED <<status, shelf>>
<1>1. PICK k \in OnShelf : Step(d, [Idle EXCEPT !.at = "taking", !.req = r, !.slot = k, !.read = shelf[k]])
  BY DEF BeginApprove
<1> DEFINE c == [Idle EXCEPT !.at = "taking", !.req = r, !.slot = k, !.read = shelf[k]]
<1>2. Reads(c, "taking", r, FALSE, k, shelf[k])
  BY DEF Idle, Reads
<1> HIDE DEF c
<1>3. Moves(d, c)
  BY <1>1, StepMoves DEF c
<1> QED
  BY <1>2, <1>3 DEF BeginApprove, Free, OnlyDesk

LEMMA TakenFields ==
  ASSUME RequestInv, NEW d \in Desks, TakeCylinders(d)
  PROVE  \E c : /\ Moves(d, c)
                /\ Reads(c, "approving", desk[d].req, desk[d].paid, desk[d].slot, desk[d].read)
                /\ desk[d].at = "taking" /\ UNCHANGED status
BY DesksTyped, Fields, StepMoves DEF TakeCylinders, Then, Busy

LEMMA CancelFields ==
  ASSUME RequestInv, NEW d \in Desks, NEW r \in Requests, CancelLpg(d, r)
  PROVE  \E c : /\ Moves(d, c) /\ r \in Lpg /\ desk[d] = Idle
                /\ IF status[r] = "Approved" THEN Reads(c, "returning", r, c.paid, NoSlot, 0) ELSE Loose(c)
                /\ ~Locked(r) /\ status' = [status EXCEPT ![r] = "Cancelled"]
                /\ status[r] \in {"Pending Review", "Approved"} /\ UNCHANGED shelf
<1> DEFINE e(at) == [at |-> at, req |-> r, cust |-> owner[r], paid |-> Refundable(r), slot |-> NoSlot, read |-> 0]
<1>1. IF status[r] = "Approved" THEN Step(d, e("returning")) ELSE Step(d, e("refunding")) \/ Step(d, Idle)
  BY DEF CancelLpg, Resume, AfterReturn, HadCylinders, Idle
<1>2. Loose(e("refunding")) /\ Reads(e("returning"), "returning", r, e("returning").paid, NoSlot, 0)
  BY DEF Loose, Reads
<1> HIDE DEF e
<1>3. \E c : /\ Moves(d, c)
             /\ IF status[r] = "Approved" THEN Reads(c, "returning", r, c.paid, NoSlot, 0) ELSE Loose(c)
  BY <1>1, <1>2, StepMoves, IdleFields
<1> QED
  BY <1>3 DEF CancelLpg, Transition, Legal, Free

(* Cylinders that go back: the shelf is read, then written.                *)
LEMMA ReadFields ==
  ASSUME RequestInv, NEW d \in Desks, BeginReturn(d) \/ ExpiryReads(d)
  PROVE  \E k, n, c : /\ Moves(d, c) /\ UNCHANGED <<status, shelf>>
                      /\ k # NoSlot => k \in Slots /\ n > 0
                      /\ \/ desk[d].at = "returning" /\ Reads(c, "putting", desk[d].req, desk[d].paid, k, n)
                         \/ /\ desk[d].at = "expiring" /\ ~desk[d].paid /\ desk[d].req \in Lpg
                            /\ Reads(c, "shelving", desk[d].req, FALSE, k, n)
<1>1. desk[d] \in DeskType
  BY DesksTyped
<1>2. PICK k \in ShelfSeen :
        \/ BeginReturn(d) /\ Step(d, [desk[d] EXCEPT !.at = "putting", !.slot = k, !.read = ReadShelf(k).read])
        \/ ExpiryReads(d) /\ Step(d, [desk[d] EXCEPT !.at = "shelving", !.slot = k, !.read = ReadShelf(k).read])
  BY DEF BeginReturn, ExpiryReads
<1>3. k # NoSlot => k \in Slots /\ ReadShelf(k).read > 0
  BY DEF ShelfSeen, OnShelf, ReadShelf
<1>4. UNCHANGED <<status, shelf>>
  BY DEF BeginReturn, ExpiryReads, OnlyDesk
<1> DEFINE n == ReadShelf(k).read
<1> HIDE DEF n
<1>5. CASE BeginReturn(d) /\ Step(d, [desk[d] EXCEPT !.at = "putting", !.slot = k, !.read = n])
  <2> DEFINE c == [desk[d] EXCEPT !.at = "putting", !.slot = k, !.read = n]
  <2>1. Moves(d, c) /\ Reads(c, "putting", desk[d].req, desk[d].paid, k, n)
    BY <1>1, <1>5, Fields, StepMoves
  <2> HIDE DEF c
  <2> QED
    BY <1>3, <1>4, <1>5, <2>1 DEF BeginReturn, Busy, n
<1>6. CASE ExpiryReads(d) /\ Step(d, [desk[d] EXCEPT !.at = "shelving", !.slot = k, !.read = n])
  <2> DEFINE c == [desk[d] EXCEPT !.at = "shelving", !.slot = k, !.read = n]
  <2>1. Moves(d, c) /\ Reads(c, "shelving", desk[d].req, desk[d].paid, k, n)
    BY <1>1, <1>6, Fields, StepMoves
  <2>2. desk[d].at = "expiring" /\ desk[d].paid = FALSE /\ desk[d].req \in Lpg
    BY <1>1, <1>6 DEF ExpiryReads, Busy, DeskType
  <2> HIDE DEF c
  <2> QED
    BY <1>3, <1>4, <1>6, <2>1, <2>2 DEF n
<1> QED
  BY <1>2, <1>5, <1>6 DEF n

LEMMA BackFields ==
  ASSUME RequestInv, NEW d \in Desks, ReturnCylinders(d) \/ ExpiryReturns(d)
  PROVE  \E c : /\ Moves(d, c) /\ UNCHANGED status /\ Return(desk[d])
                /\ \/ desk[d].at = "putting" /\ Loose(c)
                   \/ desk[d].at = "shelving" /\ Reads(c, "expiring", desk[d].req, TRUE, NoSlot, 0)
<1>1. desk[d] \in DeskType
  BY DesksTyped
<1>2. CASE ReturnCylinders(d)
  <2> DEFINE e == [desk[d] EXCEPT !.slot = NoSlot, !.read = 0]
             c == [e EXCEPT !.at = "refunding"]
  <2>1. Loose(c)
    BY <1>1, Fields DEF Reads, Loose
  <2>2. Step(d, c) \/ Step(d, Idle)
    BY <1>2 DEF ReturnCylinders, Resume, AfterReturn
  <2> HIDE DEF c
  <2> QED
    BY <1>2, <2>1, <2>2, StepMoves, IdleFields DEF ReturnCylinders, Busy
<1>3. CASE ExpiryReturns(d)
  <2> DEFINE c == [desk[d] EXCEPT !.at = "expiring", !.paid = TRUE, !.slot = NoSlot, !.read = 0]
  <2>1. Moves(d, c) /\ Reads(c, "expiring", desk[d].req, TRUE, NoSlot, 0)
    BY <1>1, <1>3, Fields, StepMoves DEF ExpiryReturns
  <2> HIDE DEF c
  <2> QED
    BY <1>3, <2>1 DEF ExpiryReturns, Busy
<1> QED
  BY <1>2, <1>3

(* An expiry that takes the row of its request.                            *)
LEMMA LockFields ==
  ASSUME RequestInv, NEW d \in Desks, SweepLocks(d) \/ \E r \in Requests : BeginExpireIfStale(d, r)
  PROVE  \E r \in Requests : \E c :
           /\ Moves(d, c) /\ UNCHANGED <<status, shelf>> /\ Loose(desk[d])
           /\ Reads(c, "expiring", r, FALSE, NoSlot, 0)
           /\ ~Locked(r) /\ status[r] = "Approved"
<1>1. PICK r : /\ r \in Requests /\ Step(d, Expiring(r)) /\ ~Locked(r) /\ Loose(desk[d])
               /\ Legal(status[r], "Expired") \/ Stale(r)
  BY DesksTyped, IdleFields DEF SweepLocks, BeginExpireIfStale, Busy, Fine, Free, Loose
<1>2. Reads(Expiring(r), "expiring", r, FALSE, NoSlot, 0)
  BY DEF Expiring, Idle, Reads
<1>3. status[r] = "Approved"
  BY <1>1 DEF Legal, Stale
<1>4. UNCHANGED <<status, shelf>>
  BY DEF SweepLocks, BeginExpireIfStale, OnlyDesk
<1> QED
  BY <1>1, <1>2, <1>3, <1>4, StepMoves

LEMMA CylinderStep == RequestInv /\ CylinderInv /\ [Next]_vars => CylinderInv'
<1> SUFFICES ASSUME RequestInv, CylinderInv, [Next]_vars PROVE CylinderInv'
  OBVIOUS
<1>1. /\ status \in [Requests -> Status]
      /\ \A d \in Desks : desk[d] \in DeskType /\ Fine(desk[d]) /\ Handles(desk[d])
      /\ \A d \in Desks : Holds(desk[d]) => desk[d].req \in Requests /\ status[desk[d].req] = "Approved"
  BY DesksTyped DEF RequestInv, TypeOKRequests, CylinderInv, HandsFit, LocksFit, Holds, Fine
<1>2. ASSUME UNCHANGED status
      PROVE  \A x \in Desks : Holds(desk[x]) => status'[desk[x].req] = status[desk[x].req]
  BY <1>2
<1>3. ASSUME NEW r \in Requests, CreateRequest(r) \/ Withdraw(r) \/ \E to : Review(r, to)
      PROVE  CylinderInv'
  <2>1. PICK s : status' = [status EXCEPT ![r] = s]
    BY <1>3 DEF CreateRequest, Withdraw, Review, Transition
  <2>2. ~Locked(r) \/ status[r] # "Approved"
    BY <1>3 DEF CreateRequest, Withdraw, Review, Transition
  <2>3. UNCHANGED desk
    BY <1>3 DEF CreateRequest, Withdraw, Review
  <2> QED
    BY <2>1, <2>2, <2>3, HeldStatus, DesksStay
<1>4. ASSUME UNCHANGED <<status, desk>> PROVE CylinderInv'
  BY <1>2, <1>4, DesksStay
<1>5. ASSUME NEW d \in Desks, LooseStep(d) PROVE CylinderInv'
  BY <1>2, <1>5, LooseMoves, LooseGoesOn
<1>6. ASSUME NEW d \in Desks, FinishApprove(d) PROVE CylinderInv'
  <2>1. desk[d].req \in Requests /\ status' = [status EXCEPT ![desk[d].req] = "Approved"] /\ ~Locked(desk[d].req)
    BY <1>1, <1>6 DEF FinishApprove, Busy, Fine, Transition
  <2>2. \A x \in Desks : Holds(desk[x]) => status'[desk[x].req] = status[desk[x].req]
    BY <2>1, HeldStatus
  <2>3. Moves(d, Idle)
    BY <1>6, StepMoves DEF FinishApprove
  <2> QED
    BY <2>2, <2>3, IdleFields, LooseGoesOn
<1>7. ASSUME NEW d \in Desks, CommitExpiry(d) PROVE CylinderInv'
  <2>1. status' = [status EXCEPT ![desk[d].req] = "Expired"] /\ Holds(desk[d])
    BY <1>7 DEF CommitExpiry, Busy, Holds
  <2>2. \A x \in Desks \ {d} : Holds(desk[x]) => status'[desk[x].req] = status[desk[x].req]
    BY <1>1, <2>1 DEF CylinderInv, LocksApart
  <2>3. Moves(d, Idle)
    BY <1>7, StepMoves DEF CommitExpiry
  <2> QED
    BY <2>2, <2>3, IdleFields, LooseGoesOn
<1>8. ASSUME NEW d \in Desks, NEW r \in Requests, BeginApprove(d, r) PROVE CylinderInv'
  <2>1. PICK k, c : Moves(d, c) /\ Reads(c, "taking", r, FALSE, k, shelf[k]) /\ r \in Lpg /\ UNCHANGED status
    BY <1>8, TakingFields
  <2>2. Handles(c) /\ ~Holds(c)
    BY <2>1 DEF Reads, Handles, Holds
  <2> QED
    BY <1>2, <2>1, <2>2, DeskGoesOn
<1>9. ASSUME NEW d \in Desks, TakeCylinders(d) PROVE CylinderInv'
  <2>1. PICK c : /\ Moves(d, c) /\ Reads(c, "approving", desk[d].req, desk[d].paid, desk[d].slot, desk[d].read)
                 /\ desk[d].at = "taking" /\ UNCHANGED status
    BY <1>9, TakenFields
  <2>2. Handles(c) /\ ~Holds(c)
    BY <1>1, <2>1 DEF Reads, Handles, Holds
  <2> QED
    BY <1>2, <2>1, <2>2, DeskGoesOn
<1>10. ASSUME NEW d \in Desks, NEW r \in Requests, CancelLpg(d, r) PROVE CylinderInv'
  <2>1. PICK c : /\ Moves(d, c) /\ r \in Lpg
                 /\ IF status[r] = "Approved" THEN Reads(c, "returning", r, c.paid, NoSlot, 0) ELSE Loose(c)
                 /\ ~Locked(r) /\ status' = [status EXCEPT ![r] = "Cancelled"]
    BY <1>10, CancelFields
  <2>2. Handles(c) /\ ~Holds(c)
    BY <2>1 DEF Reads, Loose, Handles, Holds
  <2>3. \A x \in Desks : Holds(desk[x]) => status'[desk[x].req] = status[desk[x].req]
    BY <2>1, HeldStatus
  <2> QED
    BY <2>1, <2>2, <2>3, DeskGoesOn
<1>11. ASSUME NEW d \in Desks, BeginReturn(d) \/ ExpiryReads(d) PROVE CylinderInv'
  <2>1. PICK k, n, c : /\ Moves(d, c) /\ UNCHANGED status
                       /\ k # NoSlot => k \in Slots /\ n > 0
                       /\ \/ desk[d].at = "returning" /\ Reads(c, "putting", desk[d].req, desk[d].paid, k, n)
                          \/ /\ desk[d].at = "expiring" /\ desk[d].req \in Lpg
                             /\ Reads(c, "shelving", desk[d].req, FALSE, k, n)
    BY <1>11, ReadFields
  <2>2. Handles(c)
    BY <1>1, <2>1 DEF Reads, Handles
  <2>3. Holds(c) => Holds(desk[d]) /\ desk[d].req = c.req /\ status'[c.req] = "Approved"
    BY <1>1, <2>1 DEF Reads, Holds
  <2> QED
    BY <1>2, <2>1, <2>2, <2>3, DeskGoesOn
<1>12. ASSUME NEW d \in Desks, ReturnCylinders(d) \/ ExpiryReturns(d) PROVE CylinderInv'
  <2>1. PICK c : /\ Moves(d, c) /\ UNCHANGED status
                 /\ \/ desk[d].at = "putting" /\ Loose(c)
                    \/ desk[d].at = "shelving" /\ Reads(c, "expiring", desk[d].req, TRUE, NoSlot, 0)
    BY <1>12, BackFields
  <2>2. Handles(c)
    BY <1>1, <2>1 DEF Reads, Handles, Loose
  <2>3. Holds(c) => Holds(desk[d]) /\ desk[d].req = c.req /\ status'[c.req] = "Approved"
    BY <1>1, <2>1 DEF Reads, Holds, Loose
  <2> QED
    BY <1>2, <2>1, <2>2, <2>3, DeskGoesOn
<1>13. ASSUME NEW d \in Desks, SweepLocks(d) \/ \E r \in Requests : BeginExpireIfStale(d, r) PROVE CylinderInv'
  <2>1. PICK r \in Requests : \E c : /\ Moves(d, c) /\ UNCHANGED status
                                     /\ Reads(c, "expiring", r, FALSE, NoSlot, 0)
                                     /\ ~Locked(r) /\ status[r] = "Approved"
    BY <1>13, LockFields
  <2>2. PICK c : /\ Moves(d, c) /\ UNCHANGED status
                 /\ Reads(c, "expiring", r, FALSE, NoSlot, 0) /\ ~Locked(r) /\ status[r] = "Approved"
    BY <2>1
  <2>3. Handles(c) /\ c.req = r
    BY <2>2 DEF Reads, Handles
  <2> QED
    BY <1>2, <2>2, <2>3, DeskGoesOn
<1>14. CASE RequestNext
  BY <1>3, <1>4, <1>5, <1>6, <1>7, <1>8, <1>9, <1>10, <1>11, <1>12, <1>13, <1>14
     DEF RequestNext, LooseStep, DayEnds, UpdatePayment, UpdateCollection
<1>15. CASE (DeskMoves /\ UNCHANGED reqVars) \/ (\E m \in Screens : MergeWithRequests(m)) \/ UNCHANGED vars
  BY <1>4, <1>15 DEF reqVars, vars, MergeWithRequests
<1> QED
  BY <1>14, <1>15 DEF Next

(* What may change the count (CylindersDriftOnlyByOverlap).                *)
Overlap ==
  \E d \in Desks :
    \/ Overwrites(d) \/ RefuseApprove(d) \/ Crash(d) \/ FinishEdit(d)
    \/ \E n \in Shelves : BeginEdit(d, n)

LEMMA LooseHandsEmpty == ASSUME NEW c, Loose(c) PROVE InHand(c) = 0
BY DEF Loose, InHand

(* Nothing is written on the shelf, and what the desk has in hand is what  *)
(* approved requests gave or took.                                         *)
LEMMA StatusToHand ==
  ASSUME RequestInv, RequestInv', NEW d \in Desks, NEW c, Moves(d, c), UNCHANGED shelf, NEW r \in Requests, NEW s \in Status,
         status' = [status EXCEPT ![r] = s],
         Wanted(r, s) + InHand(c) = Wanted(r, status[r]) + InHand(desk[d])
  PROVE  Accounted' = Accounted
<1> DEFINE b == Wanted(r, s) - Wanted(r, status[r])
           h == InHand(desk'[d]) - InHand(desk[d])
<1>1. Reserved' = Reserved + b
  BY StatusChanges DEF RequestInv, TypeOKRequests
<1>2. Carried' = Carried + h
  BY HandChanges DEF Moves
<1>3. Wanted(r, s) \in Int /\ Wanted(r, status[r]) \in Int
  BY Needs DEF Wanted
<1>4. InHand(desk[d]) \in Int /\ InHand(desk'[d]) \in Int
  <2>1. desk'[d] \in DeskType /\ Fine(desk'[d])
    BY DEF RequestInv, TypeOKRequests, DeskType, DesksFine, Fine
  <2> QED
    BY <2>1, DesksTyped, InHandIsInt
<1>5. OnHand' = OnHand + 0
  BY ShelfStays, SumsAreInts
<1>6. b \in Int /\ h \in Int /\ 0 + b + h = 0
  BY <1>3, <1>4 DEF Moves
<1> HIDE DEF b, h
<1> QED
  BY <1>1, <1>2, <1>5, <1>6, NothingLost

(* A quantity is written over the one that was read.                       *)
LEMMA ShelfToHand ==
  ASSUME RequestInv, RequestInv', NEW d \in Desks, NEW c, Moves(d, c), UNCHANGED status,
         NEW k \in Slots, NEW n \in Nat \cup {Gone}, shelf' = [shelf EXCEPT ![k] = n],
         Quantity(n) + InHand(c) = Quantity(shelf[k]) + InHand(desk[d])
  PROVE  Accounted' = Accounted
<1> DEFINE a == Quantity(n) - Quantity(shelf[k])
           h == InHand(desk'[d]) - InHand(desk[d])
<1>0. shelf \in [Slots -> Nat \cup {Gone}]
  BY DEF RequestInv, TypeOKRequests
<1>1. OnHand' = OnHand + a
  BY <1>0, ShelfChanges
<1>2. Carried' = Carried + h
  BY HandChanges DEF Moves
<1>3. Quantity(n) \in Int /\ Quantity(shelf[k]) \in Int
  BY <1>0 DEF Quantity, Gone
<1>4. InHand(desk[d]) \in Int /\ InHand(desk'[d]) \in Int
  <2>1. desk'[d] \in DeskType /\ Fine(desk'[d])
    BY DEF RequestInv, TypeOKRequests, DeskType, DesksFine, Fine
  <2> QED
    BY <2>1, DesksTyped, InHandIsInt
<1> DEFINE b == 0
<1>5. Reserved' = Reserved + b
  BY StatusStays, SumsAreInts
<1>6. a \in Int /\ b \in Int /\ h \in Int /\ a + b + h = 0
  BY <1>3, <1>4 DEF Moves
<1> HIDE DEF a, b, h
<1> QED
  BY <1>1, <1>2, <1>5, <1>6, NothingLost

(* The desk moves and its hand does not change.                            *)
LEMMA HandTheSame ==
  ASSUME RequestInv, RequestInv', NEW d \in Desks, NEW c, Moves(d, c), UNCHANGED <<status, shelf>>,
         InHand(c) = InHand(desk[d])
  PROVE  Accounted' = Accounted
<1>1. Carried' = Carried + (InHand(desk'[d]) - InHand(desk[d]))
  BY HandChanges DEF Moves
<1>2. InHand(desk[d]) \in Int /\ desk'[d] = c
  BY DesksTyped DEF Moves
<1>3. Carried' = Carried + 0 /\ OnHand' = OnHand + 0 /\ Reserved' = Reserved + 0
  BY <1>1, <1>2, SumsAreInts, ShelfStays, StatusStays
<1> QED
  BY <1>3, NothingLost

LEMMA DriftStep ==
  ASSUME RequestInv, RequestInv', CylinderInv, [Next]_vars, ~Overlap
  PROVE  Accounted' = Accounted
<1>1. /\ status \in [Requests -> Status] /\ shelf \in [Slots -> Nat \cup {Gone}]
      /\ \A d \in Desks : desk[d] \in DeskType /\ Fine(desk[d]) /\ Handles(desk[d])
      /\ \A d \in Desks : Holds(desk[d]) => status[desk[d].req] = "Approved"
  BY DesksTyped DEF RequestInv, TypeOKRequests, CylinderInv, HandsFit, LocksFit
<1>2. ASSUME NEW r \in Requests, CreateRequest(r) \/ Withdraw(r) \/ \E to \in {"Approved", "Rejected"} : Review(r, to)
      PROVE  Accounted' = Accounted
  <2>1. PICK s \in Status : status' = [status EXCEPT ![r] = s] /\ Wanted(r, s) = Wanted(r, status[r])
    BY <1>2 DEF CreateRequest, Withdraw, Review, Transition, Legal, Wanted, Status
  <2>2. UNCHANGED <<shelf, desk>>
    BY <1>2 DEF CreateRequest, Withdraw, Review
  <2>3. Wanted(r, status[r]) \in Int
    BY Needs DEF Wanted
  <2>4. Reserved' = Reserved + (Wanted(r, s) - Wanted(r, status[r]))
    BY <1>1, <2>1, StatusChanges
  <2>5. Reserved' = Reserved
    BY <2>1, <2>3, <2>4, SumsAreInts
  <2>6. Reserved' = Reserved + 0 /\ OnHand' = OnHand + 0 /\ Carried' = Carried + 0
    BY <2>2, <2>5, ShelfStays, HandStays, SumsAreInts
  <2> QED
    BY <2>6, NothingLost
<1>3. ASSUME UNCHANGED <<status, shelf, desk>> PROVE Accounted' = Accounted
  BY <1>3 DEF Accounted, OnHand, Reserved, InHand
<1>4. ASSUME NEW d \in Desks, LooseStep(d) PROVE Accounted' = Accounted
  <2>1. \/ RefusePay(d) \/ SweepSkips(d) \/ PayMark(d) \/ MarkRefunded(d) \/ PayDebit(d) \/ Refund(d) \/ RefundLost(d)
        \/ \E r \in Requests : BeginPay(d, r) \/ BeginSweep(d, r)
    BY <1>4 DEF LooseStep, Overlap
  <2>2. Loose(desk[d]) /\ UNCHANGED shelf
    BY <2>1, IdleFields DEF RefusePay, SweepSkips, PayMark, MarkRefunded, PayDebit, Refund, RefundLost, BeginPay, BeginSweep,
                            Busy, Free, Loose, OnlyDesk
  <2>3. PICK c : Moves(d, c) /\ Loose(c) /\ UNCHANGED status
    BY <1>4, LooseMoves
  <2> QED
    BY <2>2, <2>3, LooseHandsEmpty, HandTheSame
<1>5. ASSUME NEW d \in Desks, FinishApprove(d) PROVE Accounted' = Accounted
  <2> DEFINE r == desk[d].req
  <2>1. desk[d].at = "approving" /\ r \in Requests /\ r \in Lpg
    BY <1>1, <1>5 DEF FinishApprove, Busy, Fine, Handles
  <2>2. status' = [status EXCEPT ![r] = "Approved"] /\ status[r] = "Pending Review" /\ UNCHANGED shelf
    BY <1>5 DEF FinishApprove, Transition, Legal
  <2>3. Moves(d, Idle)
    BY <1>5, StepMoves DEF FinishApprove
  <2>4. InHand(desk[d]) = Need[r] /\ InHand(Idle) = 0
    BY <2>1, IdleFields, LooseHandsEmpty DEF InHand
  <2>5. Wanted(r, "Approved") = Need[r] /\ Wanted(r, status[r]) = 0 /\ Need[r] \in Int /\ "Approved" \in Status
    BY <2>1, <2>2, Needs DEF Wanted, Status
  <2>6. Wanted(r, "Approved") + InHand(Idle) = Wanted(r, status[r]) + InHand(desk[d])
    BY <2>4, <2>5
  <2> HIDE DEF r
  <2> QED
    BY <2>1, <2>2, <2>3, <2>5, <2>6, StatusToHand
<1>6. ASSUME NEW d \in Desks, CommitExpiry(d) PROVE Accounted' = Accounted
  <2> DEFINE r == desk[d].req
  <2>1. desk[d].at = "expiring" /\ r \in Requests /\ (r \in Lpg => desk[d].paid) /\ (desk[d].paid => r \in Lpg)
    BY <1>1, <1>6 DEF CommitExpiry, Busy, Fine, Handles
  <2>2. status' = [status EXCEPT ![r] = "Expired"] /\ status[r] = "Approved" /\ UNCHANGED shelf
    BY <1>1, <1>6 DEF CommitExpiry, Busy, Holds
  <2>3. Moves(d, Idle)
    BY <1>6, StepMoves DEF CommitExpiry
  <2>4. InHand(desk[d]) = (IF r \in Lpg THEN -Need[r] ELSE 0) /\ InHand(Idle) = 0
    BY <2>1, IdleFields, LooseHandsEmpty DEF InHand
  <2>5. /\ Wanted(r, status[r]) = IF r \in Lpg THEN Need[r] ELSE 0
        /\ Wanted(r, "Expired") = 0 /\ Need[r] \in Int /\ "Expired" \in Status
    BY <2>1, <2>2, Needs DEF Wanted, Status
  <2>6. Wanted(r, "Expired") + InHand(Idle) = Wanted(r, status[r]) + InHand(desk[d])
    BY <2>4, <2>5
  <2> HIDE DEF r
  <2> QED
    BY <2>1, <2>2, <2>3, <2>5, <2>6, StatusToHand
<1>7. ASSUME NEW d \in Desks, NEW r \in Requests, BeginApprove(d, r) PROVE Accounted' = Accounted
  <2>1. PICK k, c : /\ Moves(d, c) /\ Reads(c, "taking", r, FALSE, k, shelf[k])
                    /\ desk[d] = Idle /\ UNCHANGED <<status, shelf>>
    BY <1>7, TakingFields
  <2>2. InHand(c) = 0 /\ InHand(desk[d]) = 0
    BY <2>1, IdleFields DEF Reads, InHand
  <2> QED
    BY <2>1, <2>2, HandTheSame
<1>8. ASSUME NEW d \in Desks, TakeCylinders(d) PROVE Accounted' = Accounted
  <2> DEFINE r == desk[d].req
             k == desk[d].slot
             n == Left(desk[d].read - Need[r])
  <2>1. PICK c : /\ Moves(d, c) /\ Reads(c, "approving", r, desk[d].paid, k, desk[d].read)
                 /\ desk[d].at = "taking" /\ UNCHANGED status
    BY <1>8, TakenFields
  <2>2. k \in Slots /\ k # NoSlot /\ r \in Requests /\ desk[d].read \in Nat /\ desk[d].read >= Need[r]
    BY <1>1, <2>1, RequestsAssumption DEF Fine, DeskType, NoSlot
  <2>3. shelf[k] = desk[d].read
    BY <1>8, <2>2 DEF Overlap, Overwrites
  <2>4. n \in Nat \cup {Gone} /\ Quantity(n) = desk[d].read - Need[r] /\ Quantity(shelf[k]) = desk[d].read
    BY <2>2, <2>3, Needs DEF Left, Gone, Quantity
  <2>5. shelf' = [shelf EXCEPT ![k] = n]
    BY <1>8, <2>2, <2>3, Needs DEF TakeCylinders, Put
  <2>6. InHand(c) = Need[r] /\ InHand(desk[d]) = 0 /\ Need[r] \in Int
    BY <2>1, <2>2, Needs DEF Reads, InHand
  <2>7. Quantity(n) + InHand(c) = Quantity(shelf[k]) + InHand(desk[d])
    BY <2>2, <2>4, <2>6
  <2> HIDE DEF k, n, r
  <2> QED
    BY <2>1, <2>2, <2>4, <2>5, <2>7, ShelfToHand
<1>9. ASSUME NEW d \in Desks, NEW r \in Requests, CancelLpg(d, r) PROVE Accounted' = Accounted
  <2>1. PICK c : /\ Moves(d, c) /\ r \in Lpg /\ desk[d] = Idle
                 /\ IF status[r] = "Approved" THEN Reads(c, "returning", r, c.paid, NoSlot, 0) ELSE Loose(c)
                 /\ status' = [status EXCEPT ![r] = "Cancelled"] /\ UNCHANGED shelf
    BY <1>9, CancelFields
  <2>2. InHand(c) = Wanted(r, status[r])
    BY <2>1, LooseHandsEmpty DEF Reads, InHand, Wanted
  <2>3. InHand(desk[d]) = 0 /\ Wanted(r, "Cancelled") = 0 /\ "Cancelled" \in Status /\ Wanted(r, status[r]) \in Int
    BY <2>1, IdleFields, LooseHandsEmpty, Needs DEF Wanted, Status
  <2>4. Wanted(r, "Cancelled") + InHand(c) = Wanted(r, status[r]) + InHand(desk[d])
    BY <2>2, <2>3
  <2> QED
    BY <2>1, <2>3, <2>4, StatusToHand
<1>10. ASSUME NEW d \in Desks, BeginReturn(d) \/ ExpiryReads(d) PROVE Accounted' = Accounted
  <2>1. PICK k, n, c : /\ Moves(d, c) /\ UNCHANGED <<status, shelf>>
                       /\ \/ desk[d].at = "returning" /\ Reads(c, "putting", desk[d].req, desk[d].paid, k, n)
                          \/ /\ desk[d].at = "expiring" /\ ~desk[d].paid
                             /\ Reads(c, "shelving", desk[d].req, FALSE, k, n)
    BY <1>10, ReadFields
  <2>2. InHand(c) = InHand(desk[d])
    BY <2>1 DEF Reads, InHand
  <2> QED
    BY <2>1, <2>2, HandTheSame
<1>11. ASSUME NEW d \in Desks, ReturnCylinders(d) \/ ExpiryReturns(d) PROVE Accounted' = Accounted
  <2> DEFINE r == desk[d].req
  <2>1. PICK c : /\ Moves(d, c) /\ UNCHANGED status /\ Return(desk[d])
                 /\ \/ desk[d].at = "putting" /\ Loose(c)
                    \/ desk[d].at = "shelving" /\ Reads(c, "expiring", r, TRUE, NoSlot, 0)
    BY <1>11, BackFields
  <2>2. r \in Requests /\ desk[d].read \in Nat /\ desk[d].slot \in Slots \cup {NoSlot}
    BY <1>1, <2>1 DEF Fine, DeskType
  <2>3. \E k \in Slots, n \in Nat \cup {Gone} : shelf' = [shelf EXCEPT ![k] = n] /\ Quantity(n) = Quantity(shelf[k]) + Need[r]
    <3>1. CASE desk[d].slot = NoSlot
      <4>1. PICK k \in Fresh : shelf' = [shelf EXCEPT ![k] = Need[r]]
        BY <2>1, <3>1 DEF Return
      <4>2. k \in Slots /\ Quantity(shelf[k]) = 0 /\ Quantity(Need[r]) = Need[r] /\ Need[r] \in Nat
        BY <2>2, Needs DEF Fresh, Quantity
      <4>3. Quantity(Need[r]) = Quantity(shelf[k]) + Need[r] /\ Need[r] \in Nat \cup {Gone}
        BY <4>2
      <4> QED
        BY <4>1, <4>2, <4>3
    <3>2. CASE desk[d].slot # NoSlot
      <4> DEFINE k == desk[d].slot
                 n == desk[d].read + Need[r]
      <4>1. k \in Slots /\ desk[d].read > 0 /\ shelf[k] = desk[d].read
        BY <1>1, <1>11, <2>1, <2>2, <3>2 DEF Handles, Overlap, Overwrites
      <4>2. shelf' = [shelf EXCEPT ![k] = n]
        BY <2>1, <3>2, <4>1 DEF Return, Put
      <4>3. n \in Nat /\ Quantity(n) = Quantity(shelf[k]) + Need[r]
        BY <2>2, <4>1, Needs DEF Quantity
      <4> HIDE DEF k, n
      <4> QED
        BY <4>1, <4>2, <4>3
    <3> QED
      BY <3>1, <3>2
  <2>4. PICK k \in Slots, n \in Nat \cup {Gone} : shelf' = [shelf EXCEPT ![k] = n] /\ Quantity(n) = Quantity(shelf[k]) + Need[r]
    BY <2>3
  <2>5. Need[r] \in Int /\ Quantity(shelf[k]) \in Int
    BY <1>1, <2>2, Needs DEF Quantity, Gone
  <2>6. InHand(c) = InHand(desk[d]) - Need[r] /\ InHand(desk[d]) \in Int
    BY <2>1, <2>5, LooseHandsEmpty DEF Reads, InHand
  <2>7. Quantity(n) + InHand(c) = Quantity(shelf[k]) + InHand(desk[d])
    BY <2>4, <2>5, <2>6
  <2> HIDE DEF r
  <2> QED
    BY <2>1, <2>4, <2>7, ShelfToHand
<1>12. ASSUME NEW d \in Desks, SweepLocks(d) \/ \E r \in Requests : BeginExpireIfStale(d, r) PROVE Accounted' = Accounted
  <2>1. \E r : \E c : /\ Moves(d, c) /\ UNCHANGED <<status, shelf>> /\ Loose(desk[d])
                      /\ Reads(c, "expiring", r, FALSE, NoSlot, 0)
    BY <1>12, LockFields
  <2>2. PICK r, c : /\ Moves(d, c) /\ UNCHANGED <<status, shelf>> /\ Loose(desk[d])
                    /\ Reads(c, "expiring", r, FALSE, NoSlot, 0)
    BY <2>1
  <2>3. InHand(c) = 0 /\ InHand(desk[d]) = 0
    BY <2>2, LooseHandsEmpty DEF Reads, InHand
  <2> QED
    BY <2>2, <2>3, HandTheSame
<1>13. CASE RequestNext
  BY <1>2, <1>3, <1>4, <1>5, <1>6, <1>7, <1>8, <1>9, <1>10, <1>11, <1>12, <1>13
     DEF RequestNext, LooseStep, DayEnds, UpdatePayment, UpdateCollection
<1>14. CASE (DeskMoves /\ UNCHANGED reqVars) \/ (\E m \in Screens : MergeWithRequests(m)) \/ UNCHANGED vars
  BY <1>3, <1>14 DEF reqVars, vars, MergeWithRequests
<1> QED
  BY <1>13, <1>14 DEF Next

(* The cylinders of a station are where they should be, on the shelf, with *)
(* an approved request or in the hands of a handler, but for the overlaps  *)
(* that are named: whatever runs beside it, an approval, a cancellation or *)
(* an expiry that is left alone with the row it has read loses none        *)
(* (decrementCylinders, incrementCylinderQuantity, expireRequest).         *)
THEOREM CylindersAreAccounted == Spec => CylindersDriftOnlyByOverlap
<1> DEFINE Drift == Accounted' # Accounted =>
                      \E d \in Desks :
                        \/ Overwrites(d) \/ RefuseApprove(d) \/ Crash(d) \/ FinishEdit(d)
                        \/ \E n \in Shelves : BeginEdit(d, n)
           Inv == RequestInv /\ CylinderInv
<1>1. InitRequests => Inv
  BY RequestsInit DEF InitRequests, CylinderInv, HandsFit, LocksFit, LocksApart, Handles, Holds, Idle
<1>2. Inv /\ [Next]_vars => Inv'
  BY RequestsStep, CylinderStep
<1>3. Inv /\ Inv' /\ [Next]_vars => [Drift]_vars
  BY DriftStep DEF Overlap
<1> HIDE DEF Inv, Drift
<1>4. Spec => [][Drift]_vars
  BY <1>1, <1>2, <1>3, PTL DEF Spec
<1> QED
  BY <1>4 DEF CylindersDriftOnlyByOverlap, Drift

================================================================================
