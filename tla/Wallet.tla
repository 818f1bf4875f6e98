--------------------------------- MODULE Wallet ---------------------------------
(***************************************************************************)
(* The customers' wallets: customers.balance, the ledger of deposits rows  *)
(* and the holds that old orders still keep on a balance.  An action is    *)
(* one database transaction.  A merge of two customer records reads the    *)
(* balances before it holds any lock, so it is split there.                *)
(***************************************************************************)
EXTENDS Integers, FiniteSets, Functions

CONSTANTS
  Customers,       \* customer ids
  Deposits,        \* credits booked from bank statement lines
  Orders,          \* orders that were paid by a hold
  Requests,        \* LPG and Dangote requests, paid from the wallet
  Transfers,       \* transfers between wallets
  Screens,         \* merges that can be under way at the same time
  Amounts,         \* amounts of money
  NoOne

ASSUME WalletAssumption ==
  /\ IsFiniteSet(Customers) /\ NoOne \notin Customers
  /\ IsFiniteSet(Deposits) /\ IsFiniteSet(Orders)
  /\ IsFiniteSet(Requests) /\ IsFiniteSet(Transfers)
  /\ Amounts \subseteq Nat \ {0}

(* What a row of the ledger stands for.  A reference is on one row at most *)
(* (deposits_reference_unique_idx).                                        *)
Credits == ({"old"} \X Deposits) \cup ({"in"} \X Transfers) \cup ({"refund"} \X Requests)
Debits  == ({"out"} \X Transfers) \cup ({"pay"} \X Requests) \cup ({"spent"} \X Orders)
             \cup ({"rev"} \X Credits)
Rows    == Credits \cup Debits

VARIABLES
  alive,           \* the customers there are
  balance,         \* customers.balance
  row,             \* deposits: whose, and the amount with its sign
  hold,            \* wallet_holds: whose, how much, and how it stands
  line,            \* bank_statement_lines.status of the line behind a deposit
  backs,           \* the deposits with order_deposit_allocations
  merging          \* what a merge has read of the customer it takes in

walletVars == <<alive, balance, row, hold, line, backs, merging>>

-----------------------------------------------------------------------------
NoRow   == [cust |-> NoOne, amt |-> 0]
NoHold  == [cust |-> NoOne, amt |-> 0, status |-> "none"]
NoMerge == [from |-> NoOne, to |-> NoOne, read |-> 0]
Booked(k) == row[k] # NoRow
Active(o) == hold[o].status = "active"

(* getLedgerBalance, in its two sums.                                      *)
Ledger(c) == SumFunctionOnSet([k \in Rows |-> IF row[k].cust = c THEN row[k].amt ELSE 0], Rows)
Held(c) ==
  SumFunctionOnSet([o \in Orders |-> IF Active(o) /\ hold[o].cust = c THEN hold[o].amt ELSE 0],
                   Orders)
Balanced == \A c \in Customers : balance[c] = Ledger(c) - Held(c)

(* The type of every variable.                                             *)
RowType   == {NoRow} \cup [cust: Customers, amt: Int]
HoldType  == {NoHold} \cup [cust: Customers, amt: Nat, status: {"active", "released", "converted"}]
MergeType == {NoMerge} \cup [from: Customers, to: Customers, read: Int]
TypeOK ==
  /\ alive \subseteq Customers
  /\ balance \in [Customers -> Int]
  /\ row \in [Rows -> RowType]
  /\ hold \in [Orders -> HoldType]
  /\ line \in [Deposits -> {"MATCHED", "UNMATCHED"}]
  /\ backs \subseteq Deposits
  /\ merging \in [Screens -> MergeType]

(* Deposits, their lines and holds were made before payments went straight *)
(* to orders; what they left is where this starts.                         *)
Init ==
  /\ alive = Customers
  /\ row \in [Rows -> {NoRow} \cup [cust: Customers, amt: Amounts]]
  /\ \A k \in Rows : Booked(k) <=> k \in {"old"} \X Deposits
  /\ hold \in [Orders -> {NoHold} \cup [cust: Customers, amt: Amounts, status: {"active"}]]
  /\ balance = [c \in Customers |-> Ledger(c) - Held(c)]
  /\ \A c \in Customers : balance[c] >= 0
  /\ line = [d \in Deposits |-> "MATCHED"]
  /\ backs = Deposits
  /\ merging = [m \in Screens |-> NoMerge]

-----------------------------------------------------------------------------
(* credit and debit: the balance and its row in one transaction.  debit    *)
(* has its guard in the WHERE of the update, and no row has its reference. *)
Covers(c, v) == c \in alive /\ balance[c] >= v
Book(k, c, v) == row' = [row EXCEPT ![k] = [cust |-> c, amt |-> v]]
Credit(k, c, v) ==
  /\ c \in alive /\ ~Booked(k)
  /\ balance' = [balance EXCEPT ![c] = @ + v] /\ Book(k, c, v)
Debit(k, c, v) ==
  /\ Covers(c, v) /\ ~Booked(k)
  /\ balance' = [balance EXCEPT ![c] = @ - v] /\ Book(k, c, -v)

(* transfer: both legs or neither.                                         *)
Transfer(t, c, e, v) ==
  /\ c # e /\ e \in alive /\ Covers(c, v)
  /\ ~Booked(<<"out", t>>)
  /\ balance' = [balance EXCEPT ![c] = @ - v, ![e] = @ + v]
  /\ row' = [row EXCEPT ![<<"out", t>>] = [cust |-> c, amt |-> -v],
                        ![<<"in", t>>] = [cust |-> e, amt |-> v]]
  /\ UNCHANGED <<alive, hold, line, backs, merging>>

(* reverseDeposit: any credit, once, while the balance covers it.          *)
Reversible(k) == Booked(k) /\ ~Booked(<<"rev", k>>) /\ Covers(row[k].cust, row[k].amt)
Reverse(k) ==
  /\ Reversible(k)
  /\ Debit(<<"rev", k>>, row[k].cust, row[k].amt)

ReverseDeposit(k) ==
  /\ Reverse(k)
  /\ UNCHANGED <<alive, hold, line, backs, merging>>

(* unmatchStatementDeposit: the attribution goes first, the line is free   *)
(* only once the money has left the wallet.  A second reversal throws, and *)
(* all is rolled back; a balance that does not cover it is a failure that  *)
(* is returned, and what was done before commits.                          *)
LineFreed(d)        == "UNMATCHED"
LineAfterRefusal(d) == line[d]
Unmatch(d) ==
  /\ Reverse(<<"old", d>>)
  /\ backs' = backs \ {d}
  /\ line' = [line EXCEPT ![d] = LineFreed(d)]
  /\ UNCHANGED <<alive, hold, merging>>
RefuseUnmatch(d) ==
  /\ Booked(<<"old", d>>)
  /\ ~Covers(row[<<"old", d>>].cust, row[<<"old", d>>].amt)
  /\ backs' = backs \ {d}
  /\ line' = [line EXCEPT ![d] = LineAfterRefusal(d)]
  /\ UNCHANGED <<alive, balance, row, hold, merging>>

-----------------------------------------------------------------------------
(* reassignHold, when an order changes customer.                           *)
HoldStays(o, c) == hold
HoldMoves(o, c) == [hold EXCEPT ![o].cust = c]
ReassignHold(o, c) ==
  /\ Active(o) /\ hold[o].cust # c /\ Covers(c, hold[o].amt)
  /\ balance' = [balance EXCEPT ![c] = @ - hold[o].amt, ![hold[o].cust] = @ + hold[o].amt]
  /\ hold' = HoldMoves(o, c)
  /\ UNCHANGED <<alive, row, line, backs, merging>>

(* releaseHold, when an order is cancelled or expires (released), or is    *)
(* deleted (none: the row goes with it).                                   *)
EndHold(o, s) ==
  /\ Active(o)
  /\ balance' = [balance EXCEPT ![hold[o].cust] = @ + hold[o].amt]
  /\ hold' = [hold EXCEPT ![o] = IF s = "none" THEN NoHold ELSE [@ EXCEPT !.status = s]]
  /\ UNCHANGED <<alive, row, line, backs, merging>>

(* convertHold, when an order completes: the spend is booked, the balance  *)
(* was short of it all along.                                              *)
ConvertHold(o) ==
  /\ Active(o) /\ Book(<<"spent", o>>, hold[o].cust, -hold[o].amt)
  /\ hold' = [hold EXCEPT ![o].status = "converted"]
  /\ UNCHANGED <<alive, balance, line, backs, merging>>

(* A settled hold goes with its order when that is deleted.                *)
DropHold(o) ==
  /\ hold[o].status \in {"released", "converted"}
  /\ hold' = [hold EXCEPT ![o] = NoHold]
  /\ UNCHANGED <<alive, balance, row, line, backs, merging>>

-----------------------------------------------------------------------------
(* mergePeople: validate reads both records without a lock.                *)
BeginMerge(m, c, e) ==
  /\ merging[m] = NoMerge /\ c # e /\ {c, e} \subseteq alive
  /\ merging' = [merging EXCEPT ![m] = [from |-> c, to |-> e, read |-> balance[c]]]
  /\ UNCHANGED <<alive, balance, row, hold, line, backs>>

(* absorbIntoCustomer: rows and holds follow, the balance that was read is *)
(* added, the record is deleted.  A record that is gone by then has        *)
(* nothing left to move and the rest of the merge goes on without it.      *)
Moved(x, c, e) == [k \in DOMAIN x |-> IF x[k].cust = c THEN [x[k] EXCEPT !.cust = e] ELSE x[k]]
HoldsMoved(c, e) == Moved(hold, c, e)
CommitMerge(m) ==
  LET c == merging[m].from
      e == merging[m].to
  IN /\ merging[m] # NoMerge /\ e \in alive
     /\ alive' = alive \ {c}
     /\ balance' = [balance EXCEPT ![e] = @ + merging[m].read, ![c] = 0]
     /\ row' = Moved(row, c, e)
     /\ hold' = HoldsMoved(c, e)
     /\ merging' = [merging EXCEPT ![m] = NoMerge]
     /\ UNCHANGED <<line, backs>>

(* The transaction is rolled back: a row that arrived for the deleted      *)
(* record, the record to keep gone, a lost connection.                     *)
AbortMerge(m) ==
  /\ merging[m] # NoMerge
  /\ merging' = [merging EXCEPT ![m] = NoMerge]
  /\ UNCHANGED <<alive, balance, row, hold, line, backs>>

(* A request is charged, or gets its money back (Requests).                *)
Charge(r, c, v) ==
  /\ Debit(<<"pay", r>>, c, v)
  /\ UNCHANGED <<alive, hold, line, backs, merging>>
GiveBack(r, c, v) ==
  /\ Credit(<<"refund", r>>, c, v)
  /\ UNCHANGED <<alive, hold, line, backs, merging>>

(* What the desk does in the wallet itself.                                *)
DeskMoves ==
  \/ \E t \in Transfers, c, e \in Customers, v \in Amounts : Transfer(t, c, e, v)
  \/ \E k \in Credits : ReverseDeposit(k)
  \/ \E d \in Deposits : Unmatch(d) \/ RefuseUnmatch(d)
  \/ \E o \in Orders, c \in Customers : ReassignHold(o, c)
  \/ \E o \in Orders, s \in {"released", "none"} : EndHold(o, s)
  \/ \E o \in Orders : ConvertHold(o) \/ DropHold(o)
  \/ \E m \in Screens, c, e \in Customers : BeginMerge(m, c, e)
  \/ \E m \in Screens : AbortMerge(m)

WalletNext ==
  \/ DeskMoves
  \/ \E m \in Screens : CommitMerge(m)
  \/ \E r \in Requests, c \in Customers, v \in Amounts : Charge(r, c, v) \/ GiveBack(r, c, v)

WalletSpec == Init /\ [][WalletNext]_walletVars

-----------------------------------------------------------------------------
(* Properties.                                                             *)

(* The books balance, for every customer, after any step they balanced     *)
(* before: transfers, reversals, holds that move, are released or booked,  *)
(* payments and refunds.  The exception is a merge that adds a balance     *)
(* which has changed since it was read, or has already been added.         *)
StaleMerge(m) == CommitMerge(m) /\ merging[m].read # balance[merging[m].from]
BooksBalanceButForStaleMerge ==
  [][walletVars' # walletVars /\ Balanced => Balanced' \/ \E m \in Screens : StaleMerge(m)]_walletVars

(* Money that came in on a statement line is never in a wallet and free to *)
(* pay an order at the same time.                                          *)
FreeLineIsReversed ==
  \A d \in Deposits : line[d] = "UNMATCHED" => Booked(<<"rev", <<"old", d>>>>)

(* wallet.service.js: "The invariant these operations maintain:            *)
(* customers.balance = sum(credit deposits) - sum(debit deposits)          *)
(* - sum(active holds)".  Merging two customers does not.                  *)
BooksBalance == Balanced

(* unmatchStatementDeposit: a deposit whose money "is what funded a live   *)
(* order [...] cannot simply be removed".  Its attribution is, though.     *)
DetachedIsReversed == \A d \in Deposits \ backs : Booked(<<"rev", <<"old", d>>>>)
================================================================================
