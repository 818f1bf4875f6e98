-------------------------------- MODULE Requests --------------------------------
(***************************************************************************)
(* LPG and Dangote requests: review, payment from the wallet, cancelling,  *)
(* expiry, and the cylinders an LPG station keeps.  A desk is one handler  *)
(* or one sweep at work: the handlers change the request, the wallet and   *)
(* the shelf in statements of their own, and a desk keeps what it has read *)
(* between them.  It can stop between any two.                             *)
(***************************************************************************)
EXTENDS Wallet

CONSTANTS
  Lpg,             \* the requests that are for cylinders
  Need,            \* the cylinders a request is for
  Price,           \* the total a request is approved at
  Slots,           \* rows of lpg_station_cylinders, of one station and size
  Shelves,         \* the quantities a station is given
  Desks

ASSUME RequestsAssumption ==
  /\ Lpg \subseteq Requests /\ IsFiniteSet(Slots) /\ "none" \notin Slots /\ IsFiniteSet(Desks)
  /\ Need \in [Requests -> Nat \ {0}] /\ Price \in [Requests -> Amounts]
  /\ Shelves \subseteq Nat \ {0}

VARIABLES
  status,          \* the review status of a request
  pay,             \* paymentStatus
  away,            \* the requests whose collectionStatus has left Pending
  owner,           \* customer_id of a request
  lapsed,          \* the requests whose review day has ended
  shelf,           \* quantity by row: 0 before the row is there, Gone once deleted
  desk

reqVars == <<status, pay, away, owner, lapsed, shelf, desk>>
vars == <<walletVars, reqVars>>

-----------------------------------------------------------------------------
Gone   == -1
NoSlot == "none"
Idle   == [at |-> "idle", req |-> NoOne, cust |-> NoOne, paid |-> FALSE, slot |-> NoSlot, read |-> 0]
Busy(d, at) == desk[d].at = at
Free(d)     == desk[d] = Idle

(* TRANSITIONS of the two status services.                                 *)
Status == {"None", "Pending Review", "Approved", "Rejected", "Cancelled", "Expired"}
Legal(from, to) ==
  \/ from = "Pending Review" /\ to \in {"Approved", "Rejected", "Cancelled"}
  \/ from = "Approved" /\ to \in {"Cancelled", "Expired"}

(* An expiry holds the row of its request until it commits.                *)
Locked(r) == \E d \in Desks : desk[d].req = r /\ desk[d].at \in {"expiring", "shelving"}
Writable(r) == status[r] # "None" /\ ~Locked(r)

(* getCylinderStock takes the first row it finds, if there is one.         *)
OnShelf == {k \in Slots : shelf[k] > 0}
Fresh   == {k \in Slots : shelf[k] = 0}

TypeOKRequests ==
  /\ TypeOK
  /\ status \in [Requests -> Status]
  /\ pay \in [Requests -> {"Unpaid", "Paid", "Refunded"}]
  /\ away \subseteq Requests /\ lapsed \subseteq Requests
  /\ owner \in [Requests -> Customers]
  /\ shelf \in [Slots -> Nat \cup {Gone}]
  /\ desk \in [Desks -> [at: {"idle", "taking", "approving", "paying", "marking", "returning",
                              "putting", "refunding", "closing", "swept", "expiring", "shelving", "typing"},
                         req: Requests \cup {NoOne}, cust: Customers \cup {NoOne}, paid: BOOLEAN,
                         slot: Slots \cup {NoSlot}, read: Nat]]

InitRequests ==
  /\ Init
  /\ status = [r \in Requests |-> "None"]
  /\ pay = [r \in Requests |-> "Unpaid"]
  /\ away = {} /\ lapsed = {}
  /\ owner \in [Requests -> Customers]
  /\ shelf \in {[k \in Slots |-> IF k = j THEN n ELSE 0] : j \in Slots, n \in Shelves}
  /\ desk = [d \in Desks |-> Idle]

-----------------------------------------------------------------------------
Step(d, s) == desk' = [desk EXCEPT ![d] = s]
Then(d, at) == Step(d, [desk[d] EXCEPT !.at = at])
OnlyDesk == UNCHANGED <<walletVars, status, pay, away, owner, lapsed, shelf>>

CreateRequest(r) ==
  /\ status[r] = "None" /\ owner[r] \in alive
  /\ status' = [status EXCEPT ![r] = "Pending Review"]
  /\ UNCHANGED <<walletVars, pay, away, owner, lapsed, shelf, desk>>

(* transition: under the row lock, the legal moves only.                   *)
Transition(r, to) ==
  /\ ~Locked(r) /\ Legal(status[r], to)
  /\ status' = [status EXCEPT ![r] = to]

(* A rejection, and the approval of a Dangote request, are decided by the  *)
(* transition.                                                             *)
Review(r, to) ==
  /\ to = "Rejected" \/ (to = "Approved" /\ r \notin Lpg)
  /\ Transition(r, to)
  /\ UNCHANGED <<walletVars, pay, away, owner, lapsed, shelf, desk>>

(* The approval of an LPG request takes the cylinders first: the row is    *)
(* read, the difference written back by its id, and the request approved   *)
(* only then.  A row that is gone by then is not written.                  *)
BeginApprove(d, r) ==
  /\ Free(d) /\ r \in Lpg /\ status[r] = "Pending Review"
  /\ \E k \in OnShelf :
       /\ shelf[k] >= Need[r]
       /\ Step(d, [Idle EXCEPT !.at = "taking", !.req = r, !.slot = k, !.read = shelf[k]])
  /\ OnlyDesk
Left(n) == IF n = 0 THEN Gone ELSE n
Put(k, n) == shelf' = IF shelf[k] > 0 THEN [shelf EXCEPT ![k] = n] ELSE shelf
TakeCylinders(d) ==
  /\ Busy(d, "taking")
  /\ Put(desk[d].slot, Left(desk[d].read - Need[desk[d].req]))
  /\ Then(d, "approving")
  /\ UNCHANGED <<walletVars, status, pay, away, owner, lapsed>>
FinishApprove(d) ==
  /\ Busy(d, "approving") /\ Transition(desk[d].req, "Approved")
  /\ Step(d, Idle)
  /\ UNCHANGED <<walletVars, pay, away, owner, lapsed, shelf>>
RefuseApprove(d) ==
  /\ Busy(d, "approving") /\ status[desk[d].req] # "Pending Review"
  /\ Step(d, Idle) /\ OnlyDesk

-----------------------------------------------------------------------------
(* payLpgOrder, payDangoteOrder: the checks, the debit, the mark.  A       *)
(* request that has lapsed is expired instead (BeginExpireIfStale).        *)
Payable(r) == status[r] = "Approved" /\ pay[r] # "Paid" /\ r \notin lapsed
BeginPay(d, r) ==
  /\ Free(d) /\ Payable(r)
  /\ Step(d, [Idle EXCEPT !.at = "paying", !.req = r, !.cust = owner[r]])
  /\ OnlyDesk
PayUnguarded(d) ==
  LET r == desk[d].req
      k == <<"pay", r>>
  IN /\ Busy(d, "paying") /\ ~Booked(k)
     /\ balance' = [balance EXCEPT ![desk[d].cust] = @ - Price[r]]
     /\ Book(k, desk[d].cust, -Price[r])
     /\ Then(d, "marking")
     /\ UNCHANGED <<alive, hold, line, backs, merging, status, pay, away, owner, lapsed, shelf>>
PayDebit(d) ==
  LET r == desk[d].req
  IN /\ Busy(d, "paying")
     /\ Charge(r, desk[d].cust, Price[r])
     /\ Then(d, "marking")
     /\ UNCHANGED <<status, pay, away, owner, lapsed, shelf>>
RefusePay(d) ==
  LET r == desk[d].req
  IN /\ Busy(d, "paying")
     /\ ~Covers(desk[d].cust, Price[r]) \/ Booked(<<"pay", r>>)
     /\ Step(d, Idle) /\ OnlyDesk
PayMark(d) ==
  /\ Busy(d, "marking") /\ Writable(desk[d].req)
  /\ pay' = [pay EXCEPT ![desk[d].req] = "Paid"]
  /\ Step(d, Idle)
  /\ UNCHANGED <<walletVars, status, away, owner, lapsed, shelf>>

(* updatePaymentStatus and updateCollectionStatus write what they are told.*)
UpdatePayment(r, p) ==
  /\ Writable(r)
  /\ pay' = [pay EXCEPT ![r] = p]
  /\ UNCHANGED <<walletVars, status, away, owner, lapsed, shelf, desk>>
UpdateCollection(r, gone) ==
  /\ Writable(r)
  /\ away' = IF gone THEN away \cup {r} ELSE away \ {r}
  /\ UNCHANGED <<walletVars, status, pay, owner, lapsed, shelf, desk>>

-----------------------------------------------------------------------------
(* cancelLpgOrderRequest: the transition commits; then cylinders go back   *)
(* if the request had been approved, and money if it was paid.             *)
MayHave(was)      == TRUE
HadCylinders(was) == was = "Approved"
Refundable(r) == pay[r] = "Paid"
NothingElse(c) == "idle"
AfterReturn(c) == IF c.paid THEN "refunding" ELSE "idle"
Resume(c, at) == IF at = "idle" THEN Idle ELSE [c EXCEPT !.at = at]
CancelLpg(d, r) ==
  /\ Free(d) /\ r \in Lpg /\ r \notin away
  /\ Transition(r, "Cancelled")
  /\ LET c == [Idle EXCEPT !.req = r, !.cust = owner[r], !.paid = Refundable(r)]
     IN Step(d, Resume(c, IF HadCylinders(status[r]) THEN "returning" ELSE AfterReturn(c)))
  /\ UNCHANGED <<walletVars, pay, away, owner, lapsed, shelf>>
(* incrementCylinderQuantity: a row is read and written back, or inserted. *)
ReadShelf(k) == [slot |-> k, read |-> IF k = NoSlot THEN 0 ELSE shelf[k]]
ShelfSeen == IF OnShelf = {} THEN {NoSlot} ELSE OnShelf
BeginReturn(d) ==
  /\ Busy(d, "returning")
  /\ \E k \in ShelfSeen :
       Step(d, [desk[d] EXCEPT !.at = "putting", !.slot = k, !.read = ReadShelf(k).read])
  /\ OnlyDesk
Return(c) ==
  IF c.slot = NoSlot THEN \E k \in Fresh : shelf' = [shelf EXCEPT ![k] = Need[c.req]]
                     ELSE Put(c.slot, c.read + Need[c.req])
ReturnCylinders(d) ==
  /\ Busy(d, "putting") /\ Return(desk[d])
  /\ Step(d, Resume([desk[d] EXCEPT !.slot = NoSlot, !.read = 0], AfterReturn(desk[d])))
  /\ UNCHANGED <<walletVars, status, pay, away, owner, lapsed>>
(* The refund goes to the customer read with the request; what credit      *)
(* answers is not looked at.                                               *)
Refund(d) ==
  LET r == desk[d].req
  IN /\ Busy(d, "refunding")
     /\ GiveBack(r, desk[d].cust, Price[r])
     /\ Then(d, "closing")
     /\ UNCHANGED <<status, pay, away, owner, lapsed, shelf>>
RefundLost(d) ==
  /\ Busy(d, "refunding")
  /\ desk[d].cust \notin alive \/ Booked(<<"refund", desk[d].req>>)
  /\ Then(d, "closing") /\ OnlyDesk
MarkRefunded(d) ==
  /\ Busy(d, "closing") /\ Writable(desk[d].req)
  /\ pay' = [pay EXCEPT ![desk[d].req] = "Refunded"]
  /\ Step(d, Idle)
  /\ UNCHANGED <<walletVars, status, away, owner, lapsed, shelf>>

(* cancelMyDangoteOrder, decided by cancelIfWithdrawable.                  *)
Withdrawable(r) == status[r] \in {"Pending Review", "Approved"} /\ pay[r] # "Paid"
Withdraw(r) ==
  /\ r \notin Lpg /\ Withdrawable(r) /\ ~Locked(r)
  /\ status' = [status EXCEPT ![r] = "Cancelled"]
  /\ UNCHANGED <<walletVars, pay, away, owner, lapsed, shelf, desk>>

-----------------------------------------------------------------------------
DayEnds(r) ==
  /\ status[r] = "Approved" /\ r \notin lapsed
  /\ lapsed' = lapsed \cup {r}
  /\ UNCHANGED <<walletVars, status, pay, away, owner, shelf, desk>>

(* findStaleApproved, and a listing that finds a stale request, read       *)
(* without a lock; expireIfStale looks under it.                           *)
Stale(r) == status[r] = "Approved" /\ pay[r] # "Paid" /\ r \in lapsed
Expiring(r) == [Idle EXCEPT !.at = "expiring", !.req = r]
BeginSweep(d, r) ==
  /\ Free(d) /\ Stale(r)
  /\ Step(d, [Idle EXCEPT !.at = "swept", !.req = r]) /\ OnlyDesk
BeginExpireIfStale(d, r) ==
  /\ Free(d) /\ Stale(r) /\ ~Locked(r)
  /\ Step(d, Expiring(r)) /\ OnlyDesk

(* expireRequest: the transition, under the row lock ...                   *)
SweepLocks(d) ==
  /\ Busy(d, "swept") /\ ~Locked(desk[d].req) /\ Legal(status[desk[d].req], "Expired")
  /\ Step(d, Expiring(desk[d].req)) /\ OnlyDesk
SweepSkips(d) ==
  /\ Busy(d, "swept") /\ ~Locked(desk[d].req) /\ ~Legal(status[desk[d].req], "Expired")
  /\ Step(d, Idle) /\ OnlyDesk
(* ... then the cylinders, outside the transaction, then the commit.       *)
ExpiryReads(d) ==
  /\ Busy(d, "expiring") /\ desk[d].req \in Lpg /\ ~desk[d].paid
  /\ \E k \in ShelfSeen :
       Step(d, [desk[d] EXCEPT !.at = "shelving", !.slot = k, !.read = ReadShelf(k).read])
  /\ OnlyDesk
ExpiryReturns(d) ==
  /\ Busy(d, "shelving") /\ Return(desk[d])
  /\ Step(d, [desk[d] EXCEPT !.at = "expiring", !.paid = TRUE, !.slot = NoSlot, !.read = 0])
  /\ UNCHANGED <<walletVars, status, pay, away, owner, lapsed>>
CommitExpiry(d) ==
  /\ Busy(d, "expiring") /\ (desk[d].req \in Lpg => desk[d].paid)
  /\ status' = [status EXCEPT ![desk[d].req] = "Expired"]
  /\ Step(d, Idle)
  /\ UNCHANGED <<walletVars, pay, away, owner, lapsed, shelf>>

(* setCylinders: the rows of the station are deleted, then typed anew.     *)
BeginEdit(d, n) ==
  /\ Free(d)
  /\ shelf' = [k \in Slots |-> IF shelf[k] > 0 THEN Gone ELSE shelf[k]]
  /\ Step(d, [Idle EXCEPT !.at = "typing", !.read = n])
  /\ UNCHANGED <<walletVars, status, pay, away, owner, lapsed>>
FinishEdit(d) ==
  /\ Busy(d, "typing")
  /\ \E k \in Fresh : shelf' = [shelf EXCEPT ![k] = desk[d].read]
  /\ Step(d, Idle)
  /\ UNCHANGED <<walletVars, status, pay, away, owner, lapsed>>

(* The process stops: an open transaction is rolled back, nothing else is. *)
Crash(d) == ~Free(d) /\ Step(d, Idle) /\ OnlyDesk

(* The requests of a merged customer follow.                               *)
OwnersMoved(m) ==
  [r \in Requests |-> IF owner[r] = merging[m].from THEN merging[m].to ELSE owner[r]]
MergeWithRequests(m) ==
  /\ CommitMerge(m) /\ \A r \in Requests : owner[r] = merging[m].from => ~Locked(r)
  /\ owner' = OwnersMoved(m)
  /\ UNCHANGED <<status, pay, away, lapsed, shelf, desk>>

-----------------------------------------------------------------------------
RequestNext ==
  \/ \E r \in Requests : CreateRequest(r) \/ Withdraw(r) \/ DayEnds(r)
  \/ \E r \in Requests, to \in {"Approved", "Rejected"} : Review(r, to)
  \/ \E r \in Requests, p \in {"Paid", "Unpaid"} : UpdatePayment(r, p)
  \/ \E r \in Requests, gone \in BOOLEAN : UpdateCollection(r, gone)
  \/ \E d \in Desks, r \in Requests :
       \/ BeginApprove(d, r) \/ BeginPay(d, r) \/ CancelLpg(d, r)
       \/ BeginSweep(d, r) \/ BeginExpireIfStale(d, r)
  \/ \E d \in Desks :
       \/ TakeCylinders(d) \/ FinishApprove(d) \/ RefuseApprove(d)
       \/ PayDebit(d) \/ RefusePay(d) \/ PayMark(d)
       \/ BeginReturn(d) \/ ReturnCylinders(d) \/ Refund(d) \/ RefundLost(d) \/ MarkRefunded(d)
       \/ SweepLocks(d) \/ SweepSkips(d) \/ ExpiryReads(d) \/ ExpiryReturns(d) \/ CommitExpiry(d)
       \/ FinishEdit(d) \/ Crash(d)
  \/ \E d \in Desks, n \in Shelves : BeginEdit(d, n)

Next ==
  \/ RequestNext
  \/ DeskMoves /\ UNCHANGED reqVars
  \/ \E m \in Screens : MergeWithRequests(m)

Spec == InitRequests /\ [][Next]_vars

-----------------------------------------------------------------------------
(* Properties.                                                             *)

(* A request that was paid from the wallet does not end with the money     *)
(* kept: the desk that cancels it is on the way to a refund.  What does    *)
(* keep it is a payment that has not been marked when the request ends, or *)
(* is taken after it has; an expiry, which does not look at the payment    *)
(* again; a desk that stops; and a refund to a customer who was merged     *)
(* away since.                                                             *)
Ended(r) == status[r] \in {"Rejected", "Cancelled", "Expired"}
Refunding(r) ==
  \E d \in Desks : desk[d].req = r /\ desk[d].paid /\ desk[d].at \in {"returning", "putting", "refunding"}
Kept(r) ==
  Ended(r) /\ Booked(<<"pay", r>>) /\ ~Booked(<<"refund", r>>) /\ ~Refunding(r)
Unmarked(r) == pay[r] # "Paid"
KeepsMoneyOnlyByRace ==
  [][\A r \in Requests : ~Kept(r) /\ Kept(r)' =>
       \/ Unmarked(r)
       \/ \E d \in Desks : desk[d].req = r /\ (CommitExpiry(d) \/ PayDebit(d) \/ Crash(d))
       \/ \E d \in Desks : desk[d].req = r /\ RefundLost(d) /\ desk[d].cust \notin alive]_vars

(* The cylinders on the shelf, those of approved requests and those a desk *)
(* has in hand are the ones the station was given.  They change by what    *)
(* the station types, by a write over a quantity that is no longer what    *)
(* was read, by a desk that stops, and by an approval that is refused      *)
(* after it has taken them.                                                *)
OnHand == SumFunctionOnSet([k \in Slots |-> IF shelf[k] > 0 THEN shelf[k] ELSE 0], Slots)
Reserved == SumFunctionOnSet([r \in Requests |-> IF r \in Lpg /\ status[r] = "Approved" THEN Need[r] ELSE 0],
                             Requests)
InHand(c) ==
  IF c.at \in {"approving", "returning", "putting"} THEN Need[c.req]
  ELSE IF c.at = "expiring" /\ c.paid THEN -Need[c.req] ELSE 0
Accounted == OnHand + Reserved + SumFunctionOnSet([d \in Desks |-> InHand(desk[d])], Desks)
Overwrites(d) ==
  /\ TakeCylinders(d) \/ ReturnCylinders(d) \/ ExpiryReturns(d)
  /\ desk[d].slot # NoSlot /\ shelf[desk[d].slot] # desk[d].read
CylindersDriftOnlyByOverlap ==
  [][Accounted' # Accounted =>
       \E d \in Desks :
         \/ Overwrites(d) \/ RefuseApprove(d) \/ Crash(d) \/ FinishEdit(d)
         \/ \E n \in Shelves : BeginEdit(d, n)]_vars

(* cancelMyDangoteOrder: "a wallet payment that lands between the read and *)
(* here loses the race (zero rows) instead of leaving a Paid-but-Cancelled *)
(* request with the money already debited".  The payment debits first and  *)
(* marks later, and between the two the withdrawal wins.                   *)
NeverPaidAndCancelled ==
  \A r \in Requests \ Lpg :
    ~(status[r] = "Cancelled" /\ pay[r] = "Paid" /\ Booked(<<"pay", r>>))
================================================================================
