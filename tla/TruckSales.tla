------------------------------- MODULE TruckSales -------------------------------
(***************************************************************************)
(* Bank statements of one account, and the truck-sale payments that claim  *)
(* their lines.  An upload reads what is on the account, then inserts the  *)
(* rows it found new one statement at a time; claims, deletions and a      *)
(* statement's deletion are transactions that lock the lines they touch;   *)
(* moving an overpayment reads the surplus before its transaction begins.  *)
(***************************************************************************)
EXTENDS Integers, FiniteSets, Functions

CONSTANTS
  Credits,         \* transfers the bank received
  Referenced,      \* those it gave a reference
  Worth,           \* [Credits -> naira]
  Days,            \* the days exports may date a credit
  Files,           \* exports: [file -> its rows]
  Uploads, Trucks,
  Expected,        \* what a truck's load was sold for
  Payments,        \* ids of delivery_sales
  Moves

Rows == [credit: Credits, day: Days]
ASSUME TruckSalesAssumption ==
  /\ Referenced \subseteq Credits /\ Worth \in [Credits -> Nat] /\ Expected \in Nat
  /\ \A f \in DOMAIN Files : Files[f] \subseteq Rows
  /\ IsFiniteSet(Rows) /\ IsFiniteSet(Payments) /\ "none" \notin Credits \cup Trucks

VARIABLES
  statement,       \* bank_statements: the uploads that have a row, and those deleted
  line,            \* bank_statement_lines by dedup_key, which is unique
  upload,
  sale,            \* delivery_sales
  move,            \* overpayments being moved
  double,          \* credits two uploads were inserting at once
  shaken           \* trucks whose payments changed by hand or under a move

truckVars == <<statement, line, upload, sale, move, double, shaken>>

-----------------------------------------------------------------------------
NoLine   == [of |-> "none", st |-> "none"]
NoRow    == [credit |-> "none", day |-> 0]
NoSale   == [truck |-> "none", amount |-> 0, line |-> NoRow, group |-> "none"]
NoUpload == [at |-> "idle", fresh |-> {}, seen |-> {}]
NoMove   == [at |-> "idle", from |-> "none", to |-> "none", amount |-> 0]
OnRecord == {k \in Rows : line[k] # NoLine}
SalesOn(t) == {s \in Payments : sale[s].truck = t}
Added(sales) == SumFunctionOnSet([s \in Payments |-> sale[s].amount], sales)
Takings(t) == Added(SalesOn(t))
ClaimsOn(k) == {s \in Payments : sale[s].line = k}
Free       == {s \in Payments : sale[s] = NoSale}
(* New rows of delivery_sales, one for each of the things.                 *)
NewFor(things) ==
  CHOOSE f \in [things -> Free] : \A i, j \in things : i # j => f[i] # f[j]
RoomFor(n) == Cardinality(Free) >= n

InitTruckSales ==
  /\ statement = [u \in Uploads |-> "none"]
  /\ line = [k \in Rows |-> NoLine]
  /\ upload = [u \in Uploads |-> NoUpload]
  /\ sale = [s \in Payments |-> NoSale]
  /\ move = [m \in Moves |-> NoMove]
  /\ double = {} /\ shaken = {}

-----------------------------------------------------------------------------
(* ingest: partitionRows, then the statement, then its lines.  A reference *)
(* that is on the account is the same payment whatever else differs; a row *)
(* without one is known by its fingerprint.                                *)
ByFingerprint(k) == k \notin OnRecord
IsNew(k) ==
  IF k.credit \in Referenced THEN \A q \in OnRecord : q.credit # k.credit ELSE k \notin OnRecord
Partition(u, f) ==
  /\ statement[u] = "none" /\ upload[u] = NoUpload
  /\ {k \in Files[f] : IsNew(k)} # {}
  /\ upload' = [upload EXCEPT ![u] = [at |-> "partitioned", fresh |-> {k \in Files[f] : IsNew(k)},
                                      seen |-> OnRecord]]
  /\ UNCHANGED <<statement, line, sale, move, double, shaken>>
InsertStatement(u) ==
  /\ upload[u].at = "partitioned"
  /\ upload' = [upload EXCEPT ![u].at = "inserting"]
  /\ statement' = [statement EXCEPT ![u] = "kept"]
  /\ UNCHANGED <<line, sale, move, double, shaken>>
Left(u, k) == [upload[u] EXCEPT !.fresh = @ \ {k}]
InsertLine(u, k) ==
  /\ upload[u].at = "inserting" /\ k \in upload[u].fresh /\ statement[u] = "kept"
  /\ line' = IF k \in OnRecord THEN line ELSE [line EXCEPT ![k] = [of |-> u, st |-> "unmatched"]]
  /\ double' = IF \E q \in OnRecord \ upload[u].seen : q.credit = k.credit THEN double \cup {k.credit} ELSE double
  /\ upload' = [upload EXCEPT ![u] = IF Left(u, k).fresh = {} THEN NoUpload ELSE Left(u, k)]
  /\ UNCHANGED <<statement, sale, move, shaken>>
(* The process stops, or the statement was deleted meanwhile.              *)
EndUpload(u) ==
  /\ upload[u] # NoUpload
  /\ upload' = [upload EXCEPT ![u] = NoUpload]
  /\ UNCHANGED <<statement, line, sale, move, double, shaken>>

(* deleteStatement: refused when a line of it was used in any way.         *)
LinesOf(u) == {k \in Rows : line[k].of = u}
UsedAtAll(k) == line[k].st # "unmatched" \/ ClaimsOn(k) # {}
DeleteStatement(u) ==
  /\ statement[u] = "kept"
  /\ \A k \in LinesOf(u) : ~UsedAtAll(k)
  /\ statement' = [statement EXCEPT ![u] = "deleted"]
  /\ line' = [k \in Rows |-> IF k \in LinesOf(u) THEN NoLine ELSE line[k]]
  /\ UNCHANGED <<upload, sale, move, double, shaken>>

-----------------------------------------------------------------------------
(* createFromStatementLines: every line named, or none.                    *)
Claim(t, keys) ==
  LET payments == NewFor(keys)
  IN /\ keys # {} /\ RoomFor(Cardinality(keys)) /\ \A k \in keys : line[k].st = "unmatched"
     /\ line' = [k \in Rows |-> IF k \in keys THEN [line[k] EXCEPT !.st = "matched"] ELSE line[k]]
     /\ sale' = [s \in Payments |->
          IF \E k \in keys : payments[k] = s
          THEN LET k == CHOOSE q \in keys : payments[q] = s
               IN [truck |-> t, amount |-> Worth[k.credit], line |-> k, group |-> "none"]
          ELSE sale[s]]
     /\ UNCHANGED <<statement, upload, move, double, shaken>>
(* A payment of an order claims a line likewise, and gives it back.        *)
MatchToOrder(k) ==
  /\ line[k].st = "unmatched"
  /\ line' = [line EXCEPT ![k].st = "matched_to_order"]
  /\ UNCHANGED <<statement, upload, sale, move, double, shaken>>
ReleaseFromOrder(k) ==
  /\ line[k].st = "matched_to_order"
  /\ line' = [line EXCEPT ![k].st = "unmatched"]
  /\ UNCHANGED <<statement, upload, sale, move, double, shaken>>

(* Typed in by hand, and corrected by hand whatever it came from.          *)
Type(t, amount) ==
  /\ RoomFor(1)
  /\ sale' = [sale EXCEPT ![NewFor({1})[1]] =
          [truck |-> t, amount |-> amount, line |-> NoRow, group |-> "none"]]
  /\ UNCHANGED <<statement, line, upload, move, double, shaken>>
Correct(s, amount) ==
  /\ sale[s] # NoSale /\ sale[s].amount # amount
  /\ sale' = [sale EXCEPT ![s].amount = amount]
  /\ shaken' = shaken \cup {sale[s].truck}
  /\ UNCHANGED <<statement, line, upload, move, double>>

(* deleteById: the line it claimed is given back with it.                  *)
ClaimedBy(s)  == {k \in Rows : sale[s].line = k}
DeleteSale(s) ==
  /\ sale[s] # NoSale
  /\ sale' = [sale EXCEPT ![s] = NoSale]
  /\ line' = [k \in Rows |-> IF k \in ClaimedBy(s) THEN [line[k] EXCEPT !.st = "unmatched"] ELSE line[k]]
  /\ shaken' = shaken \cup {sale[s].truck}
  /\ UNCHANGED <<statement, upload, move, double>>

-----------------------------------------------------------------------------
(* transferOverpayment: the surplus is recomputed, then the two legs go in *)
(* together.                                                               *)
Surplus(t)  == Takings(t) - Expected
BeginMove(m, from, to, amount) ==
  /\ move[m] = NoMove /\ from # to
  /\ amount > 0 /\ amount <= Surplus(from)
  /\ \A s \in Payments : sale[s].group # m
  /\ move' = [move EXCEPT ![m] = [at |-> "moving", from |-> from, to |-> to, amount |-> amount]]
  /\ UNCHANGED <<statement, line, upload, sale, double, shaken>>
FinishMove(m) ==
  LET r == move[m]
      leg == NewFor({"debit", "credit"})
  IN /\ r.at = "moving" /\ RoomFor(2)
     /\ sale' = [sale EXCEPT
          ![leg["debit"]]  = [truck |-> r.from, amount |-> -r.amount, line |-> NoRow, group |-> m],
          ![leg["credit"]] = [truck |-> r.to, amount |-> r.amount, line |-> NoRow, group |-> m]]
     /\ shaken' = IF \E n \in Moves \ {m} : move[n].from = r.from THEN shaken \cup {r.from} ELSE shaken
     /\ move' = [move EXCEPT ![m] = NoMove]
     /\ UNCHANGED <<statement, line, upload, double>>

NextTruckSales ==
  \/ \E u \in Uploads : \/ \E f \in DOMAIN Files : Partition(u, f)
                        \/ \E k \in Rows : InsertLine(u, k)
                        \/ InsertStatement(u) \/ EndUpload(u) \/ DeleteStatement(u)
  \/ \E k \in Rows : MatchToOrder(k) \/ ReleaseFromOrder(k)
  \/ \E t \in Trucks : Type(t, Expected) \/ \E keys \in SUBSET OnRecord : Claim(t, keys)
  \/ \E s \in Payments : Correct(s, Expected) \/ DeleteSale(s)
  \/ \E m \in Moves : \/ \E t, o \in Trucks : \E amount \in 1..Surplus(t) : BeginMove(m, t, o, amount)
                      \/ FinishMove(m)

SpecTruckSales == InitTruckSales /\ [][NextTruckSales]_truckVars

-----------------------------------------------------------------------------
(* Properties.                                                             *)
TypeOKTruckSales ==
  /\ statement \in [Uploads -> {"none", "kept", "deleted"}]
  /\ line \in [Rows -> {NoLine} \cup [of: Uploads, st: {"unmatched", "matched", "matched_to_order"}]]
  /\ upload \in [Uploads -> [at: {"idle", "partitioned", "inserting"}, fresh: SUBSET Rows, seen: SUBSET Rows]]
  /\ sale \in [Payments -> {NoSale} \cup [truck: Trucks, amount: Int, line: Rows \cup {NoRow},
                                          group: Moves \cup {"none"}]]
  /\ move \in [Moves -> {NoMove} \cup [at: {"moving"}, from: Trucks, to: Trucks, amount: Nat]]
  /\ double \subseteq Credits /\ shaken \subseteq Trucks

(* A line is spent by exactly one payment while it is matched, and by none *)
(* otherwise: claimed twice, freed with its payment kept, kept with its    *)
(* payment deleted, or deleted beneath one, are what the code guards.      *)
LineSpentOnce ==
  \A k \in Rows : Cardinality({s \in Payments : sale[s].line = k}) = (IF line[k].st = "matched" THEN 1 ELSE 0)

(* "The reference is the payment": a credit with a reference is on the     *)
(* account once, unless two uploads were inserting it at the same time.    *)
CreditOnRecordOnce ==
  \A c \in Referenced \ double : Cardinality({k \in Rows : line[k] # NoLine /\ k.credit = c}) <= 1

(* "Only the surplus is available to move": a truck money was moved from   *)
(* still has what its load was sold for, but where its payments were       *)
(* changed by hand, or two moves from it overlapped.                       *)
MovesAreFunded ==
  \A t \in Trucks \ shaken : (\E s \in SalesOn(t) : sale[s].amount < 0) => Takings(t) >= Expected

(* A credit is on record once and is spent once, through the moves of an   *)
(* overpayment from truck to truck as well.                                *)
SalesHold == TypeOKTruckSales /\ LineSpentOnce /\ CreditOnRecordOnce /\ MovesAreFunded

(* "A credit that lands without its matching debit is money created out of *)
(* nothing": a leg can be deleted or corrected alone.                      *)
LegsCancel ==
  \A m \in Moves : Added({s \in Payments : sale[s].group = m}) = 0

(* "A row that arrived in between is caught there, by the unique index."   *)
(* The index is on the fingerprint, and a reference dated otherwise has    *)
(* another.                                                                *)
OneLinePerReference ==
  \A c \in Referenced : Cardinality({k \in Rows : line[k] # NoLine /\ k.credit = c}) <= 1
================================================================================
