------------------------------- MODULE Expenses ---------------------------------
(***************************************************************************)
(* Payment requests and their approval chain, and the accounts they are    *)
(* booked to.  Every handler reads the request first, decides on what it   *)
(* read, and writes later by id: the status it writes over may no longer   *)
(* be the one it decided on.                                               *)
(***************************************************************************)
EXTENDS Integers, FiniteSets

CONSTANTS
  Expenses,
  Accounts,        \* GL accounts
  Staff,
  RolesOf,         \* [Staff -> SUBSET roles]
  Tabs             \* requests of the staff's screens that can be under way

ASSUME ExpensesAssumption == DOMAIN RolesOf = Staff

VARIABLES
  exp,             \* pfi_expenses
  signed,          \* the stages signed since it was last submitted
  group,           \* the GL group of an account
  tab,
  torn             \* requests a status of which was overwritten unread, and accounts likewise

expVars == <<exp, signed, group, tab, torn>>

-----------------------------------------------------------------------------
Open == {"pending", "verified", "audit_approved", "admin_approved", "changes_requested"}
Stages == {"verified", "audit_approved", "admin_approved", "paid"}
Statuses == Open \cup {"paid", "rejected"}
Actions == {"verify", "audit_approve", "admin_approve", "mark_paid", "reject", "request_changes"}
To == [a \in Actions |->
        CASE a = "verify" -> "verified" [] a = "audit_approve" -> "audit_approved"
          [] a = "admin_approve" -> "admin_approved" [] a = "mark_paid" -> "paid"
          [] a = "reject" -> "rejected" [] OTHER -> "changes_requested"]
From(a) ==
  CASE a = "verify" -> {"pending", "changes_requested"} [] a = "audit_approve" -> {"verified"}
    [] a = "admin_approve" -> {"audit_approved"} [] a = "mark_paid" -> {"admin_approved"}
    [] a = "reject" -> Open [] OTHER -> Open \ {"changes_requested"}
Overseers == {"super_admin", "admin", "finance", "expenditure_officer"}
By(a) ==
  CASE a = "verify" -> {"super_admin", "admin", "expenditure_officer"}
    [] a = "audit_approve" -> {"super_admin", "finance"} [] a = "admin_approve" -> {"super_admin", "admin"}
    [] a = "mark_paid" -> {"super_admin", "expenditure_officer"} [] OTHER -> Overseers
HasAny(s, roles) == RolesOf[s] \cap roles # {}
IsSuper(s) == "super_admin" \in RolesOf[s]

NoExp == [st |-> "none", by |-> "nobody", gone |-> FALSE, direct |-> FALSE,
          acct |-> "none", cargo |-> FALSE]
(* The status a screen read, and what it is about to do.                   *)
NoTab == [at |-> "idle", who |-> "nobody", e |-> "none", saw |-> "none", do |-> "none",
          acct |-> "none", grp |-> "none"]
Exists(e)  == exp[e].st # "none"
Shown(e)   == Exists(e) /\ ~exp[e].gone
Posted(a)  == {e \in Expenses : Exists(e) /\ exp[e].acct = a}
Groups == {"pfi_direct", "administrative"}

TypeOKExpenses ==
  /\ exp \in [Expenses -> {NoExp} \cup
               [st: Statuses, by: Staff, gone: BOOLEAN, direct: BOOLEAN,
                acct: Accounts, cargo: BOOLEAN]]
  /\ signed \in [Expenses -> SUBSET Stages]
  /\ group \in [Accounts -> Groups \cup {"deleted"}]
  /\ torn \subseteq Expenses \cup Accounts

InitExpenses ==
  /\ exp = [e \in Expenses |-> NoExp]
  /\ signed = [e \in Expenses |-> {}]
  /\ group \in [Accounts -> Groups]
  /\ tab = [t \in Tabs |-> NoTab]
  /\ torn = {}

-----------------------------------------------------------------------------
Begins(t, r) == tab[t] = NoTab /\ tab' = [tab EXCEPT ![t] = r]
Ends(t) == tab' = [tab EXCEPT ![t] = NoTab]
TabAt(t, at) == tab[t].at = at
Table == <<exp, signed, group, torn>>
(* A write that decided on what is no longer there.                        *)
Overwrites(t) == exp[tab[t].e].st # tab[t].saw \/ exp[tab[t].e].gone
TornBy(t) == IF Overwrites(t) THEN torn \cup {tab[t].e} ELSE torn

(* createExpense: the account is read (resolveBooking), then the request   *)
(* goes in, at the start of the chain or, for a super admin, at its end.   *)
BeginCreate(t, s, e, a, direct) ==
  /\ ~Exists(e) /\ \A u \in Tabs : tab[u].e # e
  /\ group[a] # "deleted" /\ (direct => IsSuper(s))
  /\ Begins(t, [NoTab EXCEPT !.at = "creating", !.who = s, !.e = e, !.acct = a, !.grp = group[a],
                             !.do = IF direct THEN "record_as_paid" ELSE "none"])
  /\ UNCHANGED Table
Misbooked(a, grp) == IF group[a] # grp THEN {a} ELSE {}
FinishCreate(t) ==
  LET r == tab[t]
      direct == r.do = "record_as_paid"
  IN /\ TabAt(t, "creating") /\ group[r.acct] # "deleted"
     /\ exp' = [exp EXCEPT ![r.e] = [st |-> IF direct THEN "paid" ELSE "pending", by |-> r.who,
                                     gone |-> FALSE, direct |-> direct, acct |-> r.acct,
                                     cargo |-> r.grp = "pfi_direct"]]
     /\ torn' = torn \cup Misbooked(r.acct, r.grp)
     /\ Ends(t)
     /\ UNCHANGED <<signed, group>>

-----------------------------------------------------------------------------
(* reviewExpense: checkTransition on the row as read, then the update.     *)
Allowed(s, e, a) ==
  /\ HasAny(s, By(a))
  /\ exp[e].by # s \/ IsSuper(s)
  /\ exp[e].st \in From(a)
BeginReview(t, s, e, a) ==
  /\ Shown(e) /\ Allowed(s, e, a)
  /\ Begins(t, [NoTab EXCEPT !.at = "reviewing", !.who = s, !.e = e, !.saw = exp[e].st, !.do = a])
  /\ UNCHANGED Table
SignedBy(t) ==
  LET st == To[tab[t].do]
  IN CASE st = "verified" -> {st}
       [] st \in Stages   -> signed[tab[t].e] \cup {st}
       [] OTHER           -> {}
FinishReview(t) ==
  /\ TabAt(t, "reviewing")
  /\ exp' = [exp EXCEPT ![tab[t].e].st = To[tab[t].do]]
  /\ signed' = [signed EXCEPT ![tab[t].e] = SignedBy(t)]
  /\ torn' = TornBy(t)
  /\ Ends(t)
  /\ UNCHANGED group

(* updateExpense: the details, and with another account its cargo;         *)
(* correcting a rejected or sent-back request submits it again.            *)
MayEditAny(s, e) == Shown(e)
MayEdit(s, e) ==
  /\ Shown(e)
  /\ IF exp[e].st = "paid" THEN IsSuper(s) ELSE exp[e].by = s \/ HasAny(s, Overseers \cup {"audit"})
BeginEdit(t, s, e, a) ==
  /\ MayEdit(s, e)
  /\ LET read == [NoTab EXCEPT !.at = "editing", !.who = s, !.e = e, !.saw = exp[e].st]
     IN IF a = exp[e].acct THEN Begins(t, read)
        ELSE group[a] # "deleted" /\ Begins(t, [read EXCEPT !.acct = a, !.grp = group[a]])
  /\ UNCHANGED Table
FinishEdit(t) ==
  LET r == tab[t]
      again == r.saw \in {"rejected", "changes_requested"}
      moved == r.acct # "none"
  IN /\ TabAt(t, "editing") /\ ~exp[r.e].gone /\ (moved => group[r.acct] # "deleted")
     /\ exp' = [exp EXCEPT ![r.e].st = IF again THEN "pending" ELSE @,
                           ![r.e].acct = IF moved THEN r.acct ELSE @,
                           ![r.e].cargo = IF moved THEN r.grp = "pfi_direct" ELSE @]
     /\ signed' = [signed EXCEPT ![r.e] = IF again THEN {} ELSE @]
     /\ torn' = TornBy(t) \cup (IF moved THEN Misbooked(r.acct, r.grp) ELSE {})
     /\ Ends(t)
     /\ UNCHANGED group

(* deleteExpense: the row stays, out of every total.                       *)
BeginDrop(t, s, e) ==
  /\ Shown(e) /\ (exp[e].by = s \/ HasAny(s, Overseers)) /\ (exp[e].st = "paid" => IsSuper(s))
  /\ Begins(t, [NoTab EXCEPT !.at = "dropping", !.who = s, !.e = e, !.saw = exp[e].st])
  /\ UNCHANGED Table
FinishDrop(t) ==
  /\ TabAt(t, "dropping") /\ ~exp[tab[t].e].gone
  /\ exp' = [exp EXCEPT ![tab[t].e].gone = TRUE]
  /\ torn' = TornBy(t)
  /\ Ends(t)
  /\ UNCHANGED <<signed, group>>

-----------------------------------------------------------------------------
(* updateCategory, deleteCategory: only while no live request is posted to *)
(* the account.  The rows refer to it, so one that a request, deleted or   *)
(* not, was ever posted to cannot be deleted.                              *)
Unguarded(a) == TRUE
Unused(a)    == \A e \in Posted(a) : exp[e].gone
BeginRegroup(t, a, g) ==
  /\ Unused(a) /\ group[a] \notin {g, "deleted"}
  /\ Begins(t, [NoTab EXCEPT !.at = "moving", !.acct = a, !.grp = g])
  /\ UNCHANGED Table
FinishRegroup(t) ==
  LET r == tab[t]
  IN /\ TabAt(t, "moving") /\ group[r.acct] # "deleted" /\ (r.grp = "deleted" => Posted(r.acct) = {})
     /\ group' = [group EXCEPT ![r.acct] = r.grp]
     /\ torn' = IF Unused(r.acct) THEN torn ELSE torn \cup {r.acct}
     /\ Ends(t)
     /\ UNCHANGED <<exp, signed>>

(* A request that gives up: the row or account it names is gone, or the    *)
(* process stopped.                                                        *)
GiveUp(t) == tab[t] # NoTab /\ Ends(t) /\ UNCHANGED Table

NextExpenses ==
  \/ \E t \in Tabs, s \in Staff, e \in Expenses :
       \/ \E a \in Accounts, direct \in BOOLEAN : BeginCreate(t, s, e, a, direct)
       \/ \E a \in Actions : BeginReview(t, s, e, a)
       \/ \E a \in Accounts : BeginEdit(t, s, e, a)
       \/ BeginDrop(t, s, e)
  \/ \E t \in Tabs, a \in Accounts, g \in Groups \cup {"deleted"} : BeginRegroup(t, a, g)
  \/ \E t \in Tabs :
       FinishCreate(t) \/ FinishReview(t) \/ FinishEdit(t) \/ FinishDrop(t) \/ FinishRegroup(t) \/ GiveUp(t)

SpecExpenses == InitExpenses /\ [][NextExpenses]_expVars

-----------------------------------------------------------------------------
(* Properties.                                                             *)

(* A paid request was signed at all four stages since it was submitted, or *)
(* was recorded as paid by a super admin; but where a status was           *)
(* overwritten unread.                                                     *)
PaidWasSigned ==
  \A e \in Expenses \ torn : exp[e].st = "paid" =>
    exp[e].direct \/ signed[e] = Stages

(* "A paid expense is closed to everyone EXCEPT a super admin": it moves,  *)
(* changes its account or is deleted by nobody else, unless they read it   *)
(* before it was paid, and even a super admin leaves it paid.              *)
Paid(e)     == exp[e].st = "paid"
ReadPaid(t) == tab[t].saw = "paid"
ClosedUnlessStale ==
  [][\A e \in Expenses : Paid(e) /\ exp'[e] # exp[e] =>
       \E t \in Tabs : /\ tab[t].e = e /\ tab'[t] = NoTab
                       /\ ~ReadPaid(t) \/ (IsSuper(tab[t].who) /\ exp'[e].st = "paid")]_expVars

(* "A general overhead can never quietly inflate one batch's cost": a      *)
(* request names a cargo exactly when its account asks for one, but where  *)
(* the account was moved while one was being posted to it.                  *)
CargoIsTheAccounts ==
  \A e \in Expenses : Shown(e) /\ exp[e].acct \notin torn =>
    (exp[e].cargo <=> group[exp[e].acct] = "pfi_direct")

(* Paid requests are signed for, and the cost is on the right cargo.       *)
ExpensesHold == PaidWasSigned /\ CargoIsTheAccounts

(* expense.controller.js, reviewExpense: "The single path by which status  *)
(* moves".  An edit writes it too, over a sign-off it has not seen.        *)
OnlyReviewMoves ==
  [][\A e \in Expenses : Shown(e) /\ Shown(e)' /\ exp'[e].st # exp[e].st => \E t \in Tabs : FinishReview(t)]_expVars
================================================================================
