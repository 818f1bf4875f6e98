--------------------------------- MODULE Codes ----------------------------------
(***************************************************************************)
(* One-time codes of one customer: issuing under the send limits and       *)
(* verifying under the attempt limit.  Limits are counted from the rows,   *)
(* before the row that is counted is written; issuing is a transaction     *)
(* that sees what was committed when it began.                             *)
(***************************************************************************)
EXTENDS Integers, FiniteSets

CONSTANTS
  MaxCodes,        \* a bound: codes issued
  Purposes,        \* auth, account_deletion
  Attempts,        \* MAX_ATTEMPTS
  PerWindow,       \* codes a window, by phone, by address or for the day
  Handlers         \* requests that can be under way

ASSUME CodesAssumption ==
  /\ MaxCodes \in Nat /\ Attempts \in Nat \ {0} /\ PerWindow \in Nat \ {0}
  /\ IsFiniteSet(Handlers)

VARIABLES
  code,            \* customer_otps, by id
  recent,          \* the codes inside the window
  accepted,        \* how often a code was accepted
  handler

codeVars == <<code, recent, accepted, handler>>

-----------------------------------------------------------------------------
CodeIds == 1..MaxCodes
NoCode  == [for |-> "none", tries |-> 0, spent |-> FALSE, old |-> FALSE]
Resting == [at |-> "idle", for |-> "none", saw |-> {}, id |-> 0, tries |-> 0, right |-> FALSE]
At(h, at)   == handler[h].at = at
Made        == {k \in CodeIds : code[k] # NoCode}
Unspent(u)  == {k \in Made : code[k].for = u /\ ~code[k].spent}
LiveCodes(u) == {k \in Unspent(u) : ~code[k].old}
Newest(S)   == CHOOSE k \in S : \A j \in S : j <= k

TypeOKCodes ==
  /\ code \in [CodeIds -> {NoCode} \cup [for: Purposes, tries: Nat, spent: BOOLEAN, old: BOOLEAN]]
  /\ recent \subseteq CodeIds
  /\ accepted \in [CodeIds -> Nat]
  /\ handler \in [Handlers -> [at: {"idle", "issuing", "writing", "comparing", "missing", "burning", "consuming"},
                               for: Purposes \cup {"none"}, saw: SUBSET CodeIds, id: 0..MaxCodes,
                               tries: Nat, right: BOOLEAN]]

InitCodes ==
  /\ code = [k \in CodeIds |-> NoCode]
  /\ recent = {}
  /\ accepted = [k \in CodeIds |-> 0]
  /\ handler = [h \in Handlers |-> Resting]

-----------------------------------------------------------------------------
Then(h, s) == handler' = [handler EXCEPT ![h] = s]
Spent(S) == [k \in CodeIds |-> IF k \in S THEN [code[k] EXCEPT !.spent = TRUE] ELSE code[k]]

(* issueAndSend: the counts, then invalidate-and-insert.                   *)
WithinLimit   == Cardinality(recent) < PerWindow
CountSends(h, u) ==
  /\ At(h, "idle") /\ WithinLimit
  /\ Then(h, [Resting EXCEPT !.at = "issuing", !.for = u])
  /\ UNCHANGED <<code, recent, accepted>>
SeesUnspent(u) == Unspent(u)
BeginIssue(h) ==
  /\ At(h, "issuing")
  /\ Then(h, [handler[h] EXCEPT !.at = "writing", !.saw = SeesUnspent(handler[h].for)])
  /\ UNCHANGED <<code, recent, accepted>>
CommitIssue(h) ==
  /\ At(h, "writing")
  /\ \E k \in CodeIds \ Made :
       /\ \A j \in CodeIds \ Made : k <= j
       /\ code' = [Spent(handler[h].saw) EXCEPT ![k] = [NoCode EXCEPT !.for = handler[h].for]]
       /\ recent' = recent \cup {k}
  /\ Then(h, Resting)
  /\ UNCHANGED accepted

(* verifyCode: the newest live code and its attempts are read.             *)
Enter(h, u, right) ==
  /\ At(h, "idle") /\ LiveCodes(u) # {}
  /\ LET k == Newest(LiveCodes(u))
     IN Then(h, [Resting EXCEPT !.at = "comparing", !.for = u, !.id = k, !.tries = code[k].tries,
                                !.right = right])
  /\ UNCHANGED <<code, recent, accepted>>
Compare(h) ==
  /\ At(h, "comparing")
  /\ Then(h, [handler[h] EXCEPT !.at = IF handler[h].tries >= Attempts THEN "burning"
                                       ELSE IF handler[h].right THEN "consuming" ELSE "missing"])
  /\ UNCHANGED <<code, recent, accepted>>
(* A wrong code is counted, and the last attempt burns the code.           *)
Miss(h) ==
  LET k == handler[h].id
      n == code[k].tries + 1
  IN /\ At(h, "missing")
     /\ code' = [code EXCEPT ![k].tries = n]
     /\ Then(h, IF n >= Attempts THEN [handler[h] EXCEPT !.at = "burning"] ELSE Resting)
     /\ UNCHANGED <<recent, accepted>>
Burn(h) ==
  /\ At(h, "burning")
  /\ code' = Spent({handler[h].id})
  /\ Then(h, Resting)
  /\ UNCHANGED <<recent, accepted>>
(* consume is guarded: of two right answers one is accepted.               *)
Regardless(k) == TRUE
IsUnspent(k)  == ~code[k].spent
Consume(h) ==
  LET k == handler[h].id
  IN /\ At(h, "consuming") /\ IsUnspent(k)
     /\ code' = Spent({k})
     /\ accepted' = [accepted EXCEPT ![k] = @ + 1]
     /\ Then(h, Resting)
     /\ UNCHANGED recent
TooLate(h) ==
  /\ At(h, "consuming") /\ ~IsUnspent(handler[h].id)
  /\ Then(h, Resting)
  /\ UNCHANGED <<code, recent, accepted>>

CodeExpires(k) ==
  /\ k \in Made /\ ~code[k].old
  /\ code' = [code EXCEPT ![k].old = TRUE]
  /\ UNCHANGED <<recent, accepted, handler>>
WindowPasses ==
  /\ recent # {}
  /\ recent' = {k \in recent : \E j \in recent : j < k}
  /\ UNCHANGED <<code, accepted, handler>>
Die(h) ==
  /\ ~At(h, "idle") /\ Then(h, Resting)
  /\ UNCHANGED <<code, recent, accepted>>

NextCodes ==
  \/ \E h \in Handlers, u \in Purposes : CountSends(h, u)
  \/ \E h \in Handlers, u \in Purposes, right \in BOOLEAN : Enter(h, u, right)
  \/ \E h \in Handlers :
       \/ BeginIssue(h) \/ CommitIssue(h) \/ Compare(h) \/ Miss(h) \/ Burn(h)
       \/ Consume(h) \/ TooLate(h) \/ Die(h)
  \/ \E k \in CodeIds : CodeExpires(k)
  \/ WindowPasses

SpecCodes == InitCodes /\ [][NextCodes]_codeVars

-----------------------------------------------------------------------------
(* Properties.                                                             *)

(* A code is accepted once, and what it is up against holds up to the      *)
(* requests that were past the count already: no more codes in a window,   *)
(* and no more wrong answers to one code, than the limit and one for each  *)
(* of the other requests.                                                  *)
AcceptedOnce  == \A k \in CodeIds : accepted[k] <= 1
Others        == Cardinality(Handlers) - 1
LimitsHold ==
  /\ Cardinality(recent) <= PerWindow + Others
  /\ \A k \in CodeIds : code[k].tries <= Attempts + Others
CodesHold == TypeOKCodes /\ AcceptedOnce /\ LimitsHold

(* customerOtp.repository.js: issuing is one transaction "so a concurrent  *)
(* request cannot leave two live codes behind for the same purpose".       *)
OneLiveCode == \A u \in Purposes : Cardinality(LiveCodes(u)) <= 1
================================================================================
