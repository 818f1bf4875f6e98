-------------------------------- MODULE Devices ---------------------------------
(***************************************************************************)
(* Push tokens of handsets.  Registering is two statements, an upsert of   *)
(* the token and the retiring of the handset's other tokens, and a push    *)
(* reads the live tokens, calls the provider, and writes each verdict back *)
(* to the token that earned it.                                            *)
(***************************************************************************)
EXTENDS Integers, FiniteSets

CONSTANTS
  Tokens,
  Handsets,
  HandsetOf,       \* [Tokens -> Handsets]; a token belongs to a device
  Owners,          \* the principals that sign in on them
  Threshold,       \* failures in a row that retire a token
  Posts            \* requests and sends that can be under way

ASSUME DevicesAssumption ==
  HandsetOf \in [Tokens -> Handsets] /\ Threshold \in Nat \ {0}

VARIABLES
  row,             \* device_tokens, by token
  aged,            \* disabled longer ago than the retention
  post,
  crossed          \* handsets of which two registrations overlapped or one was cut off

deviceVars == <<row, aged, post, crossed>>

-----------------------------------------------------------------------------
NoRow   == [own |-> "nobody", st |-> "none", fails |-> 0]
NoPost  == [at |-> "idle", tok |-> {}, drop |-> {}]
Lives(t)     == row[t].st = "live"
OfHandset(h) == {t \in Tokens : HandsetOf[t] = h}
Registering(h) == {p \in Posts : post[p].at = "retiring" /\ post[p].tok \subseteq OfHandset(h)}
Dead == {"replaced", "logout", "unregistered", "invalid", "account_deleted"}

TypeOKDevices ==
  /\ row \in [Tokens -> {NoRow} \cup [own: Owners, st: {"live"} \cup Dead, fails: 0..Threshold]]
  /\ aged \subseteq {t \in Tokens : row[t].st \in Dead}
  /\ post \in [Posts -> [at: {"idle", "retiring", "sending"}, tok: SUBSET Tokens,
                        drop: SUBSET Tokens]]
  /\ crossed \subseteq Handsets

InitDevices ==
  /\ row = [t \in Tokens |-> NoRow]
  /\ aged = {}
  /\ post = [p \in Posts |-> NoPost]
  /\ crossed = {}

-----------------------------------------------------------------------------
Retired(S, why) == [t \in Tokens |-> IF t \in S /\ Lives(t) THEN [row[t] EXCEPT !.st = why] ELSE row[t]]

(* register: the token moves to its new owner and lives again; then any    *)
(* other live token of the handset, whoever owns it, is retired.           *)
Register(p, t, o) ==
  LET h == HandsetOf[t]
  IN /\ post[p] = NoPost
     /\ row' = [row EXCEPT ![t] = [own |-> o, st |-> "live", fails |-> 0]]
     /\ aged' = aged \ {t}
     /\ post' = [post EXCEPT ![p] = [at |-> "retiring", tok |-> {t}, drop |-> {}]]
     /\ crossed' = IF Registering(h) = {} THEN crossed ELSE crossed \cup {h}
OwnOthers(t)   == {u \in OfHandset(HandsetOf[t]) \ {t} : row[u].own = row[t].own}
OtherTokens(t) == OfHandset(HandsetOf[t]) \ {t}
RetireOthers(p, t) ==
  /\ post[p].at = "retiring" /\ post[p].tok = {t}
  /\ row' = Retired(OtherTokens(t), "replaced")
  /\ post' = [post EXCEPT ![p] = NoPost]
  /\ UNCHANGED <<aged, crossed>>

(* unregister, and the wipe of a deleted account.                          *)
Unregister(t) ==
  /\ Lives(t) /\ row' = Retired({t}, "logout") /\ UNCHANGED <<aged, post, crossed>>
WipeDevices(o) ==
  /\ \E t \in Tokens : Lives(t) /\ row[t].own = o
  /\ row' = Retired({t \in Tokens : row[t].own = o}, "account_deleted")
  /\ UNCHANGED <<aged, post, crossed>>

(* push.send: the tokens are read, the provider is asked, and its verdict  *)
(* on each comes back later, in any order.                                 *)
Push(p, o) ==
  LET mine == {t \in Tokens : Lives(t) /\ row[t].own = o}
  IN /\ post[p] = NoPost /\ mine # {}
     /\ post' = [post EXCEPT ![p] = [at |-> "sending", tok |-> mine, drop |-> {}]]
     /\ UNCHANGED <<row, aged, crossed>>
Sending(p, t) == post[p].at = "sending" /\ t \in post[p].tok
Waiting(tok, drop) == IF tok \cup drop = {} THEN NoPost ELSE [at |-> "sending", tok |-> tok, drop |-> drop]
Heard(p, t) == post' = [post EXCEPT ![p] = Waiting(@.tok \ {t}, @.drop)]
Delivered(p, t) ==
  /\ Sending(p, t) /\ Heard(p, t)
  /\ row' = [row EXCEPT ![t].fails = 0]
  /\ UNCHANGED <<aged, crossed>>
Refused(p, t) ==
  /\ Sending(p, t) /\ Heard(p, t)
  /\ row' = Retired({t}, "unregistered")
  /\ UNCHANGED <<aged, crossed>>
(* recordFailure: the count, then in a second statement the retirement.    *)
(* Counts above the threshold are not told apart.                          *)
Failed(p, t) ==
  LET full == row[t].fails + 1 >= Threshold
  IN /\ Sending(p, t)
     /\ IF row[t] # NoRow /\ full
        THEN post' = [post EXCEPT ![p] = Waiting(@.tok \ {t}, @.drop \cup {t})]
        ELSE Heard(p, t)
     /\ row' = IF row[t] = NoRow THEN row
               ELSE [row EXCEPT ![t].fails = IF full THEN Threshold ELSE @ + 1]
     /\ UNCHANGED <<aged, crossed>>
Drop(p, t) ==
  /\ t \in post[p].drop
  /\ row' = Retired({t}, "invalid")
  /\ post' = [post EXCEPT ![p] = Waiting(@.tok, @.drop \ {t})]
  /\ UNCHANGED <<aged, crossed>>

(* purgeDisabledBefore: what was disabled long enough ago, days longer     *)
(* than any request takes.                                                 *)
Age ==
  LET dead == {t \in Tokens : row[t].st \in Dead}
  IN /\ aged # dead /\ \A p \in Posts : post[p] = NoPost
     /\ aged' = dead
     /\ UNCHANGED <<row, post, crossed>>
PurgeDead ==
  /\ aged # {}
  /\ row' = [t \in Tokens |-> IF t \in aged THEN NoRow ELSE row[t]]
  /\ aged' = {}
  /\ UNCHANGED <<post, crossed>>
CutOff(p) ==
  /\ post[p] # NoPost
  /\ post' = [post EXCEPT ![p] = NoPost]
  /\ crossed' = IF post[p].at = "retiring" THEN crossed \cup {HandsetOf[t] : t \in post[p].tok} ELSE crossed
  /\ UNCHANGED <<row, aged>>

NextDevices ==
  \/ \E p \in Posts, t \in Tokens, o \in Owners : Register(p, t, o)
  \/ \E p \in Posts, t \in Tokens :
       RetireOthers(p, t) \/ Delivered(p, t) \/ Refused(p, t) \/ Failed(p, t) \/ Drop(p, t)
  \/ \E p \in Posts, o \in Owners : Push(p, o)
  \/ \E t \in Tokens : Unregister(t)
  \/ \E o \in Owners : WipeDevices(o)
  \/ \E p \in Posts : CutOff(p)
  \/ Age \/ PurgeDead

SpecDevices == InitDevices /\ [][NextDevices]_deviceVars

-----------------------------------------------------------------------------
(* Properties.                                                             *)

(* A handset has one live token, whoever signs in on it and however its    *)
(* token rotates, but while a registration of it is under way or after one *)
(* was cut off; and retiring the others never leaves a handset with only   *)
(* replaced tokens, but when two registrations of it overlapped.           *)
HandsetRingsOnce ==
  \A h \in Handsets \ crossed :
    LET mine == {t \in OfHandset(h) : row[t] # NoRow}
    IN /\ Registering(h) = {} => Cardinality({t \in mine : Lives(t)}) <= 1
       /\ mine # {} => \E t \in mine : row[t].st # "replaced"

(* A phone rings for one person, once.                                     *)
DevicesHold == TypeOKDevices /\ HandsetRingsOnce
================================================================================
