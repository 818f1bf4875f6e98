-------------------------------- MODULE Sessions --------------------------------
(***************************************************************************)
(* Sessions of staff and customers: signing in, rotating a refresh token,  *)
(* signing out, a changed password, a deactivated or deleted account.  A   *)
(* refresh is a chain of single statements, so two requests with the same  *)
(* token, or a refresh and a sign-out, interleave between them.            *)
(***************************************************************************)
EXTENDS Integers, FiniteSets

CONSTANTS
  Principals,      \* staff or customers
  Ids,             \* session ids
  Calls,           \* requests that can be under way
  MaxSecret,       \* a bound: changes of one password
  NoId

ASSUME SessionsAssumption == NoId \notin Ids /\ MaxSecret \in Nat

VARIABLES
  sess,            \* sessions, by id; the token stands for its session
  late,            \* rotated longer ago than ROTATION_GRACE_MS
  expired,         \* past expires_at
  known,           \* the tokens that reached a client
  usable,          \* isPrincipalUsable
  secret,          \* which password, counted
  open,            \* customers with open work or money in the wallet
  deleted,         \* customers whose account is deleted
  stray,           \* minted by a refresh that stopped before it claimed
  call

sessVars == <<sess, late, expired, known, usable, secret, open, deleted, stray, call>>

-----------------------------------------------------------------------------
NoSess == [who |-> NoId, fam |-> NoId, st |-> "none", next |-> NoId, ver |-> 0]
NoCall == [at |-> "idle", id |-> NoId, new |-> NoId, who |-> NoId, ver |-> 0]
Is(i, st)    == sess[i].st = st
Alive(i)     == Is(i, "live")
Fresh        == {i \in Ids : Is(i, "none")}
Idle(c)      == call[c] = NoCall
CallAt(c, at) == call[c].at = at
Reasons == {"rotated", "orphaned", "logout", "logout_all", "reuse_detected",
            "password_change", "principal_deactivated", "account_deleted"}

TypeOKSessions ==
  /\ sess \in [Ids -> {NoSess} \cup
                      [who: Principals, fam: Ids, st: {"live"} \cup Reasons,
                       next: Ids \cup {NoId}, ver: 0..MaxSecret]]
  /\ late \subseteq Ids /\ expired \subseteq Ids /\ known \subseteq Ids /\ stray \subseteq Ids
  /\ usable \in [Principals -> BOOLEAN]
  /\ secret \in [Principals -> 0..MaxSecret]
  /\ open \subseteq Principals /\ deleted \subseteq Principals
  /\ call \in [Calls -> [at: {"idle", "signing", "following", "reusing", "checking", "barring", "minting",
                              "claiming", "orphaning", "ending", "working", "deleting"},
                         id: Ids \cup {NoId}, new: Ids \cup {NoId}, who: Principals \cup {NoId},
                         ver: 0..MaxSecret]]

InitSessions ==
  /\ sess = [i \in Ids |-> NoSess]
  /\ late = {} /\ expired = {} /\ known = {} /\ stray = {}
  /\ usable = [p \in Principals |-> TRUE]
  /\ secret = [p \in Principals |-> 0]
  /\ open = {} /\ deleted = {}
  /\ call = [c \in Calls |-> NoCall]

-----------------------------------------------------------------------------
Goes(c, s) == call' = [call EXCEPT ![c] = s]
OnlyCall == UNCHANGED <<sess, late, expired, known, usable, secret, open, deleted, stray>>

(* revokeById, revokeFamily, revokeAllForPrincipal: what is live.          *)
Revoked(S, why) == [i \in Ids |-> IF i \in S /\ Alive(i) THEN [sess[i] EXCEPT !.st = why] ELSE sess[i]]
OfNobody(p) == {}
Of(p)       == {i \in Ids : sess[i].who = p}
Family(i)   == {j \in Ids : sess[j].fam = sess[i].fam}
Revoke(S, why) ==
  /\ sess' = Revoked(S, why)
  /\ UNCHANGED <<late, expired, known, usable, secret, open, deleted, stray>>

(* An answer reaches the client, or is lost on the way.                    *)
Answer(i) == known' \in {known, known \cup {i}}

(* Signing in: the credentials are checked, then the session is created.   *)
BeginSignIn(c, p) ==
  /\ Idle(c) /\ usable[p]
  /\ Goes(c, [NoCall EXCEPT !.at = "signing", !.who = p, !.ver = secret[p]]) /\ OnlyCall
Issue(c) ==
  /\ CallAt(c, "signing")
  /\ \E i \in Fresh :
       /\ sess' = [sess EXCEPT ![i] = [who |-> call[c].who, fam |-> i, st |-> "live", next |-> NoId,
                                       ver |-> call[c].ver]]
       /\ Answer(i)
  /\ Goes(c, NoCall)
  /\ UNCHANGED <<late, expired, usable, secret, open, deleted, stray>>

-----------------------------------------------------------------------------
(* rotate: the token's session is read.  One that was rotated a moment ago *)
(* leads to its successor; one rotated before that, or whose successor is  *)
(* no longer live, is a replay.                                            *)
Forgiven(i) == Is(i, "rotated") /\ i \notin late /\ sess[i].next # NoId
Present(c, i) ==
  /\ Idle(c) /\ i \in known
  /\ \/ Alive(i) /\ i \notin expired /\ Goes(c, [NoCall EXCEPT !.at = "checking", !.id = i])
     \/ Forgiven(i) /\ Goes(c, [NoCall EXCEPT !.at = "following", !.id = sess[i].next])
     \/ Is(i, "rotated") /\ ~Forgiven(i) /\ Goes(c, [NoCall EXCEPT !.at = "reusing", !.id = i])
  /\ OnlyCall
Follow(c) ==
  /\ CallAt(c, "following")
  /\ Goes(c, [call[c] EXCEPT !.at =
              IF Alive(call[c].id) /\ call[c].id \notin expired THEN "checking" ELSE "reusing"])
  /\ OnlyCall
Reuse(c) ==
  /\ CallAt(c, "reusing") /\ Revoke(Family(call[c].id), "reuse_detected") /\ Goes(c, NoCall)

(* rotateFrom: the principal is read, the successor created, and the old   *)
(* session revoked, if it still is not; otherwise the successor goes.      *)
Check(c) ==
  LET p == sess[call[c].id].who
  IN /\ CallAt(c, "checking")
     /\ Goes(c, [call[c] EXCEPT !.at = IF usable[p] THEN "minting" ELSE "barring"])
     /\ OnlyCall
Bar(c) ==
  /\ CallAt(c, "barring")
  /\ Revoke(Of(sess[call[c].id].who), "principal_deactivated") /\ Goes(c, NoCall)
Mint(c) ==
  /\ CallAt(c, "minting")
  /\ \E i \in Fresh :
       /\ sess' = [sess EXCEPT ![i] = [sess[call[c].id] EXCEPT !.st = "live", !.next = NoId]]
       /\ Goes(c, [call[c] EXCEPT !.at = "claiming", !.new = i])
  /\ UNCHANGED <<late, expired, known, usable, secret, open, deleted, stray>>
ClaimsAny(i)  == ~Is(i, "none")
ClaimsLive(i) == Alive(i)
Claim(c) ==
  /\ CallAt(c, "claiming") /\ ClaimsLive(call[c].id)
  /\ sess' = [sess EXCEPT ![call[c].id] = [@ EXCEPT !.st = "rotated", !.next = call[c].new]]
  /\ Answer(call[c].new)
  /\ Goes(c, NoCall)
  /\ UNCHANGED <<late, expired, usable, secret, open, deleted, stray>>
LoseClaim(c) ==
  /\ CallAt(c, "claiming") /\ ~ClaimsLive(call[c].id)
  /\ Goes(c, [call[c] EXCEPT !.at = "orphaning"]) /\ OnlyCall
Orphan(c) ==
  /\ CallAt(c, "orphaning") /\ Revoke({call[c].new}, "orphaned") /\ Goes(c, NoCall)

-----------------------------------------------------------------------------
(* Signing out, here or everywhere; a session of the device list.          *)
Logout(i) == i \in known /\ Alive(i) /\ Revoke({i}, "logout") /\ UNCHANGED call
Authentic(i) == i \in known /\ Alive(i) /\ i \notin expired /\ usable[sess[i].who]
LogoutAll(i) == Authentic(i) /\ Revoke(Of(sess[i].who), "logout_all") /\ UNCHANGED call
RevokeSession(i, j) ==
  /\ Authentic(i) /\ j \in Of(sess[i].who) /\ Alive(j)
  /\ Revoke({j}, "logout") /\ UNCHANGED call

(* A new password is stored, then every session ends.                      *)
ChangePassword(c, p) ==
  /\ Idle(c) /\ secret[p] < MaxSecret
  /\ secret' = [secret EXCEPT ![p] = @ + 1]
  /\ Goes(c, [NoCall EXCEPT !.at = "ending", !.who = p])
  /\ UNCHANGED <<sess, late, expired, known, usable, open, deleted, stray>>
EndAll(c) ==
  /\ CallAt(c, "ending") /\ Revoke(Of(call[c].who), "password_change") /\ Goes(c, NoCall)

(* An administrator deactivates an account, or activates it again.         *)
Toggle(p) ==
  /\ p \notin deleted
  /\ usable' = [usable EXCEPT ![p] = ~@]
  /\ UNCHANGED <<sess, late, expired, known, secret, open, deleted, stray, call>>

(* A request passes loadActive and then opens work: an order, a payment.   *)
BeginWork(c, i) ==
  /\ Idle(c) /\ Authentic(i)
  /\ Goes(c, [NoCall EXCEPT !.at = "working", !.who = sess[i].who]) /\ OnlyCall
OpenWork(c) ==
  /\ CallAt(c, "working")
  /\ open' = open \cup {call[c].who}
  /\ Goes(c, NoCall)
  /\ UNCHANGED <<sess, late, expired, known, usable, secret, deleted, stray>>
CloseWork(p) ==
  /\ p \in open
  /\ open' = open \ {p}
  /\ UNCHANGED <<sess, late, expired, known, usable, secret, deleted, stray, call>>

(* deleteCustomerAccount: what blocks it is read, without a lock on any of *)
(* it, then everything is wiped and committed at once.                     *)
BeginDelete(c, i) ==
  /\ Idle(c) /\ Authentic(i) /\ sess[i].who \notin open
  /\ Goes(c, [NoCall EXCEPT !.at = "deleting", !.who = sess[i].who]) /\ OnlyCall
Delete(c) ==
  LET p == call[c].who
  IN /\ CallAt(c, "deleting")
     /\ sess' = Revoked(Of(p), "account_deleted")
     /\ usable' = [usable EXCEPT ![p] = FALSE]
     /\ deleted' = deleted \cup {p}
     /\ Goes(c, NoCall)
     /\ UNCHANGED <<late, expired, known, secret, open, stray>>

(* Time passes, and a process stops.                                       *)
GraceEnds(i) ==
  /\ Is(i, "rotated") /\ i \notin late
  /\ late' = late \cup {i}
  /\ UNCHANGED <<sess, expired, known, usable, secret, open, deleted, stray, call>>
Expire(i) ==
  /\ Alive(i) /\ i \notin expired
  /\ expired' = expired \cup {i}
  /\ UNCHANGED <<sess, late, known, usable, secret, open, deleted, stray, call>>
Stop(c) ==
  /\ ~Idle(c) /\ Goes(c, NoCall)
  /\ stray' = IF call[c].new = NoId THEN stray ELSE stray \cup {call[c].new}
  /\ UNCHANGED <<sess, late, expired, known, usable, secret, open, deleted>>

NextSessions ==
  \/ \E c \in Calls, p \in Principals : BeginSignIn(c, p) \/ ChangePassword(c, p)
  \/ \E c \in Calls, i \in Ids : Present(c, i) \/ BeginWork(c, i) \/ BeginDelete(c, i)
  \/ \E c \in Calls :
       \/ Issue(c) \/ Follow(c) \/ Reuse(c) \/ Check(c) \/ Bar(c) \/ Mint(c)
       \/ Claim(c) \/ LoseClaim(c) \/ Orphan(c) \/ EndAll(c) \/ OpenWork(c) \/ Delete(c) \/ Stop(c)
  \/ \E i \in Ids : Logout(i) \/ LogoutAll(i) \/ GraceEnds(i) \/ Expire(i)
  \/ \E i, j \in Ids : RevokeSession(i, j)
  \/ \E p \in Principals : Toggle(p) \/ CloseWork(p)

SpecSessions == InitSessions /\ [][NextSessions]_sessVars

-----------------------------------------------------------------------------
(* Properties.                                                             *)

(* Of one sign-in at most one session is live, however refreshes overlap   *)
(* and answers get lost, not counting a successor that is not claimed yet  *)
(* and one whose refresh stopped before it claimed.                        *)
Unclaimed == stray \cup {call[c].new : c \in Calls}
OneLivePerSignIn ==
  \A i, j \in Ids \ Unclaimed : Alive(i) /\ Alive(j) /\ sess[i].fam = sess[j].fam => i = j

(* A sign-in that was ended, by signing out, by a replay, by an            *)
(* administrator or by deleting the account, has no live session left that *)
(* a client has a token of: no refresh brings it back.                     *)
Ended(i) == sess[i].st \in Reasons \ {"rotated", "orphaned"}
EndedStaysEnded ==
  \A i, j \in known : Ended(i) /\ sess[j].fam = sess[i].fam => ~Alive(j)

(* A sign-in is one session at a time, until it is ended for good.         *)
SessionsHold == TypeOKSessions /\ OneLivePerSignIn /\ EndedStaysEnded

(* "A password change must end every existing session": none outlives the  *)
(* end of the change, and no refresh carries one past it.  A session of an *)
(* older password comes back only by a sign-in that was checked before.    *)
OldLive(i)  == Alive(i) /\ sess[i].ver < secret[sess[i].who]
Outdated(i) == i \in known /\ OldLive(i)
OldPasswordEnds ==
  [][/\ \A c \in Calls : EndAll(c) => \A i \in Ids : sess[i].who = call[c].who => ~Outdated(i)'
     /\ \A i \in Ids : ~Outdated(i) /\ Outdated(i)' =>
          \E c \in Calls :
            \/ Issue(c)
            \/ CallAt(c, "idle") /\ CallAt(c, "ending")'
            \/ Claim(c) /\ OldLive(call[c].id)]_sessVars

(* config/auth.js: "a dropped response is indistinguishable from theft";   *)
(* within the grace period the client is not logged out for it.  It is,    *)
(* when the answer to the second attempt is lost too.                      *)
DroppedAnswersForgiven ==
  [][\A c \in Calls : Reuse(c) => \E i \in Family(call[c].id) : i \in late \/ Ended(i)]_sessVars

(* accountDeletion.service.js: blockers are "evaluated against a fresh row *)
(* so a concurrent top-up cannot sneak past".                              *)
DeletedHasNothingOpen == deleted \cap open = {}
================================================================================
