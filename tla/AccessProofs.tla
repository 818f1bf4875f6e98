----------------------------- MODULE AccessProofs -----------------------------
(***************************************************************************)
(* Proofs about what a customer holds: sessions, one-time codes, push      *)
(* tokens and the chat with the assistant.  They share no table, and each  *)
(* has an invariant of its own.                                            *)
(***************************************************************************)
EXTENDS Sessions, Codes, Devices, Conversation, SumLemmas, TLAPS

-----------------------------------------------------------------------------
(* Sessions.  What a refresh holds exists, its successor continues the     *)
(* session it presented, and nobody else has that successor.               *)
SessType == [who: Principals, fam: Ids, st: {"live"} \cup Reasons, next: Ids \cup {NoId}, ver: 0..MaxSecret]
CallType == [at: {"idle", "signing", "following", "reusing", "checking", "barring", "minting",
                  "claiming", "orphaning", "ending", "working", "deleting"},
             id: Ids \cup {NoId}, new: Ids \cup {NoId}, who: Principals \cup {NoId}, ver: 0..MaxSecret]
Refreshing == {"following", "reusing", "checking", "barring", "minting", "claiming", "orphaning"}
Acting     == {"signing", "ending", "working", "deleting"}
Real(r)    == r.st # "none"
CallsFit == \A c \in Calls :
  /\ call[c].new # NoId <=> call[c].at \in {"claiming", "orphaning"}
  /\ call[c].at \in Refreshing => call[c].id \in Ids
  /\ call[c].at \in Acting => call[c].who \in Principals
  /\ call[c].id \in Ids => Real(sess[call[c].id])
  /\ call[c].new \in Ids => /\ Real(sess[call[c].new])
                            /\ sess[call[c].new].who = sess[call[c].id].who
                            /\ sess[call[c].new].fam = sess[call[c].id].fam
                            /\ sess[call[c].new].ver = sess[call[c].id].ver
NewsApart == \A c, d \in Calls : call[c].new \in Ids /\ call[c].new = call[d].new => c = d
(* What is named is a session, of a family that began, of one principal.   *)
Recorded == \A i \in Ids :
  /\ i \in known \cup stray => Real(sess[i])
  /\ Real(sess[i]) => Real(sess[sess[i].fam])
  /\ sess[i].next \in Ids => Real(sess[sess[i].next])
FamilyOfOne == \A i, j \in Ids : Real(sess[i]) /\ sess[i].fam = sess[j].fam => sess[i].who = sess[j].who
(* Only claimed sessions are held by clients, succeed others, or are       *)
(* presented; a minted one is its call's, until it is stray.               *)
HandedOut ==
  /\ \A i \in Ids : /\ i \in known => i \notin Unclaimed
                    /\ sess[i].next \in Ids => sess[i].next \notin Unclaimed
  /\ \A c \in Calls : /\ call[c].id \in Ids => call[c].id \notin Unclaimed
                      /\ call[c].new \in Ids => call[c].new \notin stray
OneLive == \A i, j \in Ids : i \notin Unclaimed /\ j \notin Unclaimed /\ Alive(i) /\ Alive(j) /\ sess[i].fam = sess[j].fam => i = j
EndedGone == \A i \in known, j \in Ids : Ended(i) /\ j \notin Unclaimed /\ sess[j].fam = sess[i].fam => ~Alive(j)
SessInv == /\ TypeOKSessions /\ CallsFit /\ NewsApart /\ Recorded
           /\ FamilyOfOne /\ HandedOut /\ OneLive /\ EndedGone

-----------------------------------------------------------------------------
LEMMA SessInit == InitSessions => SessInv
<1> SUFFICES ASSUME InitSessions PROVE SessInv
  OBVIOUS
<1>1. /\ sess = [i \in Ids |-> NoSess] /\ call = [c \in Calls |-> NoCall]
      /\ late = {} /\ expired = {} /\ known = {} /\ stray = {} /\ open = {} /\ deleted = {}
      /\ usable = [p \in Principals |-> TRUE] /\ secret = [p \in Principals |-> 0] /\ 0 \in 0..MaxSecret
  BY SessionsAssumption DEF InitSessions
<1>2. \A i \in Ids : sess[i].st = "none" /\ sess[i].next = NoId
  BY <1>1 DEF NoSess
<1>3. \A c \in Calls : call[c].at = "idle" /\ call[c].id = NoId /\ call[c].new = NoId
  BY <1>1 DEF NoCall
<1>4. TypeOKSessions
  BY <1>1 DEF TypeOKSessions, NoSess, NoCall
<1> QED
  BY <1>1, <1>2, <1>3, <1>4, SessionsAssumption
  DEF SessInv, CallsFit, NewsApart, Recorded, FamilyOfOne, HandedOut, OneLive, EndedGone,
      Refreshing, Acting, Real, Is, Alive, Ended, Reasons

(* What a call may turn into when it claims nothing.                       *)
MayBecome(c, s) ==
  /\ s.new # NoId <=> s.at \in {"claiming", "orphaning"}
  /\ s.at \in Refreshing => s.id \in Ids
  /\ s.at \in Acting => s.who \in Principals
  /\ s.id \in Ids => Real(sess[s.id]) /\ s.id \notin Unclaimed
  /\ s.new \in {call[c].new, NoId}
  /\ s.new \in Ids => s.id = call[c].id
(* Live sessions end, and nothing else becomes of a session.               *)
OnlyEnds == \A i \in Ids :
  /\ sess'[i].who = sess[i].who /\ sess'[i].fam = sess[i].fam
  /\ sess'[i].next = sess[i].next /\ sess'[i].ver = sess[i].ver
  /\ sess'[i].st = sess[i].st \/ (Alive(i) /\ sess'[i].st \in Reasons)
(* A call lets go of its successor once that is dead, or leaves it stray.  *)
LetsGo == \A c \in Calls : call[c].new \in Ids /\ call'[c].new = NoId =>
            call[c].new \in stray' \/ sess'[call[c].new].st # "live"
Strays == \A i \in stray' : i \in stray \/ \E c \in Calls : call[c].new = i /\ call'[c].new = NoId
(* Who ends a session that a client holds ends what is left of its sign-in. *)
EndsAllOfIt == \A i \in known, j \in Ids : Ended(i)' /\ ~Ended(i) /\ j \notin Unclaimed /\ sess[j].fam = sess[i].fam => ~Alive(j)'

LEMMA CalmStep ==
  ASSUME SessInv, TypeOKSessions', known' = known, stray \subseteq stray', OnlyEnds,
         \A c \in Calls : MayBecome(c, call'[c]), LetsGo, Strays, EndsAllOfIt
  PROVE  SessInv'
<1> USE SessionsAssumption
<1>a. \A i \in Ids : i \in known => Real(sess[i]) /\ i \notin Unclaimed
  BY DEF SessInv, Recorded, HandedOut
<1>b. known \subseteq Ids /\ stray' \subseteq Ids
  BY DEF SessInv, TypeOKSessions
<1>1. \A i \in Ids : /\ Real(sess'[i]) <=> Real(sess[i])
                     /\ Alive(i)' => Alive(i)
                     /\ Ended(i) => Ended(i)'
  BY DEF OnlyEnds, Real, Alive, Is, Ended, Reasons
<1>2. \A i \in Ids : /\ i \notin Unclaimed => i \notin Unclaimed'
                     /\ i \notin Unclaimed' /\ i \in Unclaimed => ~Alive(i)'
  <2>1. ASSUME NEW i \in Ids, i \notin Unclaimed PROVE i \notin Unclaimed'
    BY <2>1 DEF Unclaimed, Strays, MayBecome
  <2>2. ASSUME NEW i \in Ids, i \in Unclaimed, i \notin Unclaimed' PROVE ~Alive(i)'
    <3>1. PICK c \in Calls : call[c].new = i
      BY <2>2 DEF Unclaimed
    <3>2. call'[c].new = NoId
      BY <2>2, <3>1 DEF Unclaimed, MayBecome
    <3> QED
      BY <2>2, <3>1, <3>2 DEF LetsGo, Unclaimed, Alive, Is
  <2> QED
    BY <2>1, <2>2
<1>3. CallsFit'
  <2> SUFFICES ASSUME NEW c \in Calls
               PROVE  /\ call'[c].new # NoId <=> call'[c].at \in {"claiming", "orphaning"}
                      /\ call'[c].at \in Refreshing => call'[c].id \in Ids
                      /\ call'[c].at \in Acting => call'[c].who \in Principals
                      /\ call'[c].id \in Ids => Real(sess'[call'[c].id])
                      /\ call'[c].new \in Ids => /\ Real(sess'[call'[c].new])
                                                 /\ sess'[call'[c].new].who = sess'[call'[c].id].who
                                                 /\ sess'[call'[c].new].fam = sess'[call'[c].id].fam
                                                 /\ sess'[call'[c].new].ver = sess'[call'[c].id].ver
    BY DEF CallsFit, Real
  <2>1. MayBecome(c, call'[c])
    OBVIOUS
  <2>2. call'[c].id \in Ids => Real(sess'[call'[c].id])
    BY <1>1, <2>1 DEF MayBecome
  <2>3. ASSUME call'[c].new \in Ids
        PROVE  /\ Real(sess'[call'[c].new])
               /\ sess'[call'[c].new].who = sess'[call'[c].id].who
               /\ sess'[call'[c].new].fam = sess'[call'[c].id].fam
               /\ sess'[call'[c].new].ver = sess'[call'[c].id].ver
    <3>1. call'[c].new = call[c].new /\ call'[c].id = call[c].id /\ call'[c].at \in Refreshing
      BY <2>1, <2>3 DEF MayBecome, Refreshing
    <3>2. call[c].id \in Ids
      BY <2>1, <3>1 DEF MayBecome
    <3>3. /\ Real(sess[call[c].new])
          /\ sess[call[c].new].who = sess[call[c].id].who
          /\ sess[call[c].new].fam = sess[call[c].id].fam
          /\ sess[call[c].new].ver = sess[call[c].id].ver
      BY <2>3, <3>1 DEF SessInv, CallsFit
    <3> QED
      BY <1>1, <2>3, <3>1, <3>2, <3>3 DEF OnlyEnds
  <2> QED
    BY <2>1, <2>2, <2>3 DEF MayBecome
<1>4. NewsApart'
  BY DEF SessInv, NewsApart, MayBecome
<1>5. Recorded'
  <2> SUFFICES ASSUME NEW i \in Ids
               PROVE  /\ i \in known' \cup stray' => Real(sess'[i])
                      /\ Real(sess'[i]) => Real(sess'[sess'[i].fam])
                      /\ sess'[i].next \in Ids => Real(sess'[sess'[i].next])
    BY DEF Recorded, Real
  <2>1. i \in stray' => Real(sess[i])
    BY DEF Strays, SessInv, Recorded, CallsFit
  <2>2. Real(sess[i]) => sess[i].fam \in Ids
    BY DEF SessInv, TypeOKSessions, Real, NoSess
  <2> QED
    BY <1>a, <1>1, <2>1, <2>2 DEF SessInv, Recorded, OnlyEnds
<1>6. FamilyOfOne'
  BY <1>1 DEF SessInv, FamilyOfOne, OnlyEnds
<1>7. HandedOut'
  <2>1. \A i \in Ids : /\ i \in known' => i \notin Unclaimed'
                       /\ sess'[i].next \in Ids => sess'[i].next \notin Unclaimed'
    BY <1>a, <1>2 DEF SessInv, HandedOut, OnlyEnds
  <2>2. \A c \in Calls : call'[c].id \in Ids => call'[c].id \notin Unclaimed'
    BY <1>2 DEF MayBecome
  <2>3. ASSUME NEW c \in Calls, call'[c].new \in Ids PROVE call'[c].new \notin stray'
    <3>1. call'[c].new = call[c].new
      BY <2>3 DEF MayBecome
    <3> QED
      BY <2>3, <3>1 DEF Strays, SessInv, HandedOut, NewsApart
  <2> QED
    BY <2>1, <2>2, <2>3 DEF HandedOut, Unclaimed
<1>8. OneLive'
  <2> SUFFICES ASSUME NEW i \in Ids, NEW j \in Ids, i \notin Unclaimed', j \notin Unclaimed', Alive(i)', Alive(j)', sess'[i].fam = sess'[j].fam
               PROVE  i = j
    BY DEF OneLive, Alive, Is, Unclaimed
  <2>1. i \notin Unclaimed /\ j \notin Unclaimed /\ Alive(i) /\ Alive(j) /\ sess[i].fam = sess[j].fam
    BY <1>1, <1>2 DEF OnlyEnds
  <2> QED
    BY <2>1 DEF SessInv, OneLive
<1>9. EndedGone'
  <2> SUFFICES ASSUME NEW i \in known, NEW j \in Ids, Ended(i)', j \notin Unclaimed', sess'[j].fam = sess'[i].fam, Alive(j)'
               PROVE  FALSE
    BY DEF EndedGone, Alive, Is, Unclaimed, Ended
  <2>1. i \in Ids /\ j \notin Unclaimed /\ Alive(j) /\ sess[j].fam = sess[i].fam
    BY <1>b, <1>1, <1>2 DEF OnlyEnds
  <2> QED
    BY <2>1 DEF SessInv, EndedGone, EndsAllOfIt
<1> QED
  BY <1>3, <1>4, <1>5, <1>6, <1>7, <1>8, <1>9 DEF SessInv

(* Every call is what it may become.                                       *)
LEMMA Stays == ASSUME SessInv PROVE \A c \in Calls : MayBecome(c, call[c])
BY DEF SessInv, CallsFit, HandedOut, MayBecome

EndsJust(S) == \A i \in Ids :
  /\ i \in S => sess'[i].st # "live"
  /\ ~(i \in S /\ Alive(i)) => sess'[i] = sess[i]
LEMMA RevokedRows ==
  ASSUME SessInv, NEW S, NEW why \in Reasons \ {"rotated"}, sess' = Revoked(S, why)
  PROVE  /\ OnlyEnds /\ sess' \in [Ids -> {NoSess} \cup SessType]
         /\ EndsJust(S)
<1>1. sess \in [Ids -> {NoSess} \cup SessType]
  BY DEF SessInv, TypeOKSessions, SessType
<1>2. \A i \in Ids : /\ ~(i \in S /\ Alive(i)) => sess'[i] = sess[i]
                     /\ i \in S /\ Alive(i) => sess'[i] = [sess[i] EXCEPT !.st = why] /\ sess[i] \in SessType
  BY <1>1 DEF Revoked, Alive, Is, NoSess
<1>3. why # "live" /\ "live" \notin Reasons
  BY DEF Reasons
<1>4. sess' \in [Ids -> {NoSess} \cup SessType]
  BY <1>1, <1>2 DEF Revoked, SessType
<1>5. \A i \in Ids : i \in S => sess'[i].st # "live"
  BY <1>2, <1>3 DEF Alive, Is, SessType
<1>6. OnlyEnds
  BY <1>1, <1>2, <1>3 DEF OnlyEnds, SessType
<1> QED
  BY <1>2, <1>4, <1>5, <1>6 DEF EndsJust

(* A revocation is of a family, of a principal, of one session, or of a    *)
(* successor that nobody has.                                              *)
Closed(S) == \A i, j \in Ids : i \in S /\ sess[j].fam = sess[i].fam /\ Real(sess[i]) => j \in S
LEMMA RevokedEnds ==
  ASSUME SessInv, NEW S, NEW why \in Reasons \ {"rotated"}, sess' = Revoked(S, why),
         Closed(S) \/ (\E x \in Ids : S = {x}) \/ why = "orphaned"
  PROVE  EndsAllOfIt
<1> SUFFICES ASSUME NEW i \in known, NEW j \in Ids, Ended(i)', ~Ended(i), j \notin Unclaimed,
                    sess[j].fam = sess[i].fam
             PROVE  ~Alive(j)'
  BY DEF EndsAllOfIt
<1>0. /\ \A k \in Ids : k \in S => sess'[k].st # "live"
      /\ \A k \in Ids : ~(k \in S /\ Alive(k)) => sess'[k] = sess[k]
  <2>1. EndsJust(S)
    BY RevokedRows
  <2> QED
    BY <2>1 DEF EndsJust, Alive, Is
<1>1. i \in Ids /\ Real(sess[i]) /\ i \notin Unclaimed
  BY DEF SessInv, TypeOKSessions, Recorded, HandedOut
<1>2. i \in S /\ Alive(i) /\ why # "orphaned"
  <2>1. i \in S /\ Alive(i)
    BY <1>0, <1>1 DEF Ended
  <2>2. sess'[i].st = why
    BY <1>1, <2>1 DEF Revoked, SessInv, TypeOKSessions, Alive, Is, NoSess
  <2> QED
    BY <2>1, <2>2 DEF Ended
<1>3. CASE Closed(S)
  BY <1>1, <1>2, <1>3, <1>0 DEF Closed, Alive, Is
<1>4. CASE \E x \in Ids : S = {x}
  <2>1. S = {i}
    BY <1>2, <1>4
  <2>2. CASE j = i
    BY <1>1, <1>2, <2>2, <1>0 DEF Alive, Is
  <2>3. CASE j # i
    <3>1. ~Alive(j)
      BY <1>1, <1>2, <2>3 DEF SessInv, OneLive
    <3> QED
      BY <2>1, <2>3, <3>1, <1>0 DEF Alive, Is
  <2> QED
    BY <2>2, <2>3
<1> QED
  BY <1>2, <1>3, <1>4

(* A step of one call that ends sessions, or none.                         *)
Finishes(c, S) == call' = [call EXCEPT ![c] = NoCall] /\ (call[c].new \in Ids => call[c].new \in S)
LEMMA RevokeStep ==
  ASSUME SessInv, NEW S, NEW why \in Reasons \ {"rotated"}, sess' = Revoked(S, why),
         Closed(S) \/ (\E x \in Ids : S = {x}) \/ why = "orphaned",
         late' = late, expired' = expired, known' = known, secret' = secret, open' = open, stray' = stray,
         deleted' \subseteq Principals, usable' \in [Principals -> BOOLEAN],
         call' = call \/ \E c \in Calls : Finishes(c, S)
  PROVE  SessInv'
<1>a. call \in [Calls -> CallType] /\ NoCall \in CallType
  BY SessionsAssumption DEF SessInv, TypeOKSessions, CallType, NoCall
<1>b. OnlyEnds /\ EndsAllOfIt /\ sess' \in [Ids -> {NoSess} \cup SessType]
  BY RevokedRows, RevokedEnds
<1>e. EndsJust(S)
  BY RevokedRows
<1>1. TypeOKSessions'
  <2>1. call' \in [Calls -> CallType]
    <3>1. CASE call' = call
      BY <1>a, <3>1
    <3>2. CASE \E c \in Calls : Finishes(c, S)
      BY <1>a, <3>2 DEF Finishes
    <3> QED
      BY <3>1, <3>2
  <2> QED
    BY <1>b, <2>1 DEF SessInv, TypeOKSessions, SessType, CallType
<1>2. \A d \in Calls : \/ call'[d] = call[d]
                       \/ call'[d] = NoCall /\ (call[d].new \in Ids => call[d].new \in S)
  <2>1. CASE call' = call
    BY <2>1
  <2>2. ASSUME NEW c \in Calls, Finishes(c, S)
        PROVE  \A d \in Calls : \/ call'[d] = call[d]
                                \/ call'[d] = NoCall /\ (call[d].new \in Ids => call[d].new \in S)
    BY <1>a, <2>2 DEF Finishes
  <2> QED
    BY <2>1, <2>2
<1>3. \A d \in Calls : MayBecome(d, call'[d])
  BY <1>2, Stays, SessionsAssumption DEF MayBecome, NoCall, Refreshing, Acting
<1>4. LetsGo
  <2> SUFFICES ASSUME NEW d \in Calls, call[d].new \in Ids, call'[d].new = NoId
               PROVE  sess'[call[d].new].st # "live"
    BY DEF LetsGo
  <2>2. call[d].new \in S
    BY <1>2, SessionsAssumption
  <2> QED
    BY <1>e, <2>2 DEF EndsJust
<1> QED
  BY <1>b, <1>1, <1>3, <1>4, CalmStep DEF Strays

(* A call reads.                                                           *)
LEMMA CallStep ==
  ASSUME SessInv, NEW c \in Calls, NEW s \in CallType, MayBecome(c, s), s.new = call[c].new \/ call[c].new \in stray',
         Goes(c, s), sess' = sess, late' = late, expired' = expired, known' = known,
         secret' \in [Principals -> 0..MaxSecret], usable' = usable, open' \subseteq Principals, deleted' = deleted,
         stray' = stray \/ (stray' = stray \cup {call[c].new} /\ call[c].new \in Ids /\ s.new = NoId)
  PROVE  SessInv'
<1>a. call \in [Calls -> CallType] /\ call' = [call EXCEPT ![c] = s]
  BY DEF SessInv, TypeOKSessions, CallType, Goes
<1>1. TypeOKSessions'
  BY <1>a DEF SessInv, TypeOKSessions, CallType
<1>2. call'[c] = s /\ \A d \in Calls \ {c} : call'[d] = call[d]
  BY <1>a
<1>3. \A d \in Calls : MayBecome(d, call'[d])
  BY <1>2, Stays
<1>4. LetsGo
  BY <1>2, SessionsAssumption DEF LetsGo
<1>5. Strays
  BY <1>2 DEF Strays
<1>6. OnlyEnds /\ EndsAllOfIt
  BY DEF OnlyEnds, EndsAllOfIt, Ended
<1> QED
  BY <1>1, <1>3, <1>4, <1>5, <1>6, CalmStep

(* A session that did not exist is named nowhere.                          *)
LEMMA FreshUnnamed ==
  ASSUME SessInv, NEW i \in Fresh
  PROVE  /\ i \in Ids /\ ~Real(sess[i]) /\ i \notin known /\ i \notin stray /\ i \notin Unclaimed
         /\ sess[i] = NoSess
         /\ \A j \in Ids : Real(sess[j]) => sess[j].fam # i /\ sess[j].next # i
         /\ \A c \in Calls : call[c].id # i /\ call[c].new # i
<1>1. i \in Ids /\ ~Real(sess[i])
  BY DEF Fresh, Is, Real
<1>2. sess[i] = NoSess
  BY <1>1 DEF SessInv, TypeOKSessions, Real, Reasons
<1>3. i \notin known /\ i \notin stray /\ \A c \in Calls : call[c].id # i /\ call[c].new # i
  BY <1>1 DEF SessInv, Recorded, CallsFit
<1>4. \A j \in Ids : Real(sess[j]) => sess[j].fam # i /\ sess[j].next # i
  BY <1>1 DEF SessInv, Recorded
<1> QED
  BY <1>1, <1>2, <1>3, <1>4 DEF Unclaimed

(* A sign-in begins a family.                                              *)
LEMMA IssueStep == ASSUME SessInv, NEW c \in Calls, Issue(c) PROVE SessInv'
<1> USE SessionsAssumption
<1>1. PICK i \in Fresh : /\ sess' = [sess EXCEPT ![i] = [who |-> call[c].who, fam |-> i, st |-> "live", next |-> NoId,
                                                       ver |-> call[c].ver]]
                        /\ known' \in {known, known \cup {i}}
  BY DEF Issue, Answer
<1>2. /\ call[c].at = "signing" /\ call' = [call EXCEPT ![c] = NoCall] /\ stray' = stray
      /\ late' = late /\ expired' = expired /\ usable' = usable /\ secret' = secret
      /\ open' = open /\ deleted' = deleted
  BY DEF Issue, CallAt, Goes
<1>a. /\ i \in Ids /\ ~Real(sess[i]) /\ i \notin known /\ i \notin stray /\ i \notin Unclaimed
      /\ \A j \in Ids : Real(sess[j]) => sess[j].fam # i /\ sess[j].next # i
      /\ \A d \in Calls : call[d].id # i /\ call[d].new # i
      /\ sess[i] = NoSess
  BY FreshUnnamed
<1>b. /\ sess \in [Ids -> {NoSess} \cup SessType] /\ call \in [Calls -> CallType] /\ NoCall \in CallType
      /\ call[c].who \in Principals /\ call[c].ver \in 0..MaxSecret /\ call[c].new = NoId
  BY <1>2 DEF SessInv, TypeOKSessions, SessType, CallType, NoCall, CallsFit, Acting
<1>c. \A j \in Ids \ {i} : sess'[j] = sess[j]
  BY <1>1, <1>b
<1>d. sess'[i].who = call[c].who /\ sess'[i].fam = i /\ sess'[i].st = "live" /\ sess'[i].next = NoId
  BY <1>1, <1>a, <1>b
<1>e. \A d \in Calls : call'[d].new = call[d].new /\ (call'[d] = call[d] \/ call'[d] = NoCall)
  BY <1>2, <1>b DEF NoCall
<1>f. Unclaimed' = Unclaimed
  BY <1>2, <1>e DEF Unclaimed
<1>g. \A j \in Ids : ~Real(sess[j]) => sess[j].fam = NoId
  BY <1>b DEF Real, SessType, NoSess, Reasons
<1>3. TypeOKSessions'
  <2>1. sess' \in [Ids -> {NoSess} \cup SessType]
    BY <1>1, <1>a, <1>b DEF SessType
  <2> QED
    BY <1>1, <1>2, <1>a, <1>b, <2>1 DEF SessInv, TypeOKSessions, SessType, CallType
<1>4. CallsFit'
  <2> SUFFICES ASSUME NEW d \in Calls, call'[d] = call[d]
               PROVE  /\ call'[d].new # NoId <=> call'[d].at \in {"claiming", "orphaning"}
                      /\ call'[d].at \in Refreshing => call'[d].id \in Ids
                      /\ call'[d].at \in Acting => call'[d].who \in Principals
                      /\ call'[d].id \in Ids => Real(sess'[call'[d].id])
                      /\ call'[d].new \in Ids => /\ Real(sess'[call'[d].new])
                                                 /\ sess'[call'[d].new].who = sess'[call'[d].id].who
                                                 /\ sess'[call'[d].new].fam = sess'[call'[d].id].fam
                                                 /\ sess'[call'[d].new].ver = sess'[call'[d].id].ver
    BY <1>e DEF CallsFit, NoCall, Refreshing, Acting
  <2>1. call[d].new \in Ids => call[d].id \in Ids
    BY DEF SessInv, CallsFit, Refreshing
  <2> QED
    BY <1>a, <1>c, <2>1 DEF SessInv, CallsFit
<1>5. NewsApart'
  BY <1>e DEF SessInv, NewsApart
<1>6. Recorded'
  <2> SUFFICES ASSUME NEW j \in Ids
               PROVE  /\ j \in known' \cup stray' => Real(sess'[j])
                      /\ Real(sess'[j]) => Real(sess'[sess'[j].fam])
                      /\ sess'[j].next \in Ids => Real(sess'[sess'[j].next])
    BY DEF Recorded
  <2>1. CASE j = i
    BY <1>d, <2>1 DEF Real
  <2>2. CASE j # i
    <3>1. Real(sess[j]) => sess[j].fam \in Ids
      BY <1>b DEF Real, SessType, NoSess
    <3>2. ~Real(sess[j]) => sess[j].next = NoId
      BY <1>b DEF Real, SessType, NoSess, Reasons
    <3> QED
      BY <1>1, <1>2, <1>a, <1>c, <2>2, <3>1, <3>2 DEF SessInv, Recorded
  <2> QED
    BY <2>1, <2>2
<1>7. FamilyOfOne'
  <2> SUFFICES ASSUME NEW j \in Ids, NEW k \in Ids, Real(sess'[j]), sess'[j].fam = sess'[k].fam
               PROVE  sess'[j].who = sess'[k].who
    BY DEF FamilyOfOne
  <2> QED
    BY <1>a, <1>c, <1>d, <1>g DEF SessInv, FamilyOfOne
<1>8. HandedOut'
  <2>1. \A j \in Ids : /\ j \in known' => j \notin Unclaimed'
                       /\ sess'[j].next \in Ids => sess'[j].next \notin Unclaimed'
    BY <1>1, <1>a, <1>c, <1>d, <1>f DEF SessInv, HandedOut
  <2>2. \A d \in Calls : /\ call'[d].id \in Ids => call'[d].id \notin Unclaimed'
                         /\ call'[d].new \in Ids => call'[d].new \notin stray'
    BY <1>2, <1>e, <1>f DEF SessInv, HandedOut, NoCall
  <2> QED
    BY <2>1, <2>2 DEF HandedOut
<1>9. OneLive'
  <2> SUFFICES ASSUME NEW j \in Ids, NEW k \in Ids, j \notin Unclaimed, k \notin Unclaimed,
                      sess'[j].st = "live", sess'[k].st = "live", sess'[j].fam = sess'[k].fam
               PROVE  j = k
    BY <1>f DEF OneLive, Alive, Is
  <2> QED
    BY <1>a, <1>c, <1>d DEF SessInv, OneLive, Alive, Is, Real
<1>10. EndedGone'
  <2> SUFFICES ASSUME NEW j \in known', NEW k \in Ids, Ended(j)', k \notin Unclaimed,
                      sess'[k].fam = sess'[j].fam, sess'[k].st = "live"
               PROVE  FALSE
    BY <1>f DEF EndedGone, Alive, Is, Ended
  <2>1. j # i /\ j \in known /\ j \in Ids /\ Ended(j) /\ Real(sess[j])
    BY <1>1, <1>b, <1>c, <1>d DEF Ended, Reasons, SessInv, TypeOKSessions, Recorded
  <2>2. k # i
    BY <1>a, <1>c, <1>d, <2>1
  <2> QED
    BY <1>c, <2>1, <2>2 DEF SessInv, EndedGone, Alive, Is
<1> QED
  BY <1>3, <1>4, <1>5, <1>6, <1>7, <1>8, <1>9, <1>10 DEF SessInv

(* A successor is minted: a copy of what it continues, its call's alone.   *)
LEMMA MintStep == ASSUME SessInv, NEW c \in Calls, Mint(c) PROVE SessInv'
<1> USE SessionsAssumption
<1>1. PICK i \in Fresh : /\ sess' = [sess EXCEPT ![i] = [sess[call[c].id] EXCEPT !.st = "live", !.next = NoId]]
                          /\ call' = [call EXCEPT ![c] = [call[c] EXCEPT !.at = "claiming", !.new = i]]
  BY DEF Mint, Goes
<1>2. /\ call[c].at = "minting" /\ stray' = stray /\ known' = known
      /\ late' = late /\ expired' = expired /\ usable' = usable /\ secret' = secret
      /\ open' = open /\ deleted' = deleted
  BY DEF Mint, CallAt
<1>a. /\ i \in Ids /\ ~Real(sess[i]) /\ i \notin known /\ i \notin stray /\ i \notin Unclaimed
      /\ \A j \in Ids : Real(sess[j]) => sess[j].fam # i /\ sess[j].next # i
      /\ \A d \in Calls : call[d].id # i /\ call[d].new # i
      /\ sess[i] = NoSess
  BY FreshUnnamed
<1> DEFINE old == call[c].id
<1>b. /\ sess \in [Ids -> {NoSess} \cup SessType] /\ call \in [Calls -> CallType]
      /\ old \in Ids /\ Real(sess[old]) /\ call[c].new = NoId
  BY <1>2 DEF SessInv, TypeOKSessions, SessType, CallType, CallsFit, Refreshing
<1>k. sess[old] \in SessType
  BY <1>b DEF Real, NoSess
<1>c. \A j \in Ids \ {i} : sess'[j] = sess[j]
  BY <1>1, <1>b
<1>d. /\ sess'[i].who = sess[old].who /\ sess'[i].fam = sess[old].fam /\ sess'[i].st = "live"
      /\ sess'[i].next = NoId /\ sess'[i].ver = sess[old].ver
  BY <1>1, <1>a, <1>b, <1>k DEF SessType
<1>e. /\ call'[c].at = "claiming" /\ call'[c].new = i /\ call'[c].id = old
      /\ \A d \in Calls \ {c} : call'[d] = call[d]
  BY <1>1, <1>b DEF CallType
<1> HIDE DEF old
<1>f. \A x \in Ids : x \in Unclaimed' <=> x \in Unclaimed \/ x = i
  BY <1>2, <1>a, <1>b, <1>e DEF Unclaimed
<1>3. TypeOKSessions'
  <2>1. sess' \in [Ids -> {NoSess} \cup SessType]
    BY <1>1, <1>a, <1>b, <1>k DEF SessType, old
  <2>2. call' \in [Calls -> CallType]
    <3>1. [call[c] EXCEPT !.at = "claiming", !.new = i] \in CallType
      <4>1. call[c] \in CallType
        BY <1>b
      <4> QED
        BY <1>a, <4>1 DEF CallType
    <3> QED
      BY <1>1, <1>b, <3>1
  <2> QED
    BY <1>1, <1>2, <1>a, <1>b, <2>1, <2>2 DEF SessInv, TypeOKSessions, SessType, CallType
<1>4. CallsFit'
  <2> SUFFICES ASSUME NEW d \in Calls
               PROVE  /\ call'[d].new # NoId <=> call'[d].at \in {"claiming", "orphaning"}
                      /\ call'[d].at \in Refreshing => call'[d].id \in Ids
                      /\ call'[d].at \in Acting => call'[d].who \in Principals
                      /\ call'[d].id \in Ids => Real(sess'[call'[d].id])
                      /\ call'[d].new \in Ids => /\ Real(sess'[call'[d].new])
                                                 /\ sess'[call'[d].new].who = sess'[call'[d].id].who
                                                 /\ sess'[call'[d].new].fam = sess'[call'[d].id].fam
                                                 /\ sess'[call'[d].new].ver = sess'[call'[d].id].ver
    BY DEF CallsFit
  <2>1. CASE d = c
    BY <1>a, <1>b, <1>c, <1>d, <1>e, <2>1 DEF Refreshing, Acting, Real
  <2>2. CASE d # c
    <3>1. call[d].new \in Ids => call[d].id \in Ids
      BY DEF SessInv, CallsFit, Refreshing
    <3> QED
      BY <1>a, <1>c, <1>e, <2>2, <3>1 DEF SessInv, CallsFit
  <2> QED
    BY <2>1, <2>2
<1>5. NewsApart'
  BY <1>a, <1>e DEF SessInv, NewsApart
<1>6. Recorded'
  <2> SUFFICES ASSUME NEW j \in Ids
               PROVE  /\ j \in known' \cup stray' => Real(sess'[j])
                      /\ Real(sess'[j]) => Real(sess'[sess'[j].fam])
                      /\ sess'[j].next \in Ids => Real(sess'[sess'[j].next])
    BY DEF Recorded
  <2>1. CASE j = i
    <3>1. Real(sess[sess[old].fam]) /\ sess[old].fam # i /\ sess[old].fam \in Ids
      BY <1>a, <1>b, <1>k DEF SessInv, Recorded, SessType
    <3> QED
      BY <1>c, <1>d, <2>1, <3>1 DEF Real
  <2>2. CASE j # i
    <3>1. Real(sess[j]) => sess[j].fam \in Ids
      BY <1>b DEF Real, SessType, NoSess
    <3>2. ~Real(sess[j]) => sess[j].next = NoId
      BY <1>b DEF Real, SessType, NoSess, Reasons
    <3> QED
      BY <1>2, <1>a, <1>c, <2>2, <3>1, <3>2 DEF SessInv, Recorded
  <2> QED
    BY <2>1, <2>2
<1>g. \A j \in Ids : ~Real(sess[j]) => sess[j].fam = NoId
  BY <1>b DEF Real, SessType, NoSess, Reasons
<1>7. FamilyOfOne'
  <2> SUFFICES ASSUME NEW j \in Ids, NEW k \in Ids, Real(sess'[j]), sess'[j].fam = sess'[k].fam
               PROVE  sess'[j].who = sess'[k].who
    BY DEF FamilyOfOne
  <2> DEFINE of(x) == IF x = i THEN old ELSE x
  <2>1. \A x \in Ids : of(x) \in Ids /\ sess'[x].who = sess[of(x)].who /\ sess'[x].fam = sess[of(x)].fam
    BY <1>b, <1>c, <1>d
  <2>2. Real(sess[of(j)])
    BY <1>b, <1>c DEF Real
  <2> HIDE DEF of
  <2> QED
    BY <2>1, <2>2 DEF SessInv, FamilyOfOne
<1>8. HandedOut'
  <2>1. \A j \in Ids : /\ j \in known' => j \notin Unclaimed'
                       /\ sess'[j].next \in Ids => sess'[j].next \notin Unclaimed'
    <3>1. \A j \in Ids : ~Real(sess[j]) => sess[j].next = NoId
      BY <1>b DEF Real, SessType, NoSess, Reasons
    <3> QED
      BY <1>2, <1>a, <1>c, <1>d, <1>f, <3>1 DEF SessInv, HandedOut
  <2>2. \A d \in Calls : /\ call'[d].id \in Ids => call'[d].id \notin Unclaimed'
                         /\ call'[d].new \in Ids => call'[d].new \notin stray'
    BY <1>2, <1>a, <1>e, <1>f DEF SessInv, HandedOut, old
  <2> QED
    BY <2>1, <2>2 DEF HandedOut
<1>9. OneLive'
  <2> SUFFICES ASSUME NEW j \in Ids, NEW k \in Ids, j \notin Unclaimed', k \notin Unclaimed',
                      sess'[j].st = "live", sess'[k].st = "live", sess'[j].fam = sess'[k].fam
               PROVE  j = k
    BY DEF OneLive, Alive, Is
  <2> QED
    BY <1>c, <1>f DEF SessInv, OneLive, Alive, Is
<1>10. EndedGone'
  <2> SUFFICES ASSUME NEW j \in known, NEW k \in Ids, Ended(j)', k \notin Unclaimed',
                      sess'[k].fam = sess'[j].fam, sess'[k].st = "live"
               PROVE  FALSE
    BY <1>2 DEF EndedGone, Alive, Is, Ended
  <2>1. j # i /\ j \in Ids /\ k # i /\ k \notin Unclaimed
    BY <1>a, <1>f DEF SessInv, TypeOKSessions
  <2>2. Ended(j)
    BY <1>c, <2>1 DEF Ended
  <2> QED
    BY <1>c, <2>1, <2>2 DEF SessInv, EndedGone, Alive, Is
<1> QED
  BY <1>3, <1>4, <1>5, <1>6, <1>7, <1>8, <1>9, <1>10 DEF SessInv

(* A live session is rotated to the successor its call minted.             *)
LEMMA ClaimStep == ASSUME SessInv, NEW c \in Calls, Claim(c) PROVE SessInv'
<1> USE SessionsAssumption
<1> DEFINE old == call[c].id
           i   == call[c].new
<1>1. /\ sess' = [sess EXCEPT ![old] = [@ EXCEPT !.st = "rotated", !.next = i]]
      /\ call' = [call EXCEPT ![c] = NoCall]
      /\ known' \in {known, known \cup {i}}
      /\ call[c].at = "claiming" /\ Alive(old)
  BY DEF Claim, Goes, Answer, CallAt, ClaimsLive
<1>2. /\ stray' = stray /\ late' = late /\ expired' = expired /\ usable' = usable /\ secret' = secret
      /\ open' = open /\ deleted' = deleted
  BY DEF Claim
<1>b. /\ sess \in [Ids -> {NoSess} \cup SessType] /\ call \in [Calls -> CallType] /\ NoCall \in CallType
      /\ old \in Ids /\ i \in Ids
  BY <1>1 DEF SessInv, TypeOKSessions, SessType, CallType, NoCall, CallsFit, Refreshing
<1>a. /\ old \notin Unclaimed /\ i \in Unclaimed /\ i \notin stray
      /\ Real(sess[i]) /\ Real(sess[old]) /\ sess[i].fam = sess[old].fam
  <2>1. i \in Unclaimed
    BY DEF Unclaimed
  <2> QED
    BY <1>b, <2>1 DEF SessInv, CallsFit, HandedOut
<1> HIDE DEF i, old
<1>k. sess[old] \in SessType
  BY <1>a, <1>b DEF Real, NoSess
<1>c. \A j \in Ids \ {old} : sess'[j] = sess[j]
  BY <1>1, <1>b
<1>d. /\ sess'[old].who = sess[old].who /\ sess'[old].fam = sess[old].fam /\ sess'[old].st = "rotated"
      /\ sess'[old].next = i /\ sess'[old].ver = sess[old].ver
  BY <1>1, <1>b, <1>k DEF SessType
<1>s. \A j \in Ids : /\ sess'[j].who = sess[j].who /\ sess'[j].fam = sess[j].fam /\ sess'[j].ver = sess[j].ver
                     /\ Real(sess'[j]) <=> Real(sess[j])
  BY <1>a, <1>c, <1>d DEF Real
<1>e. call'[c] = NoCall /\ NoCall.new = NoId /\ NoCall.id = NoId /\ \A d \in Calls \ {c} : call'[d] = call[d]
  BY <1>1, <1>b DEF NoCall
<1>f. \A x \in Ids : x \in Unclaimed' <=> x \in Unclaimed /\ x # i
  <2>1. \A d \in Calls \ {c} : call[d].new # i
    BY <1>b DEF SessInv, NewsApart, i
  <2> QED
    BY <1>2, <1>a, <1>e, <2>1 DEF Unclaimed, i
<1>3. TypeOKSessions'
  <2>1. sess' \in [Ids -> {NoSess} \cup SessType]
    BY <1>1, <1>b, <1>k DEF SessType, Reasons
  <2>2. call' \in [Calls -> CallType]
    BY <1>1, <1>b
  <2> QED
    BY <1>1, <1>2, <1>b, <2>1, <2>2 DEF SessInv, TypeOKSessions, SessType, CallType
<1>4. CallsFit'
  <2> SUFFICES ASSUME NEW d \in Calls, d # c
               PROVE  /\ call'[d].new # NoId <=> call'[d].at \in {"claiming", "orphaning"}
                      /\ call'[d].at \in Refreshing => call'[d].id \in Ids
                      /\ call'[d].at \in Acting => call'[d].who \in Principals
                      /\ call'[d].id \in Ids => Real(sess'[call'[d].id])
                      /\ call'[d].new \in Ids => /\ Real(sess'[call'[d].new])
                                                 /\ sess'[call'[d].new].who = sess'[call'[d].id].who
                                                 /\ sess'[call'[d].new].fam = sess'[call'[d].id].fam
                                                 /\ sess'[call'[d].new].ver = sess'[call'[d].id].ver
    BY <1>e DEF CallsFit, NoCall, Refreshing, Acting
  <2>1. call[d].new \in Ids => call[d].id \in Ids
    BY DEF SessInv, CallsFit, Refreshing
  <2> QED
    BY <1>s, <1>e, <2>1 DEF SessInv, CallsFit
<1>5. NewsApart'
  BY <1>e DEF SessInv, NewsApart
<1>6. Recorded'
  <2> SUFFICES ASSUME NEW j \in Ids
               PROVE  /\ j \in known' \cup stray' => Real(sess'[j])
                      /\ Real(sess'[j]) => Real(sess'[sess'[j].fam])
                      /\ sess'[j].next \in Ids => Real(sess'[sess'[j].next])
    BY DEF Recorded
  <2>1. Real(sess[j]) => sess[j].fam \in Ids
    BY <1>b DEF Real, SessType, NoSess
  <2>2. sess'[j].next \in Ids => Real(sess'[sess'[j].next])
    BY <1>a, <1>b, <1>c, <1>d, <1>s DEF SessInv, Recorded
  <2> QED
    BY <1>1, <1>2, <1>a, <1>s, <2>1, <2>2 DEF SessInv, Recorded
<1>7. FamilyOfOne'
  BY <1>s DEF SessInv, FamilyOfOne
<1>8. HandedOut'
  <2>1. \A j \in Ids : /\ j \in known' => j \notin Unclaimed'
                       /\ sess'[j].next \in Ids => sess'[j].next \notin Unclaimed'
    BY <1>1, <1>b, <1>c, <1>d, <1>f DEF SessInv, HandedOut
  <2>2. \A d \in Calls : /\ call'[d].id \in Ids => call'[d].id \notin Unclaimed'
                         /\ call'[d].new \in Ids => call'[d].new \notin stray'
    BY <1>2, <1>e, <1>f DEF SessInv, HandedOut
  <2> QED
    BY <2>1, <2>2 DEF HandedOut
<1>z. \A j \in Ids : j \notin Unclaimed' /\ sess'[j].st = "live" /\ sess'[j].fam = sess[old].fam => j = i
  BY <1>1, <1>a, <1>b, <1>c, <1>d, <1>f DEF SessInv, OneLive, Alive, Is
<1>9. OneLive'
  <2> SUFFICES ASSUME NEW j \in Ids, NEW k \in Ids, j \notin Unclaimed', k \notin Unclaimed',
                      sess'[j].st = "live", sess'[k].st = "live", sess'[j].fam = sess'[k].fam
               PROVE  j = k
    BY DEF OneLive, Alive, Is
  <2>1. CASE sess'[j].fam = sess[old].fam
    BY <1>z, <2>1
  <2>2. CASE sess'[j].fam # sess[old].fam
    <3>1. j # old /\ k # old /\ j # i /\ k # i
      BY <1>a, <1>b, <1>s, <2>2
    <3> QED
      BY <1>c, <1>f, <3>1 DEF SessInv, OneLive, Alive, Is
  <2> QED
    BY <2>1, <2>2
<1>10. EndedGone'
  <2> SUFFICES ASSUME NEW j \in known', NEW k \in Ids, Ended(j)', k \notin Unclaimed',
                      sess'[k].fam = sess'[j].fam, sess'[k].st = "live"
               PROVE  FALSE
    BY DEF EndedGone, Alive, Is, Ended
  <2>1. j # old /\ j \in Ids /\ Ended(j)
    BY <1>1, <1>b, <1>c, <1>d DEF Ended, SessInv, TypeOKSessions
  <2>2. k # old /\ Alive(k)
    BY <1>c, <1>d DEF Alive, Is
  <2>3. k # j
    BY <2>1, <2>2 DEF Alive, Is, Ended, Reasons
  <2>4. CASE sess[j].fam = sess[old].fam
    <3>1. k = i
      BY <1>s, <1>z, <2>1, <2>4
    <3>2. j \in known
      BY <1>1, <2>3, <3>1
    <3> QED
      BY <1>1, <1>a, <1>b, <2>1, <2>4, <3>2 DEF SessInv, EndedGone
  <2>5. CASE sess[j].fam # sess[old].fam
    <3>1. j # i /\ k # i
      BY <1>a, <1>b, <1>s, <2>1, <2>5
    <3>2. j \in known /\ k \notin Unclaimed
      BY <1>1, <1>f, <3>1
    <3> QED
      BY <1>s, <2>1, <2>2, <3>2 DEF SessInv, EndedGone
  <2> QED
    BY <2>4, <2>5
<1> QED
  BY <1>3, <1>4, <1>5, <1>6, <1>7, <1>8, <1>9, <1>10 DEF SessInv

(* One that nobody may touch any more, and the others of its principal.    *)
LEMMA FamiliesClosed ==
  ASSUME SessInv
  PROVE  \A x \in Ids : Closed(Family(x))
BY DEF Closed, Family
LEMMA PrincipalsClosed ==
  ASSUME SessInv
  PROVE  \A p : Closed(Of(p))
BY DEF SessInv, FamilyOfOne, Closed, Of

LEMMA SessStep == ASSUME SessInv, [NextSessions]_sessVars PROVE SessInv'
<1> USE SessionsAssumption
<1>a. /\ TypeOKSessions /\ call \in [Calls -> CallType] /\ NoCall \in CallType
      /\ NoCall.at = "idle" /\ NoCall.id = NoId /\ NoCall.new = NoId /\ NoCall.who = NoId
      /\ secret \in [Principals -> 0..MaxSecret] /\ usable \in [Principals -> BOOLEAN]
      /\ open \subseteq Principals /\ deleted \subseteq Principals
  BY DEF SessInv, TypeOKSessions, CallType, NoCall
<1>b. \A i \in Ids : /\ sess[i].next \in Ids \cup {NoId}
                     /\ Real(sess[i]) => sess[i].who \in Principals
                     /\ i \in known => Real(sess[i]) /\ i \notin Unclaimed
                     /\ sess[i].next \in Ids => Real(sess[sess[i].next]) /\ sess[i].next \notin Unclaimed
  BY DEF SessInv, TypeOKSessions, NoSess, Real, Recorded, HandedOut
<1>c. \A c \in Calls : call[c] \in CallType /\ MayBecome(c, call[c])
  BY <1>a, Stays
<1>d. sess \in [Ids -> {NoSess} \cup SessType]
  BY <1>a DEF TypeOKSessions, SessType
(* Calls that only read. *)
<1>1. ASSUME NEW c \in Calls, NEW s \in CallType, MayBecome(c, s), s.new = call[c].new, Goes(c, s), OnlyCall
      PROVE  SessInv'
  BY <1>1, <1>a, CallStep DEF OnlyCall
<1>2. ASSUME NEW c \in Calls, NEW p \in Principals, BeginSignIn(c, p) PROVE SessInv'
  <2> DEFINE s == [NoCall EXCEPT !.at = "signing", !.who = p, !.ver = secret[p]]
  <2>1. s \in CallType /\ s.at = "signing" /\ s.id = NoId /\ s.new = NoId /\ s.who = p
    BY <1>a DEF CallType
  <2>2. s \in CallType /\ MayBecome(c, s) /\ s.new = call[c].new
    BY <1>2, <1>a, <2>1 DEF BeginSignIn, CallType, MayBecome, Refreshing, Acting, Idle
  <2> HIDE DEF s
  <2> QED
    BY <1>2, <1>1, <2>2 DEF BeginSignIn, s
<1>3. ASSUME NEW c \in Calls, NEW i \in Ids, Present(c, i) PROVE SessInv'
  <2>1. PICK a \in {"checking", "following", "reusing"}, x \in Ids :
          x \in {i, sess[i].next} /\ Goes(c, [NoCall EXCEPT !.at = a, !.id = x])
    BY <1>3, <1>b DEF Present, Forgiven
  <2> DEFINE s == [NoCall EXCEPT !.at = a, !.id = x]
  <2>2. s \in CallType /\ s.at = a /\ s.id = x /\ s.new = NoId
    BY <1>a DEF CallType
  <2>3. Real(sess[x]) /\ x \notin Unclaimed /\ call[c] = NoCall
    BY <1>3, <1>b, <2>1 DEF Present, Idle
  <2>4. s \in CallType /\ MayBecome(c, s) /\ s.new = call[c].new
    BY <1>a, <2>2, <2>3 DEF CallType, MayBecome, Refreshing, Acting
  <2> HIDE DEF s
  <2> QED
    BY <1>3, <1>1, <2>1, <2>4 DEF Present, s
<1>4. ASSUME NEW c \in Calls, NEW a \in {"checking", "reusing", "minting", "barring", "orphaning"},
             call[c].at \in Refreshing, call[c].at \in {"claiming", "orphaning"} <=> a = "orphaning",
             Goes(c, [call[c] EXCEPT !.at = a]), OnlyCall
      PROVE  SessInv'
  <2> DEFINE s == [call[c] EXCEPT !.at = a]
  <2>1. s \in CallType /\ s.at = a /\ s.id = call[c].id /\ s.new = call[c].new
    BY <1>c DEF CallType
  <2>2. MayBecome(c, s)
    BY <1>4, <1>c, <2>1 DEF MayBecome, Refreshing, Acting
  <2> HIDE DEF s
  <2> QED
    BY <1>4, <1>1, <2>1, <2>2 DEF s
<1>5. ASSUME NEW c \in Calls, Follow(c) \/ Check(c) \/ LoseClaim(c) PROVE SessInv'
  BY <1>5, <1>4 DEF Follow, Check, LoseClaim, CallAt, Refreshing
<1>6. ASSUME NEW c \in Calls, NEW i \in Ids, BeginWork(c, i) \/ BeginDelete(c, i) PROVE SessInv'
  <2>1. PICK a \in {"working", "deleting"} : Goes(c, [NoCall EXCEPT !.at = a, !.who = sess[i].who])
    BY <1>6 DEF BeginWork, BeginDelete
  <2> DEFINE s == [NoCall EXCEPT !.at = a, !.who = sess[i].who]
  <2>3. sess[i].who \in Principals /\ call[c] = NoCall
    BY <1>6, <1>b DEF BeginWork, BeginDelete, Idle, Authentic
  <2>2. s \in CallType /\ s.at = a /\ s.id = NoId /\ s.new = NoId /\ s.who = sess[i].who
    BY <1>a, <2>3 DEF CallType
  <2>4. s \in CallType /\ MayBecome(c, s) /\ s.new = call[c].new
    BY <1>a, <2>2, <2>3 DEF CallType, MayBecome, Refreshing, Acting
  <2> HIDE DEF s
  <2> QED
    BY <1>6, <1>1, <2>1, <2>4 DEF BeginWork, BeginDelete, s
(* Calls that end what they began. *)
<1>7. ASSUME NEW c \in Calls, Reuse(c) \/ Bar(c) \/ Orphan(c) \/ EndAll(c) \/ Delete(c) PROVE SessInv'
  <2>1. PICK S \in SUBSET Ids, why \in Reasons \ {"rotated"} :
          /\ sess' = Revoked(S, why)
          /\ Closed(S) \/ why = "orphaned"
          /\ call[c].new \in Ids => call[c].new \in S
    <3>1. CASE Reuse(c)
      BY <3>1, <1>c, FamiliesClosed DEF Reuse, Revoke, CallAt, Reasons, MayBecome, Refreshing, Family
    <3>2. CASE Bar(c)
      BY <3>2, <1>c, PrincipalsClosed DEF Bar, Revoke, CallAt, Reasons, MayBecome, Of
    <3>3. CASE Orphan(c)
      BY <3>3, <1>c DEF Orphan, Revoke, CallAt, Reasons, MayBecome, CallType
    <3>4. CASE EndAll(c)
      BY <3>4, <1>c, PrincipalsClosed DEF EndAll, Revoke, CallAt, Reasons, MayBecome, Of
    <3>5. CASE Delete(c)
      BY <3>5, <1>c, PrincipalsClosed DEF Delete, Revoke, CallAt, Reasons, MayBecome, Of
    <3> QED
      BY <1>7, <3>1, <3>2, <3>3, <3>4, <3>5
  <2>2. /\ late' = late /\ expired' = expired /\ known' = known /\ secret' = secret /\ open' = open /\ stray' = stray
        /\ call' = [call EXCEPT ![c] = NoCall]
    BY <1>7 DEF Reuse, Bar, Orphan, EndAll, Delete, Revoke, Goes
  <2>3. deleted' \subseteq Principals /\ usable' \in [Principals -> BOOLEAN]
    <3>1. Delete(c) => call[c].who \in Principals
      BY <1>c DEF Delete, CallAt, MayBecome, Acting
    <3> QED
      BY <1>7, <1>a, <3>1 DEF Reuse, Bar, Orphan, EndAll, Delete, Revoke
  <2> QED
    BY <2>1, <2>2, <2>3, RevokeStep DEF Finishes
(* Signing out. *)
<1>8. ASSUME NEW i \in Ids, NEW j \in Ids,
             Logout(i) \/ LogoutAll(i) \/ RevokeSession(i, j)
      PROVE  SessInv'
  <2>1. PICK S \in SUBSET Ids, why \in Reasons \ {"rotated"} :
          /\ sess' = Revoked(S, why)
          /\ Closed(S) \/ \E x \in Ids : S = {x}
    BY <1>8, PrincipalsClosed DEF Logout, LogoutAll, RevokeSession, Revoke, Reasons, Of
  <2>2. /\ late' = late /\ expired' = expired /\ known' = known /\ secret' = secret /\ open' = open /\ stray' = stray
        /\ call' = call /\ deleted' = deleted /\ usable' = usable
    BY <1>8 DEF Logout, LogoutAll, RevokeSession, Revoke
  <2> QED
    BY <1>a, <2>1, <2>2, RevokeStep
(* What touches no session and no call, or one call. *)
<1>9. ASSUME UNCHANGED <<sess, known, stray, call>>, TypeOKSessions' PROVE SessInv'
  <2>1. OnlyEnds /\ LetsGo /\ Strays /\ EndsAllOfIt
    BY <1>9 DEF OnlyEnds, LetsGo, Strays, EndsAllOfIt, Ended
  <2> QED
    BY <1>c, <1>9, <2>1, CalmStep
<1>10. ASSUME NEW i \in Ids, GraceEnds(i) \/ Expire(i) PROVE SessInv'
  BY <1>10, <1>9, <1>a DEF GraceEnds, Expire, TypeOKSessions
<1>11. ASSUME NEW p \in Principals, Toggle(p) \/ CloseWork(p) PROVE SessInv'
  BY <1>11, <1>9, <1>a DEF Toggle, CloseWork, TypeOKSessions
<1>12. ASSUME UNCHANGED sessVars PROVE SessInv'
  BY <1>12, <1>9, <1>a DEF sessVars, TypeOKSessions
<1>13. ASSUME NEW c \in Calls, NEW p \in Principals, ChangePassword(c, p) PROVE SessInv'
  <2> DEFINE s == [NoCall EXCEPT !.at = "ending", !.who = p]
  <2>1. s \in CallType /\ s.at = "ending" /\ s.id = NoId /\ s.new = NoId /\ s.who = p
    BY <1>a DEF CallType
  <2>2. s \in CallType /\ MayBecome(c, s) /\ s.new = call[c].new
    BY <1>13, <1>a, <2>1 DEF ChangePassword, CallType, MayBecome, Refreshing, Acting, Idle
  <2> HIDE DEF s
  <2>3. secret' \in [Principals -> 0..MaxSecret]
    BY <1>13, <1>a DEF ChangePassword
  <2>4. /\ Goes(c, s) /\ sess' = sess /\ late' = late /\ expired' = expired /\ known' = known
        /\ usable' = usable /\ open' = open /\ deleted' = deleted /\ stray' = stray
    BY <1>13 DEF ChangePassword, s
  <2> QED
    BY <1>a, <2>2, <2>3, <2>4, CallStep
<1>14. ASSUME NEW c \in Calls, OpenWork(c) \/ Stop(c) PROVE SessInv'
  <2>1. NoCall \in CallType /\ MayBecome(c, NoCall)
    BY <1>a DEF MayBecome, Refreshing, Acting
  <2>2. /\ Goes(c, NoCall) /\ sess' = sess /\ late' = late /\ expired' = expired /\ known' = known /\ secret' = secret
        /\ usable' = usable /\ deleted' = deleted
    BY <1>14 DEF OpenWork, Stop
  <2>3. open' \subseteq Principals
    BY <1>14, <1>a, <1>c DEF OpenWork, Stop, CallAt, MayBecome, Acting
  <2>4. CASE OpenWork(c)
    <3>1. stray' = stray /\ call[c].new = NoId
      BY <2>4, <1>c DEF OpenWork, CallAt, MayBecome
    <3> QED
      BY <1>a, <2>1, <2>2, <2>3, <3>1, CallStep
  <2>5. CASE Stop(c)
    <3>1. CASE call[c].new = NoId
      <4>1. stray' = stray
        BY <2>5, <3>1 DEF Stop
      <4> QED
        BY <1>a, <2>1, <2>2, <2>3, <3>1, <4>1, CallStep
    <3>2. CASE call[c].new # NoId
      <4>1. stray' = stray \cup {call[c].new} /\ call[c].new \in Ids
        BY <2>5, <3>2, <1>c DEF Stop, CallType
      <4> QED
        BY <1>a, <2>1, <2>2, <2>3, <4>1, CallStep
    <3> QED
      BY <3>1, <3>2
  <2> QED
    BY <1>14, <2>4, <2>5
<1> QED
  BY <1>2, <1>3, <1>5, <1>6, <1>7, <1>8, <1>10, <1>11, <1>12, <1>13, <1>14, IssueStep, MintStep, ClaimStep
  DEF NextSessions

-----------------------------------------------------------------------------
(* Of one sign-in at most one session is live, and one that was ended has  *)
(* no live session left that a client holds.                               *)
THEOREM SessionsDoHold == SpecSessions => []SessionsHold
<1>1. SessInv /\ [NextSessions]_sessVars => SessInv'
  BY SessStep
<1>2. SessInv => SessionsHold
  <2> SUFFICES ASSUME SessInv PROVE OneLivePerSignIn /\ EndedStaysEnded
    BY DEF SessionsHold, SessInv
  <2>1. OneLivePerSignIn
    BY DEF SessInv, OneLive, OneLivePerSignIn
  <2>2. \A i \in known : i \in Ids /\ i \notin Unclaimed
    BY DEF SessInv, TypeOKSessions, HandedOut
  <2>3. EndedStaysEnded
    BY <2>2 DEF SessInv, EndedGone, EndedStaysEnded
  <2> QED
    BY <2>1, <2>3
<1> QED
  BY SessInit, <1>1, <1>2, PTL DEF SpecSessions

(* The steps that end sessions, or touch none, make none live.             *)
NoneRevives == \A i \in Ids : Alive(i)' => sess'[i] = sess[i]
LEMMA RevokedNoneRevives == ASSUME SessInv, NEW S, NEW why \in Reasons, sess' = Revoked(S, why) PROVE NoneRevives
<1>1. sess \in [Ids -> {NoSess} \cup SessType] /\ why # "live"
  BY DEF SessInv, TypeOKSessions, SessType, Reasons
<1>2. \A i \in Ids : \/ sess'[i] = sess[i]
                     \/ sess'[i] = [sess[i] EXCEPT !.st = why] /\ sess[i] \in SessType
  BY <1>1 DEF Revoked, Alive, Is, NoSess
<1> QED
  BY <1>1, <1>2 DEF NoneRevives, Alive, Is, SessType

LEMMA OldPasswordStep ==
  ASSUME SessInv, NextSessions
  PROVE  /\ \A c \in Calls : EndAll(c) => \A i \in Ids : sess[i].who = call[c].who => ~Outdated(i)'
         /\ \A i \in Ids : ~Outdated(i) /\ Outdated(i)' =>
              \E c \in Calls :
                \/ Issue(c)
                \/ CallAt(c, "idle") /\ CallAt(c, "ending")'
                \/ Claim(c) /\ OldLive(call[c].id)
<1> USE SessionsAssumption
<1>1. ASSUME NEW c \in Calls, EndAll(c), NEW i \in Ids, sess[i].who = call[c].who
      PROVE  ~Outdated(i)'
  <2>1. sess' = Revoked(Of(call[c].who), "password_change") /\ i \in Of(call[c].who)
    BY <1>1 DEF EndAll, Revoke, Of
  <2>2. EndsJust(Of(call[c].who))
    BY <2>1, RevokedRows DEF Reasons
  <2> QED
    BY <2>1, <2>2 DEF EndsJust, Outdated, OldLive, Alive, Is
<1>2. ASSUME NEW i \in Ids, ~Outdated(i), Outdated(i)',
             \A c \in Calls : ~Issue(c) /\ ~(CallAt(c, "idle") /\ CallAt(c, "ending")')
      PROVE  \E c \in Calls : Claim(c) /\ OldLive(call[c].id)
  <2>a. i \in known' /\ sess'[i].st = "live" /\ sess'[i].ver < secret'[sess'[i].who]
    BY <1>2 DEF Outdated, OldLive, Alive, Is
  <2>1. \A c \in Calls, p \in Principals : ~ChangePassword(c, p)
    <3> SUFFICES ASSUME NEW c \in Calls, NEW p \in Principals, ChangePassword(c, p)
                 PROVE  CallAt(c, "idle") /\ CallAt(c, "ending")'
      BY <1>2
    <3>1. call[c] = NoCall /\ call' = [call EXCEPT ![c] = [NoCall EXCEPT !.at = "ending", !.who = p]]
      BY DEF ChangePassword, Idle, Goes
    <3>2. call \in [Calls -> CallType] /\ NoCall.at = "idle" /\ NoCall \in CallType
      BY DEF SessInv, TypeOKSessions, CallType, NoCall
    <3>3. [NoCall EXCEPT !.at = "ending", !.who = p].at = "ending"
      BY <3>2 DEF CallType
    <3> QED
      BY <3>1, <3>2, <3>3 DEF CallAt
  <2>2. ASSUME NoneRevives, known' = known, secret' = secret
        PROVE  FALSE
    BY <1>2, <2>2 DEF NoneRevives, Outdated, OldLive, Alive, Is
  <2>3. ASSUME sess' = sess, known' = known, secret' = secret
        PROVE  FALSE
    BY <2>2, <2>3 DEF NoneRevives
  <2>4. \A c \in Calls, p \in Principals : ~BeginSignIn(c, p)
    BY <2>3 DEF BeginSignIn, OnlyCall
  <2>5. \A c \in Calls : ~Follow(c) /\ ~Check(c) /\ ~LoseClaim(c) /\ ~OpenWork(c) /\ ~Stop(c)
    BY <2>3 DEF Follow, Check, LoseClaim, OpenWork, Stop, OnlyCall
  <2>6. \A c \in Calls : ~Reuse(c) /\ ~Bar(c) /\ ~Orphan(c) /\ ~EndAll(c) /\ ~Delete(c)
    <3> SUFFICES ASSUME NEW c \in Calls, Reuse(c) \/ Bar(c) \/ Orphan(c) \/ EndAll(c) \/ Delete(c) PROVE FALSE
      OBVIOUS
    <3>1. \E S : \E why \in Reasons : sess' = Revoked(S, why)
      <4>1. {"reuse_detected", "principal_deactivated", "orphaned", "password_change", "account_deleted"} \subseteq Reasons
        BY DEF Reasons
      <4>2. CASE Reuse(c)
        BY <4>1, <4>2 DEF Reuse, Revoke
      <4>3. CASE Bar(c)
        BY <4>1, <4>3 DEF Bar, Revoke
      <4>4. CASE Orphan(c)
        BY <4>1, <4>4 DEF Orphan, Revoke
      <4>5. CASE EndAll(c)
        BY <4>1, <4>5 DEF EndAll, Revoke
      <4>6. CASE Delete(c)
        BY <4>1, <4>6 DEF Delete
      <4> QED
        BY <4>2, <4>3, <4>4, <4>5, <4>6
    <3>2. known' = known /\ secret' = secret
      BY DEF Reuse, Bar, Orphan, EndAll, Delete, Revoke
    <3> QED
      BY <2>2, <3>1, <3>2, RevokedNoneRevives
  <2>7. \A j, k \in Ids : ~Logout(j) /\ ~LogoutAll(j) /\ ~RevokeSession(j, k)
    <3> SUFFICES ASSUME NEW j \in Ids, NEW k \in Ids, Logout(j) \/ LogoutAll(j) \/ RevokeSession(j, k) PROVE FALSE
      OBVIOUS
    <3>1. \E S : \E why \in Reasons : sess' = Revoked(S, why)
      <4>1. {"logout", "logout_all"} \subseteq Reasons
        BY DEF Reasons
      <4>2. CASE Logout(j)
        BY <4>1, <4>2 DEF Logout, Revoke
      <4>3. CASE LogoutAll(j)
        BY <4>1, <4>3 DEF LogoutAll, Revoke
      <4>4. CASE RevokeSession(j, k)
        BY <4>1, <4>4 DEF RevokeSession, Revoke
      <4> QED
        BY <4>2, <4>3, <4>4
    <3>2. known' = known /\ secret' = secret
      BY DEF Logout, LogoutAll, RevokeSession, Revoke
    <3> QED
      BY <2>2, <3>1, <3>2, RevokedNoneRevives
  <2>9. \A c \in Calls : ~Mint(c)
    <3> SUFFICES ASSUME NEW c \in Calls, Mint(c) PROVE FALSE
      OBVIOUS
    <3>1. PICK j \in Fresh : sess' = [sess EXCEPT ![j] = [sess[call[c].id] EXCEPT !.st = "live", !.next = NoId]]
      BY DEF Mint
    <3>2. known' = known /\ secret' = secret /\ j \notin known
      BY FreshUnnamed DEF Mint
    <3>3. i # j /\ sess'[i] = sess[i]
      BY <2>a, <3>1, <3>2 DEF SessInv, TypeOKSessions
    <3> QED
      BY <1>2, <2>a, <3>2, <3>3 DEF Outdated, OldLive, Alive, Is
  <2>10. PICK c \in Calls : Claim(c)
    <3> SUFFICES ASSUME \A c \in Calls : ~Claim(c) PROVE FALSE
      OBVIOUS
    <3>1. \A c \in Calls, p \in Principals : ~(BeginSignIn(c, p) \/ ChangePassword(c, p))
      BY <2>1, <2>4
    <3>2. ASSUME NEW c \in Calls, NEW j \in Ids PROVE ~(Present(c, j) \/ BeginWork(c, j) \/ BeginDelete(c, j))
      BY <2>3 DEF Present, BeginWork, BeginDelete, OnlyCall
    <3>3. \A c \in Calls : ~(\/ Issue(c) \/ Follow(c) \/ Reuse(c) \/ Check(c) \/ Bar(c) \/ Mint(c)
                            \/ Claim(c) \/ LoseClaim(c) \/ Orphan(c) \/ EndAll(c) \/ OpenWork(c) \/ Delete(c) \/ Stop(c))
      BY <1>2, <2>5, <2>6, <2>9
    <3>4. \A j \in Ids : ~(Logout(j) \/ LogoutAll(j) \/ GraceEnds(j) \/ Expire(j))
      <4> SUFFICES ASSUME NEW j \in Ids PROVE ~(Logout(j) \/ LogoutAll(j) \/ GraceEnds(j) \/ Expire(j))
        OBVIOUS
      <4>1. ~GraceEnds(j) /\ ~Expire(j)
        BY <2>3 DEF GraceEnds, Expire
      <4> QED
        BY <2>7, <4>1
    <3>5. \A j, k \in Ids : ~RevokeSession(j, k)
      BY <2>7
    <3>6. ASSUME NEW p \in Principals PROVE ~(Toggle(p) \/ CloseWork(p))
      BY <2>3 DEF Toggle, CloseWork
    <3> QED
      BY <3>1, <3>2, <3>3, <3>4, <3>5, <3>6 DEF NextSessions
  <2> DEFINE old == call[c].id
             j   == call[c].new
  <2>11. /\ sess' = [sess EXCEPT ![old] = [@ EXCEPT !.st = "rotated", !.next = j]]
         /\ known' \in {known, known \cup {j}} /\ secret' = secret /\ Alive(old)
         /\ call[c].at = "claiming"
    BY <2>10 DEF Claim, Answer, ClaimsLive, CallAt
  <2>12. /\ old \in Ids /\ j \in Ids /\ sess[j].who = sess[old].who /\ sess[j].ver = sess[old].ver
         /\ old # j /\ sess \in [Ids -> {NoSess} \cup SessType] /\ sess[old] \in SessType
    <3>1. /\ old \in Ids /\ j \in Ids
          /\ sess \in [Ids -> {NoSess} \cup SessType]
      BY <2>11 DEF SessInv, CallsFit, Refreshing, TypeOKSessions, SessType
    <3>2. old # j
      BY <3>1 DEF SessInv, HandedOut, Unclaimed
    <3>3. sess[old] \in SessType
      BY <2>11, <3>1 DEF Alive, Is, NoSess
    <3> QED
      BY <3>1, <3>2, <3>3 DEF SessInv, CallsFit
  <2> HIDE DEF old, j
  <2>13. i # old /\ sess'[i] = sess[i]
    BY <2>a, <2>11, <2>12 DEF SessType
  <2>14. i = j
    BY <1>2, <2>a, <2>11, <2>13 DEF Outdated, OldLive, Alive, Is
  <2>15. OldLive(old)
    BY <2>a, <2>11, <2>12, <2>13, <2>14 DEF OldLive
  <2> QED
    BY <2>10, <2>15 DEF old
<1> QED
  BY <1>1, <1>2

(* "A password change must end every existing session": none outlives the  *)
(* end of the change, and no refresh carries one past it.                  *)
THEOREM OldPasswordsEnd == SpecSessions => OldPasswordEnds
<1>1. SessInv /\ [NextSessions]_sessVars => SessInv'
  BY SessStep
<1>2. SessInv /\ [NextSessions]_sessVars =>
        [/\ \A c \in Calls : EndAll(c) => \A i \in Ids : sess[i].who = call[c].who => ~Outdated(i)'
         /\ \A i \in Ids : ~Outdated(i) /\ Outdated(i)' =>
              \E c \in Calls :
                \/ Issue(c)
                \/ CallAt(c, "idle") /\ CallAt(c, "ending")'
                \/ Claim(c) /\ OldLive(call[c].id)]_sessVars
  BY OldPasswordStep
<1> QED
  BY SessInit, <1>1, <1>2, PTL DEF SpecSessions, OldPasswordEnds

-----------------------------------------------------------------------------
(* One-time codes.  What a handler has read is about codes that are there. *)
HandlerType == [at: {"idle", "issuing", "writing", "comparing", "missing", "burning", "consuming"},
                for: Purposes \cup {"none"}, saw: SUBSET CodeIds, id: 0..MaxCodes,
                tries: Nat, right: BOOLEAN]
Fine(r, M) ==
  /\ r.at \in {"issuing", "writing"} => r.for \in Purposes
  /\ r.at = "writing" => r.saw \subseteq M
  /\ r.at \in {"comparing", "missing", "burning", "consuming"} => r.id \in M
  /\ r.at = "missing" => r.tries < Attempts
HandlersFine == \A h \in Handlers : Fine(handler[h], Made)

(* A code that was accepted is spent, for good.                            *)
AcceptedIsSpent == \A k \in CodeIds : accepted[k] = 0 \/ (accepted[k] = 1 /\ code[k].spent)

(* The requests that passed a count: they will write a code, or count a    *)
(* wrong answer against k.                                                 *)
Senders    == {h \in Handlers : handler[h].at \in {"issuing", "writing"}}
Guessers(k) == {h \in Handlers : /\ handler[h].at \in {"comparing", "missing"}
                                 /\ handler[h].id = k /\ handler[h].tries < Attempts}
(* Once a limit is reached nobody passes the count, and one of the         *)
(* handlers is the one that reached it.                                    *)
SendsCounted == Cardinality(recent) >= PerWindow =>
                  Cardinality(recent) + Cardinality(Senders) <= PerWindow + Others
TriesCounted == \A k \in CodeIds : code[k].tries >= Attempts =>
                  code[k].tries + Cardinality(Guessers(k)) <= Attempts + Others
CodesInv == TypeOKCodes /\ HandlersFine /\ AcceptedIsSpent /\ SendsCounted /\ TriesCounted

-----------------------------------------------------------------------------
LEMMA CodeIdsFinite == IsFiniteSet(CodeIds) /\ \A k \in CodeIds : k \in Int
<1>1. MaxCodes \in Int /\ 1 \in Int
  BY CodesAssumption
<1> QED
  BY <1>1, FS_Interval DEF CodeIds

LEMMA NewestIsOne == ASSUME NEW S \in SUBSET CodeIds, S # {} PROVE Newest(S) \in S
<1>1. IsFiniteSet(S) /\ \A x \in S : x \in Int
  BY CodeIdsFinite, FS_Subset
<1>2. PICK k \in S : \A j \in S : j <= k
  BY <1>1, LargestExists
<1> QED
  BY <1>2 DEF Newest

LEMMA HandlersCount ==
  ASSUME NEW S \in SUBSET Handlers
  PROVE  /\ IsFiniteSet(S) /\ Cardinality(S) \in Nat /\ Cardinality(S) <= Cardinality(Handlers)
         /\ Cardinality(Handlers) \in Nat
         /\ \A T \in SUBSET S : Cardinality(T) <= Cardinality(S)
         /\ \A h \in S : \A T \in SUBSET (S \ {h}) : Cardinality(T) <= Cardinality(S) - 1
<1>1. IsFiniteSet(S) /\ IsFiniteSet(Handlers) /\ Cardinality(S) <= Cardinality(Handlers)
  BY CodesAssumption, FS_Subset
<1>2. \A T \in SUBSET S : IsFiniteSet(T) /\ Cardinality(T) <= Cardinality(S)
  BY <1>1, FS_Subset
<1>3. ASSUME NEW h \in S, NEW T \in SUBSET (S \ {h})
      PROVE  Cardinality(T) <= Cardinality(S) - 1
  <2>1. IsFiniteSet(S \ {h}) /\ Cardinality(S \ {h}) = Cardinality(S) - 1
    BY <1>1, FS_RemoveElement
  <2> QED
    BY <2>1, FS_Subset
<1> QED
  BY <1>1, <1>2, <1>3, FS_CardinalityType

LEMMA RecentCount ==
  ASSUME recent \subseteq CodeIds
  PROVE  /\ IsFiniteSet(recent) /\ Cardinality(recent) \in Nat
         /\ \A T \in SUBSET recent : Cardinality(T) \in Nat /\ Cardinality(T) <= Cardinality(recent)
         /\ \A k : Cardinality(recent \cup {k}) \in Nat /\ Cardinality(recent \cup {k}) <= Cardinality(recent) + 1
<1>1. IsFiniteSet(recent)
  BY CodeIdsFinite, FS_Subset
<1>2. \A T \in SUBSET recent : IsFiniteSet(T) /\ Cardinality(T) <= Cardinality(recent)
  BY <1>1, FS_Subset
<1>3. \A k : IsFiniteSet(recent \cup {k}) /\ Cardinality(recent \cup {k}) <= Cardinality(recent) + 1
  BY <1>1, FS_AddElement, FS_CardinalityType
<1> QED
  BY <1>1, <1>2, <1>3, FS_CardinalityType

(* One handler moves on, codes are only added.                             *)
LEMMA HandlerMoves ==
  ASSUME TypeOKCodes, HandlersFine, NEW h \in Handlers, NEW r \in HandlerType, Fine(r, Made'), Made \subseteq Made',
         Then(h, r)
  PROVE  handler' \in [Handlers -> HandlerType] /\ HandlersFine'
<1>1. handler \in [Handlers -> HandlerType] /\ handler' = [handler EXCEPT ![h] = r]
  BY DEF TypeOKCodes, HandlerType, Then
<1>2. handler' \in [Handlers -> HandlerType] /\ \A g \in Handlers : handler'[g] = IF g = h THEN r ELSE handler[g]
  BY <1>1
<1> QED
  BY <1>2 DEF HandlersFine, Fine

LEMMA RestingIsFine == Resting \in HandlerType /\ \A M : Fine(Resting, M)
BY CodesAssumption DEF Resting, HandlerType, Fine

LEMMA CodesInit == InitCodes => CodesInv
<1> SUFFICES ASSUME InitCodes PROVE CodesInv
  OBVIOUS
<1> USE DEF InitCodes
<1>1. TypeOKCodes /\ HandlersFine /\ AcceptedIsSpent
  BY RestingIsFine DEF TypeOKCodes, HandlersFine, HandlerType, NoCode, AcceptedIsSpent
<1>2. Cardinality(recent) = 0
  BY FS_EmptySet
<1>3. SendsCounted /\ TriesCounted
  BY <1>2, CodesAssumption DEF SendsCounted, TriesCounted, NoCode
<1> QED
  BY <1>1, <1>3 DEF CodesInv

(* What spending some codes changes.                                       *)
CodeRows == [CodeIds -> {NoCode} \cup [for: Purposes, tries: Nat, spent: BOOLEAN, old: BOOLEAN]]
SpendsOf(c, S) ==
  /\ c \in CodeRows
  /\ \A k \in CodeIds : (c[k].spent <=> code[k].spent \/ k \in S) /\ (code[k] # NoCode => c[k] # NoCode)
LEMMA SpentSpends == ASSUME TypeOKCodes, NEW S \in SUBSET Made PROVE SpendsOf(Spent(S), S)
BY DEF TypeOKCodes, SpendsOf, CodeRows, Spent, Made, NoCode

(* The part of the invariant without counting: what a step does to the     *)
(* codes, and what to the handler that takes it.                           *)
CodesKept ==
  /\ code' \in CodeRows
  /\ recent' \subseteq CodeIds /\ accepted' \in [CodeIds -> Nat] /\ AcceptedIsSpent' /\ Made \subseteq Made'

LEMMA CodesPlain ==
  ASSUME TypeOKCodes, HandlersFine, AcceptedIsSpent, [NextCodes]_codeVars
  PROVE  TypeOKCodes' /\ HandlersFine' /\ AcceptedIsSpent'
<1> USE DEF At
<1> DEFINE Goal == TypeOKCodes' /\ HandlersFine' /\ AcceptedIsSpent'
<1>a. /\ code \in CodeRows
      /\ recent \subseteq CodeIds /\ accepted \in [CodeIds -> Nat]
      /\ handler \in [Handlers -> HandlerType] /\ \A h \in Handlers : Fine(handler[h], Made)
  BY DEF TypeOKCodes, HandlersFine, HandlerType, CodeRows
<1>b. ASSUME NEW h \in Handlers, NEW r \in HandlerType, Fine(r, Made'), CodesKept, Then(h, r)
      PROVE  Goal
  BY <1>b, HandlerMoves DEF CodesKept, TypeOKCodes, HandlerType, CodeRows
<1>c. ASSUME UNCHANGED <<code, recent, accepted>>
      PROVE  CodesKept /\ Made' = Made
  BY <1>a, <1>c DEF CodesKept, Made, AcceptedIsSpent
<1>1. ASSUME NEW h \in Handlers, NEW u \in Purposes, CountSends(h, u)
      PROVE  Goal
  <2> DEFINE r == [Resting EXCEPT !.at = "issuing", !.for = u]
  <2>1. r \in HandlerType /\ Fine(r, Made')
    BY RestingIsFine DEF HandlerType, Fine, Resting
  <2> HIDE DEF Goal
  <2> QED
    BY <1>1, <1>b, <1>c, <2>1 DEF CountSends
<1>2. ASSUME NEW h \in Handlers, NEW u \in Purposes, NEW right \in BOOLEAN, Enter(h, u, right)
      PROVE  Goal
  <2> DEFINE k == Newest(LiveCodes(u))
             r == [Resting EXCEPT !.at = "comparing", !.for = u, !.id = k, !.tries = code[k].tries, !.right = right]
  <2>1. k \in Made
    <3>1. LiveCodes(u) \in SUBSET CodeIds /\ LiveCodes(u) \subseteq Made
      BY DEF LiveCodes, Unspent, Made
    <3> QED
      BY <1>2, <3>1, NewestIsOne DEF Enter
  <2>2. code[k].tries \in Nat /\ k \in 0..MaxCodes
    BY <1>a, <2>1 DEF NoCode, Made, CodeIds, CodeRows
  <2>3. Made' = Made /\ CodesKept /\ Then(h, r)
    BY <1>2, <1>c DEF Enter
  <2>4. r \in HandlerType
    <3> HIDE DEF k
    <3> QED
      BY <2>2, RestingIsFine DEF HandlerType, Resting
  <2>5. Fine(r, Made')
    <3>1. r.at = "comparing" /\ r.id = k
      BY DEF Resting
    <3> HIDE DEF r, k
    <3> QED
      BY <2>1, <2>3, <3>1 DEF Fine
  <2> HIDE DEF Goal, r
  <2> QED
    BY <1>b, <2>3, <2>4, <2>5
<1>3. ASSUME NEW h \in Handlers, BeginIssue(h)
      PROVE  Goal
  <2> DEFINE r == [handler[h] EXCEPT !.at = "writing", !.saw = SeesUnspent(handler[h].for)]
  <2>1. r \in HandlerType /\ r.saw \subseteq Made /\ r.at = "writing" /\ r.for \in Purposes
    BY <1>a, <1>3 DEF HandlerType, SeesUnspent, Unspent, Made, Fine, BeginIssue
  <2>2. CodesKept /\ Made' = Made /\ Then(h, r)
    BY <1>3, <1>c DEF BeginIssue
  <2> HIDE DEF Goal, r
  <2> QED
    BY <1>b, <2>1, <2>2 DEF Fine
<1>4. ASSUME NEW h \in Handlers, CommitIssue(h)
      PROVE  Goal
  <2>1. PICK k \in CodeIds \ Made :
          /\ code' = [Spent(handler[h].saw) EXCEPT ![k] = [NoCode EXCEPT !.for = handler[h].for]]
          /\ recent' = recent \cup {k}
    BY <1>4 DEF CommitIssue
  <2>2. handler[h].for \in Purposes /\ handler[h].saw \in SUBSET Made /\ Then(h, Resting) /\ accepted' = accepted
    BY <1>a, <1>4 DEF Fine, CommitIssue
  <2>3. code[k] = NoCode /\ accepted[k] = 0
    BY <1>a DEF Made, AcceptedIsSpent, NoCode
  <2> DEFINE S == handler[h].saw
             c == Spent(S)
  <2>a. S \in SUBSET Made
    BY <2>2
  <2> HIDE DEF S
  <2>4. SpendsOf(c, S)
    BY <2>a, SpentSpends
  <2> HIDE DEF c
  <2>5. /\ code' \in CodeRows
        /\ \A j \in CodeIds \ {k} : code'[j] = c[j]
    BY <2>1, <2>2, <2>4 DEF c, S, NoCode, SpendsOf, CodeRows
  <2>6. AcceptedIsSpent'
    BY <1>a, <2>2, <2>3, <2>4, <2>5 DEF AcceptedIsSpent, SpendsOf
  <2>7. CodesKept
    BY <1>a, <2>1, <2>2, <2>4, <2>5, <2>6 DEF CodesKept, Made, SpendsOf
  <2> HIDE DEF Goal
  <2> QED
    BY <1>b, <2>2, <2>7, RestingIsFine
<1>5. ASSUME NEW h \in Handlers, Compare(h)
      PROVE  Goal
  <2> DEFINE r == [handler[h] EXCEPT !.at = IF handler[h].tries >= Attempts THEN "burning"
                                            ELSE IF handler[h].right THEN "consuming" ELSE "missing"]
  <2>1. /\ r \in HandlerType /\ r.id \in Made /\ r.at \in {"burning", "consuming", "missing"}
        /\ r.at = "missing" => r.tries < Attempts
    BY <1>a, <1>5, CodesAssumption DEF HandlerType, Fine, Compare
  <2>2. CodesKept /\ Made' = Made /\ Then(h, r)
    BY <1>5, <1>c DEF Compare
  <2> HIDE DEF Goal, r
  <2> QED
    BY <1>b, <2>1, <2>2 DEF Fine
<1>6. ASSUME NEW h \in Handlers, Miss(h)
      PROVE  Goal
  <2> DEFINE r == IF code[handler[h].id].tries + 1 >= Attempts THEN [handler[h] EXCEPT !.at = "burning"] ELSE Resting
  <2>1. handler[h].id \in Made /\ handler[h] \in HandlerType
    BY <1>a, <1>6 DEF Fine, Miss
  <2>2. CodesKept
    <3> DEFINE k == handler[h].id
    <3>1. k \in CodeIds /\ code[k] \in [for: Purposes, tries: Nat, spent: BOOLEAN, old: BOOLEAN]
      BY <1>a, <2>1 DEF Made, CodeRows
    <3>2. code' = [code EXCEPT ![k].tries = code[k].tries + 1] /\ accepted' = accepted /\ recent' = recent
      BY <1>6 DEF Miss
    <3> HIDE DEF k
    <3>3. /\ code' \in CodeRows
          /\ code'[k] # NoCode /\ code'[k].spent = code[k].spent /\ \A j \in CodeIds \ {k} : code'[j] = code[j]
      BY <1>a, <3>1, <3>2 DEF NoCode, CodeRows
    <3> QED
      BY <1>a, <3>1, <3>2, <3>3 DEF CodesKept, Made, AcceptedIsSpent
  <2>3. r \in HandlerType /\ (r = Resting \/ (r.at = "burning" /\ r.id \in Made))
    BY <2>1, RestingIsFine DEF HandlerType
  <2>4. Then(h, r)
    BY <1>6 DEF Miss
  <2> HIDE DEF Goal, r
  <2>5. Fine(r, Made')
    BY <2>2, <2>3, RestingIsFine DEF Fine, CodesKept
  <2> QED
    BY <1>b, <2>2, <2>3, <2>4, <2>5
<1>7. ASSUME NEW h \in Handlers, Burn(h) \/ Consume(h)
      PROVE  Goal
  <2>1. handler[h].id \in Made /\ {handler[h].id} \in SUBSET Made
    BY <1>a, <1>7 DEF Fine, Burn, Consume
  <2>2. code' = Spent({handler[h].id}) /\ recent' = recent /\ Then(h, Resting)
    BY <1>7 DEF Burn, Consume
  <2>3. accepted' = accepted \/ (~code[handler[h].id].spent /\ accepted' = [accepted EXCEPT ![handler[h].id] = @ + 1])
    BY <1>7 DEF Burn, Consume, IsUnspent
  <2> DEFINE k == handler[h].id
             S == {k}
             c == Spent(S)
  <2>a. S \in SUBSET Made /\ code' = c /\ \A j : j \in S <=> j = k
    BY <2>1, <2>2
  <2> HIDE DEF S
  <2>b. SpendsOf(c, S)
    BY <2>a, SpentSpends
  <2> HIDE DEF c
  <2>4. /\ code' \in CodeRows
        /\ \A j \in CodeIds : (code'[j].spent <=> code[j].spent \/ j = k) /\ (code[j] # NoCode => code'[j] # NoCode)
    BY <2>a, <2>b DEF SpendsOf
  <2>5. k \in CodeIds
    BY <2>1 DEF Made
  <2> HIDE DEF k
  <2>6. AcceptedIsSpent' /\ accepted' \in [CodeIds -> Nat]
    <3>1. accepted' = accepted \/ (~code[k].spent /\ accepted' = [accepted EXCEPT ![k] = @ + 1])
      BY <2>3 DEF k
    <3> QED
      BY <1>a, <2>4, <2>5, <3>1 DEF AcceptedIsSpent
  <2>7. CodesKept
    BY <1>a, <2>2, <2>4, <2>6 DEF CodesKept, Made
  <2> HIDE DEF Goal
  <2> QED
    BY <1>b, <2>2, <2>7, RestingIsFine
<1>8. ASSUME NEW h \in Handlers, TooLate(h) \/ Die(h)
      PROVE  Goal
  <2> HIDE DEF Goal
  <2> QED
    BY <1>8, <1>b, <1>c, RestingIsFine DEF TooLate, Die
<1>9. ASSUME UNCHANGED handler, CodesKept
      PROVE  Goal
  <2>1. \A h \in Handlers : Fine(handler[h], Made)'
    BY <1>a, <1>9 DEF Fine, CodesKept
  <2> QED
    BY <1>a, <1>9, <2>1 DEF CodesKept, TypeOKCodes, HandlersFine, HandlerType, CodeRows
<1>10. ASSUME NEW k \in CodeIds, CodeExpires(k)
       PROVE  UNCHANGED handler /\ CodesKept
  BY <1>a, <1>10 DEF CodeExpires, Made, NoCode, CodesKept, AcceptedIsSpent, CodeRows
<1>11. WindowPasses => UNCHANGED handler /\ CodesKept
  BY <1>a DEF WindowPasses, Made, CodesKept, AcceptedIsSpent
<1>12. UNCHANGED codeVars => UNCHANGED handler /\ CodesKept
  BY <1>c DEF codeVars
<1> HIDE DEF Goal
<1>13. Goal
  BY <1>1, <1>2, <1>3, <1>4, <1>5, <1>6, <1>7, <1>8, <1>9, <1>10, <1>11, <1>12 DEF NextCodes
<1> QED
  BY <1>13 DEF Goal

(* Only a handler that counts below the limit joins the senders, and every *)
(* code that is written is one sender less.                                *)
LEMMA SendsStep ==
  ASSUME TypeOKCodes, SendsCounted, [NextCodes]_codeVars
  PROVE  SendsCounted'
<1> USE DEF Then, At
<1>0. Senders \in SUBSET Handlers /\ recent \subseteq CodeIds /\ PerWindow \in Nat \ {0} /\ Others \in Int
  BY CodesAssumption, HandlersCount DEF Senders, TypeOKCodes, Others
<1>1. ASSUME NEW h \in Handlers, NEW u \in Purposes, CountSends(h, u)
      PROVE  SendsCounted'
  BY <1>1, <1>0, RecentCount DEF CountSends, WithinLimit, SendsCounted
<1>2. ASSUME NEW h \in Handlers, CommitIssue(h)
      PROVE  SendsCounted'
  <2>1. Senders' \subseteq Senders \ {h} /\ h \in Senders
    BY <1>2 DEF CommitIssue, Senders, TypeOKCodes, Resting
  <2>2. Cardinality(Senders') <= Cardinality(Senders) - 1 /\ Cardinality(Senders') \in Nat
    BY <1>0, <2>1, HandlersCount
  <2>3. Cardinality(Senders) <= Cardinality(Handlers)
    BY <1>0, HandlersCount
  <2>4. Cardinality(recent') <= Cardinality(recent) + 1 /\ Cardinality(recent') \in Nat /\ Cardinality(recent) \in Nat
    BY <1>2, <1>0, RecentCount DEF CommitIssue
  <2>5. Cardinality(Senders) \in Nat /\ Cardinality(Handlers) \in Nat
    BY <1>0, HandlersCount
  <2> QED
    BY <1>0, <2>2, <2>3, <2>4, <2>5 DEF SendsCounted, Others
<1>3. ASSUME WindowPasses
      PROVE  SendsCounted'
  <2>1. recent' \subseteq recent /\ Senders' = Senders
    BY <1>3 DEF WindowPasses, Senders
  <2>2. Cardinality(recent') <= Cardinality(recent) /\ Cardinality(recent') \in Nat /\ Cardinality(recent) \in Nat
    BY <1>0, <2>1, RecentCount
  <2>3. Cardinality(Senders) \in Nat
    BY <1>0, HandlersCount
  <2> QED
    BY <1>0, <2>1, <2>2, <2>3 DEF SendsCounted, Others
<1>4. ASSUME recent' = recent, Senders' \subseteq Senders
      PROVE  SendsCounted'
  <2>1. Cardinality(Senders') <= Cardinality(Senders) /\ Cardinality(Senders') \in Nat /\ Cardinality(Senders) \in Nat
    BY <1>0, <1>4, HandlersCount
  <2>2. Cardinality(recent) \in Nat
    BY <1>0, RecentCount
  <2> QED
    BY <1>0, <1>4, <2>1, <2>2 DEF SendsCounted, Others
<1>5. ASSUME NEW h \in Handlers,
             BeginIssue(h) \/ Compare(h) \/ Miss(h) \/ Burn(h) \/ Consume(h) \/ TooLate(h) \/ Die(h)
      PROVE  recent' = recent /\ Senders' \subseteq Senders
  BY <1>5 DEF BeginIssue, Compare, Miss, Burn, Consume, TooLate, Die, Senders, TypeOKCodes, Resting
<1>6. ASSUME NEW h \in Handlers, NEW u \in Purposes, NEW right \in BOOLEAN, Enter(h, u, right)
      PROVE  recent' = recent /\ Senders' \subseteq Senders
  BY <1>6 DEF Enter, Senders, TypeOKCodes, Resting
<1>7. (\E k \in CodeIds : CodeExpires(k)) \/ UNCHANGED codeVars => recent' = recent /\ Senders' \subseteq Senders
  BY DEF CodeExpires, codeVars, Senders
<1> QED
  BY <1>1, <1>2, <1>3, <1>4, <1>5, <1>6, <1>7 DEF NextCodes

(* Only a handler that read less than the limit joins the guessers of a    *)
(* code, and every wrong answer is one guesser less.                       *)
LEMMA TriesStep ==
  ASSUME TypeOKCodes, HandlersFine, TriesCounted, [NextCodes]_codeVars
  PROVE  TriesCounted'
<1> USE DEF Then, At
<1> SUFFICES ASSUME NEW k \in CodeIds
             PROVE  (code[k].tries >= Attempts => code[k].tries + Cardinality(Guessers(k)) <= Attempts + Others)'
  BY DEF TriesCounted
<1>0. /\ Guessers(k) \in SUBSET Handlers /\ Attempts \in Nat /\ Others \in Int /\ code[k].tries \in Nat
      /\ code[k].tries >= Attempts => code[k].tries + Cardinality(Guessers(k)) <= Attempts + Others
  BY CodesAssumption, HandlersCount DEF Guessers, TypeOKCodes, Others, TriesCounted, NoCode
<1>1. Cardinality(Guessers(k)) \in Nat /\ Cardinality(Guessers(k)) <= Cardinality(Handlers) /\ Cardinality(Handlers) \in Nat
  BY <1>0, HandlersCount
<1>2. ASSUME code[k].tries' <= code[k].tries, code[k].tries' \in Nat,
             code[k].tries >= Attempts => Guessers(k)' \subseteq Guessers(k)
      PROVE  (code[k].tries >= Attempts => code[k].tries + Cardinality(Guessers(k)) <= Attempts + Others)'
  <2> SUFFICES ASSUME code[k].tries >= Attempts
               PROVE  code[k].tries' + Cardinality(Guessers(k)') <= Attempts + Others
    BY <1>0, <1>2
  <2>1. Cardinality(Guessers(k)') <= Cardinality(Guessers(k)) /\ Cardinality(Guessers(k)') \in Nat
    BY <1>0, <1>2, HandlersCount
  <2> QED
    BY <1>0, <1>1, <1>2, <2>1
<1>3. ASSUME NEW h \in Handlers, NEW u \in Purposes, CountSends(h, u)
      PROVE  code' = code /\ Guessers(k)' \subseteq Guessers(k)
  BY <1>3 DEF CountSends, Guessers, TypeOKCodes, Resting
<1>4. ASSUME NEW h \in Handlers, NEW u \in Purposes, NEW right \in BOOLEAN, Enter(h, u, right)
      PROVE  code' = code /\ (code[k].tries >= Attempts => Guessers(k)' \subseteq Guessers(k))
  <2> DEFINE n == Newest(LiveCodes(u))
  <2>1. /\ code' = code
        /\ handler' = [handler EXCEPT ![h] = [Resting EXCEPT !.at = "comparing", !.for = u, !.id = n,
                                                !.tries = code[n].tries, !.right = right]]
    BY <1>4 DEF Enter
  <2> HIDE DEF n
  <2>2. handler'[h].id = n /\ handler'[h].tries = code[n].tries /\ \A g \in Handlers \ {h} : handler'[g] = handler[g]
    BY <2>1 DEF TypeOKCodes, Resting
  <2>3. code[k].tries >= Attempts => h \notin Guessers(k)'
    BY <2>2, <1>0 DEF Guessers
  <2> QED
    BY <2>1, <2>2, <2>3 DEF Guessers
<1>11. ASSUME NEW h \in Handlers, Compare(h)
      PROVE  code' = code /\ Guessers(k)' \subseteq Guessers(k)
  <2>1. /\ code' = code /\ handler'[h].id = handler[h].id /\ handler'[h].tries = handler[h].tries
        /\ handler[h].at = "comparing" /\ \A g \in Handlers \ {h} : handler'[g] = handler[g]
    BY <1>11 DEF Compare, TypeOKCodes
  <2> QED
    BY <2>1 DEF Guessers
<1>5. ASSUME NEW h \in Handlers, BeginIssue(h) \/ TooLate(h) \/ Die(h)
      PROVE  code' = code /\ Guessers(k)' \subseteq Guessers(k)
  <2>1. /\ code' = code /\ handler'[h].at \notin {"comparing", "missing"}
        /\ \A g \in Handlers \ {h} : handler'[g] = handler[g]
    <3>1. BeginIssue(h) => handler'[h].at = "writing" /\ code' = code /\ \A g \in Handlers \ {h} : handler'[g] = handler[g]
      BY DEF BeginIssue, TypeOKCodes
    <3>2. TooLate(h) \/ Die(h) => handler'[h].at = "idle" /\ code' = code /\ \A g \in Handlers \ {h} : handler'[g] = handler[g]
      BY DEF TooLate, Die, TypeOKCodes, Resting
    <3> QED
      BY <1>5, <3>1, <3>2
  <2> QED
    BY <2>1 DEF Guessers
<1>6. ASSUME NEW h \in Handlers, CommitIssue(h)
      PROVE  code[k].tries' <= code[k].tries /\ code[k].tries' \in Nat /\ Guessers(k)' \subseteq Guessers(k)
  <2>1. PICK j \in CodeIds \ Made :
          code' = [Spent(handler[h].saw) EXCEPT ![j] = [NoCode EXCEPT !.for = handler[h].for]]
    BY <1>6 DEF CommitIssue
  <2>2. code[k].tries' <= code[k].tries /\ code[k].tries' \in Nat
    BY <2>1, <1>0 DEF TypeOKCodes, Spent, NoCode
  <2> QED
    BY <1>6, <2>2 DEF CommitIssue, Guessers, TypeOKCodes, Resting
<1>7. ASSUME NEW h \in Handlers, Burn(h) \/ Consume(h)
      PROVE  code[k].tries' = code[k].tries /\ Guessers(k)' \subseteq Guessers(k)
  BY <1>7 DEF Burn, Consume, Spent, Guessers, TypeOKCodes, Resting, NoCode
<1>8. ASSUME NEW h \in Handlers, Miss(h)
      PROVE  (code[k].tries >= Attempts => code[k].tries + Cardinality(Guessers(k)) <= Attempts + Others)'
  <2>1. CASE handler[h].id # k
    <3>1. code'[k] = code[k] /\ Guessers(k)' \subseteq Guessers(k)
      BY <1>8, <2>1 DEF Miss, Guessers, TypeOKCodes, Resting
    <3> QED
      BY <1>0, <1>2, <3>1
  <2>2. CASE handler[h].id = k /\ h \in Guessers(k)
    <3>1. code'[k].tries = code[k].tries + 1 /\ Guessers(k)' \subseteq Guessers(k) \ {h}
      BY <1>8, <2>2 DEF Miss, Guessers, TypeOKCodes, Resting, NoCode
    <3>2. Cardinality(Guessers(k)') <= Cardinality(Guessers(k)) - 1 /\ Cardinality(Guessers(k)') \in Nat
      BY <1>0, <2>2, <3>1, HandlersCount
    <3> QED
      BY <1>0, <1>1, <3>1, <3>2 DEF Others
  <2>3. CASE handler[h].id = k /\ h \notin Guessers(k)
    BY <1>8, <2>3 DEF Guessers, Miss, HandlersFine, Fine
  <2> QED
    BY <2>1, <2>2, <2>3
<1>9. ASSUME NEW j \in CodeIds, CodeExpires(j)
      PROVE  code[k].tries' = code[k].tries /\ Guessers(k)' = Guessers(k)
  BY <1>9 DEF CodeExpires, Guessers, TypeOKCodes
<1>10. WindowPasses \/ UNCHANGED codeVars => code' = code /\ Guessers(k)' = Guessers(k)
  BY DEF WindowPasses, codeVars, Guessers
<1> QED
  BY <1>0, <1>2, <1>3, <1>4, <1>5, <1>6, <1>7, <1>8, <1>9, <1>10, <1>11 DEF NextCodes

(* A code is accepted once, at most so many are sent in a window and at    *)
(* most so many wrong answers are taken for one, whatever overlaps.        *)
THEOREM CodesDoHold == SpecCodes => []CodesHold
<1>1. InitCodes => CodesInv
  BY CodesInit
<1>2. CodesInv /\ [NextCodes]_codeVars => CodesInv'
  BY CodesPlain, SendsStep, TriesStep DEF CodesInv
<1>3. CodesInv => CodesHold
  <2> SUFFICES ASSUME CodesInv PROVE CodesHold
    OBVIOUS
  <2>1. AcceptedOnce
    BY DEF CodesInv, AcceptedIsSpent, AcceptedOnce
  <2>2. Cardinality(recent) <= PerWindow + Others
    <3>1. Senders \in SUBSET Handlers /\ recent \subseteq CodeIds /\ PerWindow \in Nat \ {0}
      BY CodesAssumption DEF Senders, CodesInv, TypeOKCodes
    <3>2. Cardinality(Senders) \in Nat /\ Cardinality(Handlers) \in Nat /\ Cardinality(recent) \in Nat
      BY <3>1, HandlersCount, RecentCount
    <3> QED
      BY <3>1, <3>2 DEF CodesInv, SendsCounted, Others
  <2>3. ASSUME NEW k \in CodeIds
        PROVE  code[k].tries <= Attempts + Others
    <3>1. Guessers(k) \in SUBSET Handlers /\ code[k].tries \in Nat /\ Attempts \in Nat \ {0}
      BY CodesAssumption DEF Guessers, CodesInv, TypeOKCodes, NoCode
    <3>2. Cardinality(Guessers(k)) \in Nat /\ Cardinality(Handlers) \in Nat
      BY <3>1, HandlersCount
    <3> QED
      BY <3>1, <3>2 DEF CodesInv, TriesCounted, Others
  <2> QED
    BY <2>1, <2>2, <2>3 DEF CodesHold, CodesInv, LimitsHold
<1> QED
  BY <1>1, <1>2, <1>3, PTL DEF SpecCodes

-----------------------------------------------------------------------------
(* Push tokens.  A registration under way is about one token, which has    *)
(* its row and is not about to be purged.                                  *)
PostsFine == \A p \in Posts :
  /\ post[p].at = "idle" => post[p] = NoPost
  /\ post[p].at = "retiring" => /\ post[p].drop = {}
                                /\ \E t \in Tokens : post[p].tok = {t} /\ t \notin aged /\ row[t] # NoRow
(* Of a handset where registrations did not overlap: one is under way at   *)
(* most, and nothing has replaced its token; without one, one token lives. *)
OneRegistering == \A h \in Handsets \ crossed : \A p, q \in Registering(h) : p = q
LastStays == \A h \in Handsets \ crossed : \A p \in Registering(h) : \A t \in post[p].tok : row[t].st # "replaced"
OneLives == \A h \in Handsets \ crossed : Registering(h) = {} =>
              \A t, u \in OfHandset(h) : Lives(t) /\ Lives(u) => t = u
(* Not all its rows say replaced, now or after the purge.                  *)
Shows(h, t)     == t \in OfHandset(h) /\ row[t] # NoRow
NotReplaced(t)  == row[t].st # "replaced"
SomeoneRings == \A h \in Handsets \ crossed :
  /\ \A t \in Tokens : Shows(h, t) => \E u \in Tokens : Shows(h, u) /\ NotReplaced(u)
  /\ \A t \in Tokens \ aged : Shows(h, t) => \E u \in Tokens \ aged : Shows(h, u) /\ NotReplaced(u)
DeviceInv == TypeOKDevices /\ PostsFine /\ OneRegistering /\ LastStays /\ OneLives /\ SomeoneRings

RowType  == [own: Owners, st: {"live"} \cup Dead, fails: 0..Threshold]
PostType == [at: {"idle", "retiring", "sending"}, tok: SUBSET Tokens, drop: SUBSET Tokens]

-----------------------------------------------------------------------------
LEMMA DeviceInit == InitDevices => DeviceInv
<1> SUFFICES ASSUME InitDevices PROVE DeviceInv
  OBVIOUS
<1>1. /\ row = [t \in Tokens |-> NoRow] /\ aged = {} /\ post = [p \in Posts |-> NoPost] /\ crossed = {}
      /\ \A h : Registering(h) = {}
  BY DEF InitDevices, Registering, NoPost
<1>2. TypeOKDevices /\ PostsFine
  BY <1>1 DEF TypeOKDevices, PostsFine, NoPost
<1>3. OneRegistering /\ LastStays /\ OneLives /\ SomeoneRings
  BY <1>1 DEF OneRegistering, LastStays, OneLives, SomeoneRings, Shows, Lives, NoRow, OfHandset
<1> QED
  BY <1>2, <1>3 DEF DeviceInv

(* A step that begins and ends no registration, brings no token to life    *)
(* and replaces none.                                                      *)
Quiet ==
  /\ aged' = aged /\ crossed' = crossed
  /\ row' \in [Tokens -> {NoRow} \cup RowType] /\ post' \in [Posts -> PostType]
  /\ \A t \in Tokens : /\ row'[t] = NoRow <=> row[t] = NoRow
                       /\ row'[t].st = row[t].st \/ (Lives(t) /\ row'[t].st \in Dead \ {"replaced"})
  /\ \A p \in Posts : \/ post'[p] = post[p]
                      \/ /\ post[p].at # "retiring" /\ post'[p].at # "retiring"
                         /\ post'[p].at = "idle" => post'[p] = NoPost

LEMMA QuietStep == ASSUME DeviceInv, Quiet PROVE DeviceInv'
<1> USE DEF DeviceInv, Quiet
<1>1. TypeOKDevices'
  BY DEF TypeOKDevices, RowType, PostType, Dead, Lives
<1>2. PostsFine'
  BY DEF PostsFine
<1>3. \A h \in Handsets : Registering(h)' = Registering(h) /\ \A p \in Registering(h) : post'[p] = post[p]
  BY DEF Registering, OfHandset
<1>4. \A t \in Tokens : /\ Lives(t)' => Lives(t)
                        /\ NotReplaced(t) => NotReplaced(t)'
                        /\ \A h : Shows(h, t)' <=> Shows(h, t)
  BY DEF Lives, NotReplaced, Shows, OfHandset, Dead
<1>5. OneRegistering'
  BY <1>3 DEF OneRegistering
<1>6. LastStays'
  <2> SUFFICES ASSUME NEW h \in Handsets \ crossed, NEW p \in Registering(h), NEW t \in post[p].tok
               PROVE  NotReplaced(t)'
    BY <1>3 DEF LastStays, NotReplaced
  <2>1. t \in Tokens /\ NotReplaced(t)
    BY DEF LastStays, NotReplaced, Registering, OfHandset
  <2> QED
    BY <1>4, <2>1
<1>7. OneLives'
  BY <1>3, <1>4 DEF OneLives, OfHandset
<1>8. SomeoneRings'
  BY <1>4 DEF SomeoneRings
<1> QED
  BY <1>1, <1>2, <1>5, <1>6, <1>7, <1>8

LEMMA RetiredRows ==
  ASSUME TypeOKDevices, NEW S, NEW why \in Dead
  PROVE  /\ Retired(S, why) \in [Tokens -> {NoRow} \cup RowType]
         /\ \A t \in Tokens : /\ Retired(S, why)[t] = NoRow <=> row[t] = NoRow
                              /\ t \in S /\ Lives(t) => Retired(S, why)[t].st = why
                              /\ ~(t \in S /\ Lives(t)) => Retired(S, why)[t] = row[t]
BY DEF TypeOKDevices, Retired, RowType, Lives, NoRow, Dead

LEMMA HeardPosts ==
  ASSUME TypeOKDevices, NEW p \in Posts, post[p].at = "sending",
         NEW tok \in SUBSET Tokens, NEW drop \in SUBSET Tokens,
         post' = [post EXCEPT ![p] = Waiting(tok, drop)]
  PROVE  /\ post' \in [Posts -> PostType]
         /\ \A q \in Posts : \/ post'[q] = post[q]
                             \/ /\ post[q].at # "retiring" /\ post'[q].at # "retiring"
                                /\ post'[q].at = "idle" => post'[q] = NoPost
BY DEF TypeOKDevices, PostType, Waiting, NoPost

(* A registration writes its token and is the one under way, if it is the  *)
(* first of its handset.                                                   *)
LEMMA RegisterStep ==
  ASSUME DeviceInv, NEW p \in Posts, NEW t \in Tokens, NEW o \in Owners, Register(p, t, o)
  PROVE  DeviceInv'
<1> DEFINE h == HandsetOf[t]
<1>a. h \in Handsets /\ 0 \in 0..Threshold
  BY DevicesAssumption
<1>b. /\ post[p] = NoPost /\ post' = [post EXCEPT ![p] = [at |-> "retiring", tok |-> {t}, drop |-> {}]]
      /\ row' = [row EXCEPT ![t] = [own |-> o, st |-> "live", fails |-> 0]] /\ aged' = aged \ {t}
      /\ crossed' = IF Registering(h) = {} THEN crossed ELSE crossed \cup {h}
  BY DEF Register
<1> HIDE DEF h
<1>c. row'[t].st = "live" /\ row'[t] # NoRow /\ \A u \in Tokens \ {t} : row'[u] = row[u]
  BY <1>b DEF DeviceInv, TypeOKDevices, NoRow
<1>1. TypeOKDevices'
  BY <1>a, <1>b DEF DeviceInv, TypeOKDevices, Dead
<1>d. \A q \in Posts : post'[q] = IF q = p THEN [at |-> "retiring", tok |-> {t}, drop |-> {}] ELSE post[q]
  BY <1>b DEF DeviceInv, TypeOKDevices
<1>2. PostsFine'
  BY <1>b, <1>c, <1>d DEF DeviceInv, PostsFine
<1>3. \A g \in Handsets : Registering(g)' = IF g = h THEN Registering(g) \cup {p} ELSE Registering(g)
  BY <1>b, <1>d DEF Registering, OfHandset, NoPost, h
<1>4. \A g \in Handsets \ crossed' : g \notin crossed /\ (g = h => Registering(h) = {})
  BY <1>b
<1>5. OneRegistering'
  BY <1>3, <1>4 DEF DeviceInv, OneRegistering
<1>6. LastStays'
  <2> SUFFICES ASSUME NEW g \in Handsets \ crossed', NEW q \in Registering(g)', NEW u \in post'[q].tok
               PROVE  row'[u].st # "replaced"
    BY DEF LastStays
  <2>1. CASE q = p
    BY <1>c, <1>d, <2>1
  <2>2. CASE q # p
    <3>1. q \in Posts /\ q \in Registering(g) /\ u \in post[q].tok /\ u \in Tokens
      BY <1>3, <1>d, <2>2 DEF Registering, OfHandset
    <3> QED
      BY <1>4, <1>c, <3>1 DEF DeviceInv, LastStays
  <2> QED
    BY <2>1, <2>2
<1>7. OneLives'
  <2> SUFFICES ASSUME NEW g \in Handsets \ crossed', Registering(g)' = {}
               PROVE  \A u, v \in OfHandset(g) : Lives(u)' /\ Lives(v)' => u = v
    BY DEF OneLives, OfHandset
  <2>1. g # h /\ Registering(g) = {} /\ g \notin crossed /\ t \notin OfHandset(g)
    BY <1>3, <1>4 DEF OfHandset, h
  <2> QED
    BY <1>c, <2>1 DEF DeviceInv, OneLives, OfHandset, Lives
<1>8. SomeoneRings'
  <2> SUFFICES ASSUME NEW g \in Handsets \ crossed'
               PROVE  /\ \A x \in Tokens : Shows(g, x)' => \E u \in Tokens : Shows(g, u)' /\ NotReplaced(u)'
                      /\ \A x \in Tokens \ aged' : Shows(g, x)' => \E u \in Tokens \ aged' : Shows(g, u)' /\ NotReplaced(u)'
    BY DEF SomeoneRings
  <2>1. CASE g = h
    BY <1>b, <1>c, <2>1 DEF Shows, NotReplaced, OfHandset, h
  <2>2. CASE g # h
    <3>1. t \notin OfHandset(g) /\ g \notin crossed
      BY <2>2, <1>4 DEF OfHandset, h
    <3>2. \A u \in Tokens : Shows(g, u)' <=> Shows(g, u)
      BY <1>c, <3>1 DEF Shows, OfHandset
    <3>3. \A u \in Tokens : Shows(g, u) => (NotReplaced(u)' <=> NotReplaced(u)) /\ (u \in aged' <=> u \in aged)
      BY <1>b, <1>c, <3>1 DEF Shows, NotReplaced
    <3> QED
      BY <3>1, <3>2, <3>3 DEF DeviceInv, SomeoneRings
  <2> QED
    BY <2>1, <2>2
<1> QED
  BY <1>1, <1>2, <1>5, <1>6, <1>7, <1>8 DEF DeviceInv

(* A registration ends: its token is the one left.                         *)
LEMMA RetireStep ==
  ASSUME DeviceInv, NEW p \in Posts, NEW t \in Tokens, RetireOthers(p, t)
  PROVE  DeviceInv'
<1> DEFINE h == HandsetOf[t]
           S == OtherTokens(t)
<1>a. h \in Handsets /\ "replaced" \in Dead
  BY DevicesAssumption DEF Dead
<1>b. /\ post[p].at = "retiring" /\ post[p].tok = {t} /\ post' = [post EXCEPT ![p] = NoPost]
      /\ row' = Retired(S, "replaced") /\ aged' = aged /\ crossed' = crossed
  BY DEF RetireOthers
<1>c. S = OfHandset(h) \ {t}
  BY DEF OtherTokens
<1> HIDE DEF h, S
<1>d. /\ row' \in [Tokens -> {NoRow} \cup RowType]
      /\ \A u \in Tokens : /\ row'[u] = NoRow <=> row[u] = NoRow
                           /\ u \in S /\ Lives(u) => row'[u].st = "replaced"
                           /\ ~(u \in S /\ Lives(u)) => row'[u] = row[u]
  BY <1>a, <1>b, RetiredRows DEF DeviceInv
<1>e. t \notin S /\ row'[t] = row[t] /\ t \notin aged /\ row[t] # NoRow
  <2>1. PICK u \in Tokens : post[p].tok = {u} /\ u \notin aged /\ row[u] # NoRow
    BY <1>b DEF DeviceInv, PostsFine
  <2>2. u = t
    BY <1>b, <2>1
  <2> QED
    BY <1>c, <1>d, <2>1, <2>2
<1>f. p \in Registering(h) /\ t \in OfHandset(h)
  BY <1>b DEF Registering, OfHandset, h
<1>g. \A q \in Posts : post'[q] = IF q = p THEN NoPost ELSE post[q]
  BY <1>b DEF DeviceInv, TypeOKDevices
<1>1. TypeOKDevices'
  <2>1. post' \in [Posts -> PostType]
    BY <1>b DEF DeviceInv, TypeOKDevices, PostType, NoPost
  <2>2. aged' \subseteq {u \in Tokens : row'[u].st \in Dead}
    BY <1>a, <1>b, <1>d DEF DeviceInv, TypeOKDevices
  <2> QED
    BY <1>b, <1>d, <2>1, <2>2 DEF DeviceInv, TypeOKDevices, RowType, PostType
<1>2. PostsFine'
  <2> SUFFICES ASSUME NEW q \in Posts
               PROVE  /\ post'[q].at = "idle" => post'[q] = NoPost
                      /\ post'[q].at = "retiring" =>
                           /\ post'[q].drop = {}
                           /\ \E u \in Tokens : post'[q].tok = {u} /\ u \notin aged /\ row'[u] # NoRow
    BY <1>b DEF PostsFine
  <2> QED
    BY <1>b, <1>d, <1>g DEF DeviceInv, PostsFine, NoPost
<1>3. \A g \in Handsets : Registering(g)' = Registering(g) \ {p}
  BY <1>g DEF Registering, OfHandset, NoPost
<1>4. h \in Handsets \ crossed => Registering(h)' = {}
  BY <1>a, <1>3, <1>f DEF DeviceInv, OneRegistering
<1>5. OneRegistering'
  BY <1>b, <1>3 DEF DeviceInv, OneRegistering
<1>h. ASSUME NEW g \in Handsets, g # h
      PROVE  \A u \in OfHandset(g) : row'[u] = row[u]
  BY <1>c, <1>d, <1>h DEF OfHandset
<1>6. LastStays'
  <2> SUFFICES ASSUME NEW g \in Handsets \ crossed, NEW q \in Registering(g)', NEW u \in post'[q].tok
               PROVE  row'[u].st # "replaced"
    BY <1>b DEF LastStays
  <2>1. g # h /\ q \in Registering(g) /\ post'[q] = post[q]
    BY <1>3, <1>4, <1>g DEF Registering
  <2>2. u \in OfHandset(g) /\ row[u].st # "replaced"
    BY <2>1 DEF Registering, DeviceInv, LastStays
  <2> QED
    BY <1>h, <2>1, <2>2
<1>7. OneLives'
  <2> SUFFICES ASSUME NEW g \in Handsets \ crossed, Registering(g)' = {}
               PROVE  \A u, v \in OfHandset(g) : Lives(u)' /\ Lives(v)' => u = v
    BY <1>b DEF OneLives, OfHandset
  <2>1. CASE g = h
    <3>1. \A u \in OfHandset(h) \ {t} : ~Lives(u)'
      BY <1>c, <1>d DEF OfHandset, Lives
    <3> QED
      BY <2>1, <3>1
  <2>2. CASE g # h
    <3>1. Registering(g) = {}
      BY <1>3, <1>f, <2>2, <1>b DEF Registering, OfHandset, h
    <3> QED
      BY <1>h, <2>2, <3>1 DEF DeviceInv, OneLives, Lives
  <2> QED
    BY <2>1, <2>2
<1>8. SomeoneRings'
  <2> SUFFICES ASSUME NEW g \in Handsets \ crossed
               PROVE  /\ \A x \in Tokens : Shows(g, x)' => \E u \in Tokens : Shows(g, u)' /\ NotReplaced(u)'
                      /\ \A x \in Tokens \ aged : Shows(g, x)' => \E u \in Tokens \ aged : Shows(g, u)' /\ NotReplaced(u)'
    BY <1>b DEF SomeoneRings
  <2>1. CASE g = h
    <3>1. Shows(g, t)' /\ NotReplaced(t)'
      BY <2>1, <1>b, <1>e, <1>f DEF Shows, NotReplaced, DeviceInv, LastStays, OfHandset
    <3> QED
      BY <1>e, <3>1
  <2>2. CASE g # h
    <3>1. \A u \in Tokens : /\ Shows(g, u)' <=> Shows(g, u)
                            /\ Shows(g, u) => (NotReplaced(u)' <=> NotReplaced(u))
      BY <1>d, <1>h, <2>2 DEF Shows, NotReplaced, OfHandset
    <3> QED
      BY <3>1 DEF DeviceInv, SomeoneRings
  <2> QED
    BY <2>1, <2>2
<1> QED
  BY <1>1, <1>2, <1>5, <1>6, <1>7, <1>8 DEF DeviceInv

(* The dead grow old when nothing is under way, and are purged.            *)
LEMMA AgeStep == ASSUME DeviceInv, Age PROVE DeviceInv'
<1>a. /\ aged' = {t \in Tokens : row[t].st \in Dead} /\ row' = row /\ post' = post /\ crossed' = crossed
      /\ \A p \in Posts : post[p] = NoPost
  BY DEF Age
<1>1. TypeOKDevices' /\ PostsFine' /\ OneRegistering' /\ LastStays' /\ OneLives'
  BY <1>a DEF DeviceInv, TypeOKDevices, PostsFine, OneRegistering, LastStays, OneLives, Registering, OfHandset,
              Lives, NoPost
<1>2. \A t \in Tokens \ aged' : row[t] # NoRow => NotReplaced(t)
  BY <1>a DEF NotReplaced, Dead
<1>3. SomeoneRings'
  BY <1>a, <1>2 DEF DeviceInv, SomeoneRings, Shows, NotReplaced, OfHandset
<1> QED
  BY <1>1, <1>3 DEF DeviceInv

LEMMA PurgeStep == ASSUME DeviceInv, PurgeDead PROVE DeviceInv'
<1>a. /\ row' = [t \in Tokens |-> IF t \in aged THEN NoRow ELSE row[t]]
      /\ aged' = {} /\ post' = post /\ crossed' = crossed
  BY DEF PurgeDead
<1>1. TypeOKDevices'
  BY <1>a DEF DeviceInv, TypeOKDevices
<1>2. PostsFine'
  BY <1>a DEF DeviceInv, PostsFine
<1>3. \A h : Registering(h)' = Registering(h)
  BY <1>a DEF Registering, OfHandset
<1>4. OneRegistering'
  BY <1>a, <1>3 DEF DeviceInv, OneRegistering
<1>5. LastStays'
  <2> SUFFICES ASSUME NEW h \in Handsets \ crossed, NEW p \in Registering(h), NEW t \in post[p].tok
               PROVE  row'[t].st # "replaced"
    BY <1>a, <1>3 DEF LastStays
  <2>1. t \in Tokens /\ row[t].st # "replaced"
    BY DEF DeviceInv, LastStays, Registering, OfHandset
  <2> QED
    BY <1>a, <2>1 DEF NoRow
<1>6. OneLives'
  BY <1>a, <1>3 DEF DeviceInv, OneLives, OfHandset, Lives, NoRow
<1>7. SomeoneRings'
  <2>1. \A h, t : t \in Tokens => (Shows(h, t)' <=> Shows(h, t) /\ t \notin aged)
    BY <1>a DEF Shows, OfHandset
  <2>2. \A t \in Tokens \ aged : NotReplaced(t) => NotReplaced(t)'
    BY <1>a DEF NotReplaced
  <2> QED
    BY <1>a, <2>1, <2>2 DEF DeviceInv, SomeoneRings
<1> QED
  BY <1>1, <1>2, <1>4, <1>5, <1>6, <1>7 DEF DeviceInv

(* A registration that is cut off gives its handset up.                    *)
LEMMA CutOffStep == ASSUME DeviceInv, NEW p \in Posts, CutOff(p), post[p].at = "retiring" PROVE DeviceInv'
<1>1. PICK t \in Tokens : post[p].tok = {t}
  BY DEF DeviceInv, PostsFine
<1>2. /\ post' = [post EXCEPT ![p] = NoPost] /\ row' = row /\ aged' = aged
      /\ crossed' = crossed \cup {HandsetOf[t]} /\ HandsetOf[t] \in Handsets
  <2>1. {HandsetOf[u] : u \in post[p].tok} = {HandsetOf[t]}
    BY <1>1
  <2> QED
    BY <2>1, DevicesAssumption DEF CutOff
<1>3. \A q \in Posts : post'[q] = IF q = p THEN NoPost ELSE post[q]
  BY <1>2 DEF DeviceInv, TypeOKDevices
<1>4. \A h \in Handsets \ crossed' : h \notin crossed /\ Registering(h)' = Registering(h) /\ p \notin Registering(h)
  BY <1>1, <1>2, <1>3 DEF Registering, OfHandset, NoPost
<1>5. TypeOKDevices'
  BY <1>2 DEF DeviceInv, TypeOKDevices, NoPost
<1>6. PostsFine'
  BY <1>2, <1>3 DEF DeviceInv, PostsFine, NoPost
<1>7. OneRegistering' /\ LastStays'
  BY <1>2, <1>3, <1>4 DEF DeviceInv, OneRegistering, LastStays, Registering
<1>8. OneLives' /\ SomeoneRings'
  BY <1>2, <1>4 DEF DeviceInv, OneLives, SomeoneRings, Shows, NotReplaced, OfHandset, Lives
<1> QED
  BY <1>5, <1>6, <1>7, <1>8 DEF DeviceInv

LEMMA DeviceStep == ASSUME DeviceInv, [NextDevices]_deviceVars PROVE DeviceInv'
<1>a. /\ TypeOKDevices /\ row \in [Tokens -> {NoRow} \cup RowType] /\ post \in [Posts -> PostType]
      /\ {"logout", "unregistered", "invalid", "account_deleted"} \subseteq Dead \ {"replaced"}
  BY DEF DeviceInv, TypeOKDevices, RowType, PostType, Dead
<1>b. ASSUME NEW S, NEW why \in Dead \ {"replaced"}, row' = Retired(S, why), aged' = aged, crossed' = crossed,
             post' \in [Posts -> PostType],
             \A q \in Posts : \/ post'[q] = post[q]
                              \/ /\ post[q].at # "retiring" /\ post'[q].at # "retiring"
                                 /\ post'[q].at = "idle" => post'[q] = NoPost
      PROVE  Quiet
  BY <1>a, <1>b, RetiredRows DEF Quiet
<1>1. ASSUME NEW p \in Posts, NEW t \in Tokens, Delivered(p, t)
      PROVE  Quiet
  <2>1. post[p].at = "sending" /\ post[p].tok \ {t} \in SUBSET Tokens /\ post[p].drop \in SUBSET Tokens
    BY <1>a, <1>1 DEF Delivered, Sending, PostType
  <2>2. post' = [post EXCEPT ![p] = Waiting(post[p].tok \ {t}, post[p].drop)] /\ row' = [row EXCEPT ![t].fails = 0]
    BY <1>1 DEF Delivered, Heard
  <2>3. /\ row' \in [Tokens -> {NoRow} \cup RowType]
        /\ \A u \in Tokens : (row'[u] = NoRow <=> row[u] = NoRow) /\ row'[u].st = row[u].st
    BY <1>a, <2>2, DevicesAssumption DEF RowType, NoRow, Dead
  <2> QED
    BY <1>a, <1>1, <2>1, <2>2, <2>3, HeardPosts DEF Quiet, Delivered
<1>2. ASSUME NEW p \in Posts, NEW t \in Tokens, Refused(p, t)
      PROVE  Quiet
  <2>1. post[p].at = "sending" /\ post[p].tok \ {t} \in SUBSET Tokens /\ post[p].drop \in SUBSET Tokens
    BY <1>a, <1>2 DEF Refused, Sending, PostType
  <2>2. post' = [post EXCEPT ![p] = Waiting(post[p].tok \ {t}, post[p].drop)]
    BY <1>2 DEF Refused, Heard
  <2> QED
    BY <1>a, <1>b, <1>2, <2>1, <2>2, HeardPosts DEF Refused
<1>3. ASSUME NEW p \in Posts, NEW t \in Tokens, Failed(p, t)
      PROVE  Quiet
  <2> DEFINE full == row[t].fails + 1 >= Threshold
             drop == IF row[t] # NoRow /\ full THEN post[p].drop \cup {t} ELSE post[p].drop
  <2>1. post[p].at = "sending" /\ post[p].tok \ {t} \in SUBSET Tokens /\ drop \in SUBSET Tokens
    BY <1>a, <1>3 DEF Failed, Sending, PostType
  <2>2. post' = [post EXCEPT ![p] = Waiting(post[p].tok \ {t}, drop)]
    BY <1>3 DEF Failed, Heard
  <2>3. /\ row' \in [Tokens -> {NoRow} \cup RowType]
        /\ \A u \in Tokens : (row'[u] = NoRow <=> row[u] = NoRow) /\ row'[u].st = row[u].st
    <3>1. row' = IF row[t] = NoRow THEN row ELSE [row EXCEPT ![t].fails = IF full THEN Threshold ELSE @ + 1]
      BY <1>3 DEF Failed
    <3>2. CASE row[t] = NoRow
      BY <1>a, <3>1, <3>2
    <3>3. CASE row[t] # NoRow
      <4>1. row[t] \in RowType /\ row[t].fails \in 0..Threshold /\ row[t].st # "none"
        BY <1>a, <3>3 DEF RowType, Dead
      <4> DEFINE n == IF full THEN Threshold ELSE row[t].fails + 1
      <4>2. n \in 0..Threshold
        BY <4>1, DevicesAssumption
      <4>3. row' = [row EXCEPT ![t].fails = n]
        BY <3>1, <3>3
      <4> HIDE DEF n, full
      <4> QED
        BY <1>a, <4>1, <4>2, <4>3 DEF RowType, NoRow
    <3> QED
      BY <3>2, <3>3
  <2> HIDE DEF drop, full
  <2> QED
    BY <1>a, <1>3, <2>1, <2>2, <2>3, HeardPosts DEF Quiet, Failed
<1>4. ASSUME NEW p \in Posts, NEW t \in Tokens, Drop(p, t)
      PROVE  Quiet
  <2>1. post[p].at = "sending" /\ post[p].tok \in SUBSET Tokens /\ post[p].drop \ {t} \in SUBSET Tokens
    BY <1>a, <1>4 DEF Drop, PostType, DeviceInv, PostsFine, NoPost
  <2>2. post' = [post EXCEPT ![p] = Waiting(post[p].tok, post[p].drop \ {t})]
    BY <1>4 DEF Drop
  <2> QED
    BY <1>a, <1>b, <1>4, <2>1, <2>2, HeardPosts DEF Drop
<1>5. ASSUME NEW p \in Posts, NEW o \in Owners, Push(p, o)
      PROVE  Quiet
  <2> DEFINE mine == {t \in Tokens : Lives(t) /\ row[t].own = o}
  <2>1. /\ post[p] = NoPost /\ post' = [post EXCEPT ![p] = [at |-> "sending", tok |-> mine, drop |-> {}]]
        /\ row' = row /\ aged' = aged /\ crossed' = crossed
    BY <1>5 DEF Push, NoPost
  <2>2. mine \in SUBSET Tokens /\ post[p].at = "idle"
    BY <2>1 DEF NoPost
  <2> HIDE DEF mine
  <2> QED
    BY <1>a, <2>1, <2>2 DEF Quiet, PostType
<1>6. ASSUME NEW t \in Tokens, Unregister(t)
      PROVE  Quiet
  BY <1>a, <1>b, <1>6 DEF Unregister
<1>7. ASSUME NEW o \in Owners, WipeDevices(o)
      PROVE  Quiet
  BY <1>a, <1>b, <1>7 DEF WipeDevices
<1>8. ASSUME NEW p \in Posts, CutOff(p), post[p].at # "retiring"
      PROVE  Quiet
  BY <1>a, <1>8 DEF CutOff, Quiet, PostType, NoPost
<1>9. ASSUME UNCHANGED deviceVars
      PROVE  Quiet
  BY <1>a, <1>9 DEF deviceVars, Quiet
<1> QED
  BY <1>1, <1>2, <1>3, <1>4, <1>5, <1>6, <1>7, <1>8, <1>9, QuietStep, RegisterStep, RetireStep, AgeStep,
     PurgeStep, CutOffStep DEF NextDevices

(* A handset has one live token, whoever signs in on it, unless two        *)
(* registrations of it overlapped or one was cut off; and it never has     *)
(* only replaced ones.                                                     *)
THEOREM DevicesDoHold == SpecDevices => []DevicesHold
<1>1. DeviceInv /\ [NextDevices]_deviceVars => DeviceInv'
  BY DeviceStep
<1>2. DeviceInv => DevicesHold
  <2> SUFFICES ASSUME DeviceInv, NEW h \in Handsets \ crossed
               PROVE  LET mine == {t \in OfHandset(h) : row[t] # NoRow}
                      IN /\ Registering(h) = {} => Cardinality({t \in mine : Lives(t)}) <= 1
                         /\ mine # {} => \E t \in mine : row[t].st # "replaced"
    BY DEF DevicesHold, HandsetRingsOnce, DeviceInv
  <2> DEFINE mine == {t \in OfHandset(h) : row[t] # NoRow}
             alive == {t \in mine : Lives(t)}
  <2>1. ASSUME Registering(h) = {}
        PROVE  Cardinality(alive) <= 1
    <3>1. \A t, u \in alive : t = u
      BY <2>1 DEF DeviceInv, OneLives
    <3>2. alive = {} \/ \E t : alive = {t}
      BY <3>1
    <3>3. Cardinality({}) = 0 /\ \A t : Cardinality({t}) = 1
      BY FS_EmptySet, FS_Singleton
    <3> HIDE DEF alive
    <3>4. Cardinality(alive) = 0 \/ Cardinality(alive) = 1
      BY <3>2, <3>3
    <3> QED
      BY <3>4
  <2>2. mine # {} => \E t \in mine : row[t].st # "replaced"
    BY DEF DeviceInv, SomeoneRings, Shows, NotReplaced, OfHandset
  <2> QED
    BY <2>1, <2>2
<1> QED
  BY DeviceInit, <1>1, <1>2, PTL DEF SpecDevices

-----------------------------------------------------------------------------
(* Chats.  What is put together in a cart has its types, and its trucks     *)
(* are none, one that carries it all, or as many as were announced, those   *)
(* named and the one being named leaving the rest a share each can carry.   *)
CartType == [depot: Depots \cup {NoItem}, product: Products \cup {NoItem}, quantity: {0} \cup Quantities,
             company: BOOLEAN, type: Types, address: BOOLEAN, declare: BOOLEAN, truckCount: 0..MaxTrucks,
             litres: 0..Capacity, trucks: Seq(1..Capacity), deferred: BOOLEAN, awaiting: Nat,
             expected: Nat, resume: BOOLEAN]
Naming(cart) == IF cart.litres > 0 THEN 1 ELSE 0
Left(cart)   == cart.truckCount - Len(cart.trucks) - Naming(cart)
Loaded(cart) ==
  \/ /\ cart.truckCount = 0 /\ cart.litres = 0
     /\ cart.trucks = <<>> \/ (cart.quantity \in 1..Capacity /\ cart.trucks = <<cart.quantity>>)
  \/ /\ cart.truckCount > 0 /\ cart.quantity > Capacity
     /\ Left(cart) \in 0..MaxTrucks
     /\ Remaining(cart) - cart.litres \in Left(cart)..(Left(cart) * Capacity)
GoodCart(cart) == cart \in CartType /\ Loaded(cart)

(* A chat that asks the first open question of its cart.                    *)
ChatType    == [state: States, cart: CartType, last: Nat, fails: 0..MaxFailures]
Awaiting(c)  == c.state \in {"EXPECTED_PAYMENT", "AWAIT_PAYMENT"}
GoodChat(c) ==
  /\ c \in ChatType /\ GoodCart(c.cart)
  /\ c.state \in Building => c.state = NextStep(c.cart)
  /\ c.cart.resume => c.state = "MENU"
  /\ Awaiting(c) => c.last # 0 /\ c.cart.awaiting = c.last

-----------------------------------------------------------------------------
LEMMA NumbersType ==
  /\ Capacity \in Int /\ Capacity > 0 /\ MaxTrucks \in Int /\ MaxTrucks > 0
  /\ MaxFailures \in Int /\ MaxFailures > 0 /\ NoItem \notin Depots /\ NoItem \notin Products
  /\ \A q \in Quantities : q \in Int /\ q > 0
BY ConversationAssumption

LEMMA SumOfTrucks ==
  ASSUME NEW s \in Seq(1..Capacity)
  PROVE  /\ SumFunction(s) \in Int
         /\ \A v \in 1..Capacity : SumFunction(Append(s, v)) = SumFunction(s) + v
<1> USE DEF SumFunction
<1>1. Len(s) \in Nat /\ DOMAIN s = 1..Len(s) /\ 1 \in Int /\ Len(s) \in Int
  OBVIOUS
<1>2. IsFiniteSet(DOMAIN s)
  BY <1>1, FS_Interval
<1>3. \A i \in DOMAIN s : s[i] \in Int
  BY NumbersType
<1>4. SumFunctionOnSet(s, DOMAIN s) \in Int
  BY <1>2, <1>3, SumType
<1>5. ASSUME NEW v \in 1..Capacity
      PROVE  SumFunctionOnSet(Append(s, v), DOMAIN Append(s, v)) = SumFunctionOnSet(s, DOMAIN s) + v
  <2> DEFINE e == Append(s, v)
             k == Len(s) + 1
  <2>1. /\ DOMAIN e = (DOMAIN s) \cup {k} /\ k \notin DOMAIN s /\ e[k] = v /\ v \in Int
        /\ \A i \in DOMAIN s : e[i] = s[i]
    BY <1>1, NumbersType
  <2> HIDE DEF e, k
  <2>2. \A i \in (DOMAIN s) \cup {k} : e[i] \in Int
    BY <2>1, <1>3
  <2>3. SumFunctionOnSet(e, (DOMAIN s) \cup {k}) = SumFunctionOnSet(e, DOMAIN s) + e[k]
    BY <2>1, <2>2, <1>2, SumWith
  <2>4. SumFunctionOnSet(e, DOMAIN s) = SumFunctionOnSet(s, DOMAIN s)
    BY <2>1, <1>2, <1>3, SumSame
  <2>5. SumFunctionOnSet(e, DOMAIN e) = SumFunctionOnSet(s, DOMAIN s) + v
    BY <2>1, <2>3, <2>4
  <2> QED
    BY <2>5 DEF e
<1> QED
  BY <1>4, <1>5

LEMMA SumOfNone ==
  /\ SumFunction(<<>>) = 0
  /\ \A v \in 1..Capacity : SumFunction(<<v>>) = v
<1>1. SumFunction(<<>>) = 0
  <2>1. DOMAIN <<>> = {}
    OBVIOUS
  <2> QED
    BY <2>1, SumEmpty DEF SumFunction
<1>2. ASSUME NEW v \in 1..Capacity PROVE SumFunction(<<v>>) = v
  <2>1. <<>> \in Seq(1..Capacity) /\ Append(<<>>, v) = <<v>> /\ v \in Int
    BY NumbersType
  <2>2. SumFunction(Append(<<>>, v)) = SumFunction(<<>>) + v
    BY <2>1, SumOfTrucks
  <2> QED
    BY <1>1, <2>1, <2>2
<1> QED
  BY <1>1, <1>2

-----------------------------------------------------------------------------
(* The operations on carts keep them good.                                  *)
LEMMA CartReads ==
  ASSUME NEW c \in CartType
  PROVE  /\ c.depot \in Depots \cup {NoItem} /\ c.product \in Products \cup {NoItem}
         /\ c.quantity \in {0} \cup Quantities /\ c.company \in BOOLEAN /\ c.type \in Types
         /\ c.address \in BOOLEAN /\ c.declare \in BOOLEAN /\ c.truckCount \in 0..MaxTrucks
         /\ c.litres \in 0..Capacity /\ c.trucks \in Seq(1..Capacity) /\ c.deferred \in BOOLEAN
         /\ c.awaiting \in Nat /\ c.expected \in Nat /\ c.resume \in BOOLEAN
         /\ c.quantity \in Int /\ Remaining(c) \in Int /\ Len(c.trucks) \in Nat
<1>1. /\ c.depot \in Depots \cup {NoItem} /\ c.product \in Products \cup {NoItem}
      /\ c.quantity \in {0} \cup Quantities /\ c.company \in BOOLEAN /\ c.type \in Types
      /\ c.address \in BOOLEAN /\ c.declare \in BOOLEAN /\ c.truckCount \in 0..MaxTrucks
      /\ c.litres \in 0..Capacity /\ c.trucks \in Seq(1..Capacity) /\ c.deferred \in BOOLEAN
      /\ c.awaiting \in Nat /\ c.expected \in Nat /\ c.resume \in BOOLEAN
  BY DEF CartType
<1>2. c.quantity \in Int /\ Len(c.trucks) \in Nat
  BY <1>1, NumbersType
<1>3. Remaining(c) \in Int
  BY <1>1, <1>2, SumOfTrucks DEF Remaining, Assigned
<1> QED
  BY <1>1, <1>2, <1>3

LEMMA NewCart == GoodCart(EmptyCart) /\ EmptyCart.resume = FALSE /\ NextStep(EmptyCart) = "DEPOT"
<1>1. EmptyCart \in CartType
  BY NumbersType DEF EmptyCart, CartType, Types
<1>2. EmptyCart.truckCount = 0 /\ EmptyCart.litres = 0 /\ EmptyCart.trucks = <<>> /\ EmptyCart.depot = NoItem
      /\ EmptyCart.resume = FALSE
  BY DEF EmptyCart
<1> QED
  BY <1>1, <1>2 DEF GoodCart, Loaded, NextStep

LEMMA Unloaded ==
  ASSUME NEW c \in CartType, NEW d \in CartType,
         d.trucks = <<>>, d.truckCount = 0, d.litres = 0
  PROVE  GoodCart(d)
BY DEF GoodCart, Loaded

(* What does not touch the trucks or the quantity.                          *)
LEMMA SameLoad ==
  ASSUME NEW c, GoodCart(c), NEW d \in CartType,
         d.trucks = c.trucks, d.truckCount = c.truckCount, d.litres = c.litres, d.quantity = c.quantity
  PROVE  GoodCart(d)
<1>1. Remaining(d) = Remaining(c) /\ Left(d) = Left(c)
  BY DEF Remaining, Assigned, Left, Naming
<1> QED
  BY <1>1 DEF GoodCart, Loaded

LEMMA ClearTrucksGood ==
  ASSUME NEW c \in CartType
  PROVE  /\ GoodCart(ClearTrucks(c)) /\ ClearTrucks(c).resume = c.resume
         /\ ClearTrucks(c).trucks = <<>> /\ ClearTrucks(c).truckCount = 0 /\ ClearTrucks(c).litres = 0
         /\ ClearTrucks(c) \in CartType
<1>1. ClearTrucks(c) \in CartType
  <2>1. <<>> \in Seq(1..Capacity) /\ 0 \in 0..MaxTrucks /\ 0 \in 0..Capacity
    BY NumbersType
  <2> QED
    BY <2>1 DEF ClearTrucks, CartType
<1>2. /\ ClearTrucks(c).resume = c.resume
      /\ ClearTrucks(c).trucks = <<>> /\ ClearTrucks(c).truckCount = 0 /\ ClearTrucks(c).litres = 0
  BY DEF ClearTrucks, CartType
<1> QED
  BY <1>1, <1>2 DEF GoodCart, Loaded

LEMMA ClearQuantityGood ==
  ASSUME NEW c \in CartType
  PROVE  /\ GoodCart(ClearQuantity(c)) /\ ClearQuantity(c).resume = c.resume
         /\ ClearQuantity(c).trucks = <<>> /\ ClearQuantity(c).truckCount = 0 /\ ClearQuantity(c).litres = 0
         /\ ClearQuantity(c) \in CartType
<1> DEFINE t == ClearTrucks(c)
<1>1. /\ t \in CartType /\ t.resume = c.resume
      /\ t.trucks = <<>> /\ t.truckCount = 0 /\ t.litres = 0
  BY ClearTrucksGood
<1> HIDE DEF t
<1>2. ClearQuantity(c) = [t EXCEPT !.quantity = 0]
  BY DEF ClearQuantity, t
<1> DEFINE q == [t EXCEPT !.quantity = 0]
<1>3. q \in CartType /\ q.resume = c.resume /\ q.trucks = <<>> /\ q.truckCount = 0 /\ q.litres = 0
  BY <1>1 DEF CartType
<1> HIDE DEF q
<1> QED
  BY <1>2, <1>3, Unloaded DEF q

LEMMA ClearProductGood ==
  ASSUME NEW c \in CartType
  PROVE  /\ GoodCart(ClearProduct(c)) /\ ClearProduct(c).resume = c.resume
         /\ ClearProduct(c).trucks = <<>> /\ ClearProduct(c).truckCount = 0 /\ ClearProduct(c).litres = 0
         /\ ClearProduct(c) \in CartType
<1> DEFINE t == ClearQuantity(c)
<1>1. /\ t \in CartType /\ t.resume = c.resume
      /\ t.trucks = <<>> /\ t.truckCount = 0 /\ t.litres = 0
  BY ClearQuantityGood
<1> HIDE DEF t
<1>2. ClearProduct(c) = [t EXCEPT !.product = NoItem]
  BY DEF ClearProduct, t
<1> DEFINE q == [t EXCEPT !.product = NoItem]
<1>3. q \in CartType /\ q.resume = c.resume /\ q.trucks = <<>> /\ q.truckCount = 0 /\ q.litres = 0
  BY <1>1 DEF CartType
<1> HIDE DEF q
<1> QED
  BY <1>2, <1>3, Unloaded DEF q

LEMMA ClearDepotGood ==
  ASSUME NEW c \in CartType
  PROVE  /\ GoodCart(ClearDepot(c)) /\ ClearDepot(c).resume = c.resume
         /\ NextStep(ClearDepot(c)) = "DEPOT"
         /\ ClearDepot(c).trucks = <<>> /\ ClearDepot(c).truckCount = 0 /\ ClearDepot(c).litres = 0
         /\ ClearDepot(c) \in CartType
<1> DEFINE t == ClearProduct(c)
<1>1. /\ t \in CartType /\ t.resume = c.resume
      /\ t.trucks = <<>> /\ t.truckCount = 0 /\ t.litres = 0
  BY ClearProductGood
<1> HIDE DEF t
<1>2. ClearDepot(c) = [t EXCEPT !.depot = NoItem]
  BY DEF ClearDepot, t
<1> DEFINE q == [t EXCEPT !.depot = NoItem]
<1>3. /\ q \in CartType /\ q.resume = c.resume /\ q.trucks = <<>> /\ q.truckCount = 0 /\ q.litres = 0
      /\ q.depot = NoItem
  BY <1>1 DEF CartType
<1> HIDE DEF q
<1> QED
  BY <1>2, <1>3, Unloaded DEF q, NextStep

LEMMA ClearCollectGood ==
  ASSUME NEW c \in CartType
  PROVE  /\ GoodCart(ClearCollect(c)) /\ ClearCollect(c).resume = c.resume
         /\ ClearCollect(c).trucks = <<>> /\ ClearCollect(c).truckCount = 0 /\ ClearCollect(c).litres = 0
         /\ ClearCollect(c) \in CartType
<1> DEFINE t == ClearTrucks(c)
<1>1. /\ t \in CartType /\ t.resume = c.resume
      /\ t.trucks = <<>> /\ t.truckCount = 0 /\ t.litres = 0
  BY ClearTrucksGood
<1> HIDE DEF t
<1>2. ClearCollect(c) = [t EXCEPT !.type = "none", !.address = FALSE]
  BY DEF ClearCollect, t
<1> DEFINE q == [t EXCEPT !.type = "none", !.address = FALSE]
<1>3. q \in CartType /\ q.resume = c.resume /\ q.trucks = <<>> /\ q.truckCount = 0 /\ q.litres = 0
  BY <1>1 DEF CartType, Types
<1> HIDE DEF q
<1> QED
  BY <1>2, <1>3, Unloaded DEF q

LEMMA ClearFieldGood ==
  ASSUME NEW c, GoodCart(c), NEW f \in EditFields
  PROVE  GoodCart(ClearField(c, f)) /\ ClearField(c, f).resume = c.resume
<1>1. c \in CartType
  BY DEF GoodCart
<1>2. CASE f = "company"
  <2>1. ClearField(c, f) = [c EXCEPT !.company = FALSE]
    BY <1>2 DEF ClearField, ClearCompany
  <2> DEFINE q == [c EXCEPT !.company = FALSE]
  <2>2. /\ q \in CartType /\ q.resume = c.resume /\ q.trucks = c.trucks /\ q.truckCount = c.truckCount
        /\ q.litres = c.litres /\ q.quantity = c.quantity
    BY <1>1 DEF CartType
  <2> HIDE DEF q
  <2> QED
    BY <2>1, <2>2, SameLoad DEF q
<1>3. CASE f # "company"
  BY <1>1, <1>3, ClearDepotGood, ClearProductGood, ClearQuantityGood, ClearCollectGood
     DEF EditFields, ClearField
<1> QED
  BY <1>2, <1>3

LEMMA RevalidatedGood ==
  ASSUME NEW c, GoodCart(c)
  PROVE  GoodCart(Revalidated(c)) /\ Revalidated(c).resume = c.resume
BY ClearDepotGood, ClearProductGood DEF GoodCart, Revalidated

-----------------------------------------------------------------------------
(* Naming trucks.                                                           *)
LEMMA EnoughTrucks ==
  ASSUME NEW q \in Int, q > 0, NEW n \in MinTrucks(q)..MaxTrucksFor(q)
  PROVE  n \in 1..MaxTrucks /\ n <= q /\ q <= n * Capacity
<1> DEFINE C == Capacity
           k == MinTrucks(q)
<1>1. C \in Int /\ C > 0 /\ MaxTrucks \in Int
  BY NumbersType
<1>2. k \in Int /\ q + C - 1 < (k + 1) * C /\ k * C <= q + C - 1
  BY <1>1 DEF MinTrucks
<1>3. n \in Int /\ k <= n /\ n <= q /\ n <= MaxTrucks
  BY <1>1, <1>2 DEF MaxTrucksFor
<1>4. q <= k * C
  <2>1. (k + 1) * C = k * C + C
    BY <1>1, <1>2
  <2> HIDE DEF k, C
  <2> QED
    BY <1>1, <1>2, <2>1
<1> HIDE DEF k, C
<1>5. k * C <= n * C
  BY <1>1, <1>2, <1>3
<1>6. k >= 1
  <2> SUFFICES ASSUME k <= 0 PROVE FALSE
    BY <1>2
  <2>1. k * C <= 0
    BY <1>1, <1>2
  <2> QED
    BY <1>1, <1>2, <1>4, <2>1
<1> QED
  BY <1>1, <1>2, <1>3, <1>4, <1>5, <1>6 DEF C

LEMMA OneTruck ==
  ASSUME NEW c, GoodCart(c), c.quantity > 0, c.quantity <= Capacity
  PROVE  LET d == [c EXCEPT !.trucks = <<c.quantity>>] IN GoodCart(d) /\ d.resume = c.resume
<1> DEFINE d == [c EXCEPT !.trucks = <<c.quantity>>]
<1>1. c \in CartType /\ c.quantity \in Int /\ Capacity \in Int /\ c.quantity \in 1..Capacity
  BY CartReads, NumbersType DEF GoodCart
<1>2. c.truckCount = 0 /\ c.litres = 0
  BY <1>1 DEF GoodCart, Loaded
<1>3. <<c.quantity>> \in Seq(1..Capacity)
  BY <1>1
<1>4. /\ d \in CartType /\ d.resume = c.resume /\ d.trucks = <<d.quantity>> /\ d.quantity = c.quantity
      /\ d.truckCount = 0 /\ d.litres = 0
  BY <1>1, <1>2, <1>3 DEF CartType
<1> HIDE DEF d
<1>5. GoodCart(d)
  BY <1>1, <1>4 DEF GoodCart, Loaded
<1> QED
  BY <1>4, <1>5 DEF d

LEMMA CountGood ==
  ASSUME NEW c, GoodCart(c), c.quantity > Capacity, c.truckCount = 0,
         NEW n \in MinTrucks(c.quantity)..MaxTrucksFor(c.quantity)
  PROVE  LET d == [c EXCEPT !.truckCount = n, !.trucks = <<>>] IN GoodCart(d) /\ d.resume = c.resume
<1> DEFINE d == [c EXCEPT !.truckCount = n, !.trucks = <<>>]
<1>1. c \in CartType /\ c.quantity \in Int /\ Capacity \in Int /\ c.quantity > 0 /\ MaxTrucks \in Int
  BY CartReads, NumbersType DEF GoodCart
<1>2. c.litres = 0
  BY <1>1 DEF GoodCart, Loaded
<1>3. n \in 1..MaxTrucks /\ n <= c.quantity /\ c.quantity <= n * Capacity
  BY <1>1, EnoughTrucks
<1>4. <<>> \in Seq(1..Capacity) /\ n \in 0..MaxTrucks /\ n \in Int
  BY <1>1, <1>3
<1>5. /\ d \in CartType /\ d.resume = c.resume /\ d.trucks = <<>> /\ d.quantity = c.quantity
      /\ d.truckCount = n /\ d.litres = 0
  BY <1>1, <1>2, <1>4 DEF CartType
<1> HIDE DEF d
<1>6. Remaining(d) = d.quantity /\ Left(d) = n
  BY <1>1, <1>4, <1>5, SumOfNone DEF Remaining, Assigned, Left, Naming
<1>7. c.quantity \in n..(n * Capacity) /\ n \in 0..MaxTrucks /\ n > 0
  BY <1>1, <1>3
<1>8. GoodCart(d)
  BY <1>1, <1>5, <1>6, <1>7 DEF GoodCart, Loaded
<1> QED
  BY <1>5, <1>8 DEF d

(* Half a fleet: what Loaded says once the number of trucks is known.       *)
LEMMA FleetReads ==
  ASSUME NEW c, GoodCart(c), c.truckCount > 0
  PROVE  /\ c \in CartType /\ c.quantity > Capacity /\ Left(c) \in 0..MaxTrucks /\ Left(c) \in Int
         /\ Left(c) * Capacity \in Int
         /\ Left(c) <= Remaining(c) - c.litres /\ Remaining(c) - c.litres <= Left(c) * Capacity
<1>1. c \in CartType /\ c.truckCount # 0
  BY CartReads, NumbersType DEF GoodCart
<1>2. Left(c) \in 0..MaxTrucks /\ Remaining(c) - c.litres \in Left(c)..(Left(c) * Capacity) /\ c.quantity > Capacity
  BY <1>1 DEF GoodCart, Loaded
<1>3. Left(c) \in Int /\ Remaining(c) \in Int /\ c.litres \in Int /\ Capacity \in Int
  BY <1>1, <1>2, CartReads, NumbersType
<1>4. Left(c) * Capacity \in Int
  BY <1>3
<1> QED
  BY <1>1, <1>2, <1>3, <1>4

LEMMA WithTruckGood ==
  ASSUME NEW c, GoodCart(c), c.truckCount > 0, NEW v,
         \/ c.litres > 0 /\ v = c.litres
         \/ c.litres = 0 /\ Len(c.trucks) + 1 = c.truckCount /\ v = Remaining(c)
  PROVE  GoodCart(WithTruck(c, v)) /\ WithTruck(c, v).resume = c.resume
<1> DEFINE d == WithTruck(c, v)
<1>1. /\ c \in CartType /\ c.quantity > Capacity /\ Left(c) \in 0..MaxTrucks /\ Left(c) \in Int
      /\ Left(c) * Capacity \in Int /\ Left(c) <= Remaining(c) - c.litres
      /\ Remaining(c) - c.litres <= Left(c) * Capacity
  BY FleetReads
<1>2. /\ c.litres \in 0..Capacity /\ c.litres \in Int /\ c.trucks \in Seq(1..Capacity) /\ Remaining(c) \in Int
      /\ c.truckCount \in Int /\ Len(c.trucks) \in Int /\ Capacity \in Int /\ Capacity > 0 /\ MaxTrucks \in Int
      /\ c.quantity \in Int /\ MaxTrucks > 0
  BY <1>1, CartReads, NumbersType
<1>3. v \in 1..Capacity /\ v \in Int
  <2>1. CASE c.litres > 0 /\ v = c.litres
    BY <2>1, <1>2
  <2>2. CASE c.litres = 0 /\ Len(c.trucks) + 1 = c.truckCount /\ v = Remaining(c)
    <3>1. Left(c) = 1
      BY <2>2, <1>2 DEF Left, Naming
    <3>2. 1 * Capacity = Capacity
      BY <1>2
    <3> QED
      BY <2>2, <3>1, <3>2, <1>1, <1>2
  <2> QED
    BY <2>1, <2>2
<1>4. Append(c.trucks, v) \in Seq(1..Capacity) /\ Len(Append(c.trucks, v)) = Len(c.trucks) + 1
  BY <1>2, <1>3
<1>5. /\ d \in CartType /\ d.resume = c.resume /\ d.trucks = Append(c.trucks, v) /\ d.quantity = c.quantity
      /\ d.truckCount = c.truckCount /\ d.litres = 0
  <2> DEFINE t == Append(c.trucks, v)
  <2>1. t \in Seq(1..Capacity) /\ 0 \in 0..Capacity /\ d = [c EXCEPT !.litres = 0, !.trucks = t]
    BY <1>2, <1>4 DEF WithTruck
  <2> HIDE DEF t, d
  <2>2. /\ d \in CartType /\ d.resume = c.resume /\ d.trucks = t /\ d.quantity = c.quantity
        /\ d.truckCount = c.truckCount /\ d.litres = 0
    BY <1>1, <2>1 DEF CartType
  <2> QED
    BY <2>2 DEF t
<1> HIDE DEF d
<1>6. Remaining(d) = Remaining(c) - v /\ Remaining(d) \in Int
  <2>1. Assigned(d) = Assigned(c) + v /\ Assigned(c) \in Int
    BY <1>2, <1>3, <1>5, SumOfTrucks DEF Assigned
  <2>2. Remaining(d) = c.quantity - Assigned(d) /\ Remaining(c) = c.quantity - Assigned(c)
    BY <1>5 DEF Remaining
  <2> QED
    BY <2>1, <2>2, <1>2, <1>3
<1>7. Left(d) = c.truckCount - (Len(c.trucks) + 1)
  BY <1>2, <1>4, <1>5 DEF Left, Naming
<1>8. Left(d) \in 0..MaxTrucks /\ Left(d) <= Remaining(d) /\ Remaining(d) <= Left(d) * Capacity
  <2>1. CASE c.litres > 0 /\ v = c.litres
    <3>1. Left(d) = Left(c) /\ Remaining(d) = Remaining(c) - c.litres
      BY <2>1, <1>2, <1>6, <1>7 DEF Left, Naming
    <3> QED
      BY <3>1, <1>1
  <2>2. CASE c.litres = 0 /\ Len(c.trucks) + 1 = c.truckCount /\ v = Remaining(c)
    <3>1. Left(d) = 0 /\ Remaining(d) = 0 /\ 0 * Capacity = 0
      BY <2>2, <1>2, <1>3, <1>6, <1>7
    <3> QED
      BY <3>1, <1>2
  <2> QED
    BY <2>1, <2>2
<1>9. Left(d) \in Int /\ Left(d) * Capacity \in Int
  BY <1>8, <1>2
<1>10. Remaining(d) - d.litres \in Left(d)..(Left(d) * Capacity)
  BY <1>5, <1>6, <1>8, <1>9
<1>11. GoodCart(d)
  BY <1>1, <1>2, <1>5, <1>8, <1>10 DEF GoodCart, Loaded
<1> QED
  BY <1>5, <1>11 DEF d

LEMMA LitresGood ==
  ASSUME NEW c, GoodCart(c), c.truckCount > 0, c.litres = 0, Len(c.trucks) < c.truckCount,
         NEW v, LitresFit(c, v)
  PROVE  LET d == [c EXCEPT !.litres = v] IN
           GoodCart(d) /\ d.resume = c.resume /\ NextStep(d) = NextStep(c)
<1> DEFINE d == [c EXCEPT !.litres = v]
           after == c.truckCount - (Len(c.trucks) + 1)
<1>1. /\ c \in CartType /\ c.quantity > Capacity /\ Left(c) \in 0..MaxTrucks /\ Left(c) \in Int
  BY FleetReads
<1>2. /\ c.trucks \in Seq(1..Capacity) /\ Remaining(c) \in Int /\ c.truckCount \in 0..MaxTrucks
      /\ c.truckCount \in Int /\ Len(c.trucks) \in Int /\ Capacity \in Int /\ Capacity > 0 /\ MaxTrucks \in Int
      /\ c.quantity \in Int /\ Len(c.trucks) >= 0
  BY <1>1, CartReads, NumbersType
<1>3. v \in 1..Capacity /\ Remaining(c) - v \in after..(after * Capacity) /\ after \in Int
  BY <1>2 DEF LitresFit
<1>4. after \in 0..MaxTrucks
  BY <1>2, <1>3
<1>5. /\ d \in CartType /\ d.resume = c.resume /\ d.trucks = c.trucks /\ d.quantity = c.quantity
      /\ d.truckCount = c.truckCount /\ d.litres = v /\ v > 0
      /\ d.depot = c.depot /\ d.product = c.product /\ d.company = c.company /\ d.type = c.type
      /\ d.address = c.address /\ d.deferred = c.deferred
  <2>1. v \in 0..Capacity /\ v > 0
    BY <1>2, <1>3
  <2> QED
    BY <1>1, <2>1 DEF CartType
<1> HIDE DEF d
<1>6. Remaining(d) = Remaining(c)
  BY <1>5 DEF Remaining, Assigned
<1>7. Left(d) = after
  BY <1>2, <1>5 DEF Left, Naming
<1> HIDE DEF after
<1>8. GoodCart(d)
  BY <1>1, <1>2, <1>3, <1>4, <1>5, <1>6, <1>7 DEF GoodCart, Loaded
<1>9. NextStep(d) = NextStep(c)
  BY <1>5 DEF NextStep, LogisticsDone, TrucksNeeded
<1> QED
  BY <1>5, <1>8, <1>9 DEF d

(* The trucks of a good cart can be, and in the end are, loaded with it.    *)
LEMMA GoodAddsUp ==
  ASSUME NEW c, GoodCart(c), c.quantity > 0
  PROVE  TrucksAddUp(c)
<1>1. /\ c \in CartType /\ c.trucks \in Seq(1..Capacity) /\ Remaining(c) \in Int /\ c.truckCount \in 0..MaxTrucks
      /\ c.litres \in 0..Capacity /\ c.quantity \in Int /\ Len(c.trucks) \in Nat
      /\ Capacity \in Int /\ Capacity > 0 /\ MaxTrucks \in Int
  BY CartReads, NumbersType DEF GoodCart
<1>2. \A i \in DOMAIN c.trucks : c.trucks[i] \in 1..Capacity
  BY <1>1
<1>3. CASE c.truckCount > 0
  <2>1. /\ c.quantity > Capacity /\ Left(c) \in 0..MaxTrucks /\ Left(c) \in Int
        /\ Left(c) * Capacity \in Int /\ Left(c) <= Remaining(c) - c.litres
        /\ Remaining(c) - c.litres <= Left(c) * Capacity
    BY <1>3, FleetReads
  <2>2. ASSUME LogisticsDone(c), ~c.deferred PROVE Remaining(c) = 0
    <3>1. Len(c.trucks) >= c.truckCount
      BY <2>1, <2>2, <1>1 DEF LogisticsDone, TrucksNeeded
    <3>2. /\ Left(c) = c.truckCount - Len(c.trucks) - Naming(c) /\ Naming(c) \in 0..1
          /\ c.litres > 0 => Naming(c) = 1
      BY DEF Left, Naming
    <3>3. Left(c) = 0 /\ ~(c.litres > 0)
      <4>1. Left(c) \in Int /\ Left(c) >= 0 /\ c.truckCount \in Int /\ Len(c.trucks) \in Int /\ Naming(c) \in Int
        BY <2>1, <1>1, <3>2
      <4>2. Naming(c) >= 0
        BY <3>2
      <4> QED
        BY <4>1, <4>2, <3>1, <3>2
    <3>4. c.litres = 0 /\ 0 * Capacity = 0
      BY <3>3, <1>1
    <3> QED
      BY <3>3, <3>4, <2>1, <1>1
  <2>3. Remaining(c) - c.litres \in Left(c)..(Left(c) * Capacity)
    BY <2>1, <1>1
  <2>4. Left(c) = c.truckCount - Len(c.trucks) - (IF c.litres > 0 THEN 1 ELSE 0)
    BY DEF Left, Naming
  <2> QED
    BY <1>2, <2>1, <2>2, <2>3, <2>4 DEF TrucksAddUp
<1>4. CASE ~(c.truckCount > 0)
  <2>1. c.truckCount = 0 /\ (c.trucks = <<>> \/ (c.quantity \in 1..Capacity /\ c.trucks = <<c.quantity>>))
    BY <1>1, <1>4 DEF GoodCart, Loaded
  <2>2. ASSUME LogisticsDone(c), ~c.deferred PROVE Remaining(c) = 0
    <3>1. c.trucks # <<>>
      BY <2>1, <2>2, <1>1 DEF LogisticsDone, TrucksNeeded
    <3>2. Assigned(c) = c.quantity
      BY <2>1, <3>1, SumOfNone DEF Assigned
    <3> QED
      BY <3>2, <1>1 DEF Remaining
  <2> QED
    BY <1>2, <1>4, <2>2 DEF TrucksAddUp
<1> QED
  BY <1>3, <1>4

-----------------------------------------------------------------------------
(* What a chat in a state hears, given the prices and the orders.           *)
Words == {<<"menu">>, <<"cancel">>, <<"help">>, <<"track">>, <<"retry">>}
MenuHears(b, last, P) ==
  \/ b \in {<<"order">>, <<"prices">>}
  \/ b = <<"paylast">> /\ last # 0 /\ P[last].status = "Pending"
  \/ b = <<"reorder">> /\ last # 0
LatestOf(c, P) == IF c.last # 0 THEN c.last ELSE Len(P)
SoldAt(d, cat) == \E p \in Products : <<d, p>> \in cat
Deaf(b, c) ==
  \/ c.state = "EXPECTED_PAYMENT" /\ b \in CancelQuestion \cup {<<"cancelorder">>}
  \/ c.state = "CONFIRM" /\ b[1] = "depot"
Hears(b, c, cat, P) ==
  \/ b \in Words \/ Deaf(b, c)
  \/ c.state = "MENU" /\ (MenuHears(b, LatestOf(c, P), P) \/ (c.cart.resume /\ b \in {<<"resume">>, <<"startover">>}))
  \/ c.state = "DEPOT" /\ \E d \in Depots : b = <<"depot", d>> /\ SoldAt(d, cat)
  \/ c.state = "PRODUCT" /\ (SoldAt(c.cart.depot, cat) =>
                               \E p \in Products : b = <<"product", p>> /\ <<c.cart.depot, p>> \in cat)
  \/ c.state = "QUANTITY" /\ <<c.cart.depot, c.cart.product>> \notin cat
  \/ c.state = "COLLECT" /\ b \in {<<"pickup">>, <<"delivery">>}
  \/ c.state = "LOGISTICS" /\ c.cart.type # "delivery" /\ b \in {<<"defer_trucks">>, <<"declare_trucks">>}
  \/ c.state = "CONFIRM" /\ (b[1] = "confirm" \/ b = <<"edit">> \/ b \in EditRows)
  \/ c.state = "EXPECTED_PAYMENT" /\ b \in {<<"expectdone">>, <<"expectskip">>}
  \/ c.state = "AWAIT_PAYMENT"

PlacedType == [status: {"Pending", "Paid", "Closed"}, depot: Depots \cup {NoItem}, product: Products \cup {NoItem},
               quantity: Quantities, type: Types]
(* A paid order whose payment is awaited: the chat has not been told.       *)
PaidUntold(c, P, U) == Awaiting(c) /\ P[c.last].status = "Paid" => c.last \in U

ChatInv ==
  /\ GoodChat(chat) /\ placed \in Seq(PlacedType) /\ catalog \subseteq Depots \X Products
  /\ chat.last \in 0..Len(placed) /\ untold \subseteq DOMAIN placed
  /\ PaidUntold(chat, placed, untold)
  /\ \A b \in offered : Hears(b, chat, catalog, placed)

(* An answer to the saved chat that can be settled.                         *)
GoodAnswer(r) ==
  /\ GoodChat(r.chat) /\ r.chat.last \in 0..Len(placed) /\ PaidUntold(r.chat, placed, untold)
  /\ \A b \in r.offers : Hears(b, r.chat, catalog, placed)
  /\ r.does = "order" => r.chat.state = "CONFIRM"
  /\ r.does = "cancel" => r.chat.state = "AWAIT_PAYMENT"
  /\ r.does = "join" => r.chat.last = chat.last
  /\ r.heard \/ (r.chat.state = chat.state /\ r.does = "nothing")

LEMMA ChatReads ==
  ASSUME NEW c, GoodChat(c)
  PROVE  /\ c \in ChatType /\ c.state \in States /\ c.cart \in CartType /\ c.last \in Nat /\ c.fails \in 0..MaxFailures
         /\ GoodCart(c.cart) /\ c.cart.resume \in BOOLEAN
<1>1. c \in ChatType /\ GoodCart(c.cart)
  BY DEF GoodChat
<1>2. c.cart \in CartType
  BY <1>1 DEF GoodCart
<1> QED
  BY <1>1, <1>2, CartReads DEF ChatType

LEMMA DepotRowsRead ==
  ASSUME NEW b \in DepotRows
  PROVE  b \in Words \/ (b[1] = "depot" /\ \E d \in Depots : b = <<"depot", d>> /\ SoldAt(d, catalog))
<1>1. CASE catalog = {}
  BY <1>1 DEF DepotRows, Words
<1>2. CASE catalog # {}
  <2>1. PICK d \in Depots : OnOffer(d) /\ b = <<"depot", d>>
    BY <1>2 DEF DepotRows
  <2>2. b[1] = "depot"
    BY <2>1
  <2> QED
    BY <2>1, <2>2 DEF OnOffer, SoldAt
<1> QED
  BY <1>1, <1>2

LEMMA MenuRowsRead ==
  ASSUME NEW b \in MenuRows
  PROVE  b \in Words \/ MenuHears(b, LatestOf(chat, placed), placed)
<1>1. LatestOf(chat, placed) = LastOrder
  BY DEF LatestOf, LastOrder
<1>2. CASE catalog = {}
  BY <1>2 DEF MenuRows, Words
<1>3. CASE catalog # {}
  <2>1. b \in {<<"order">>, <<"prices">>} \/ (LastOrder # 0 /\ (b = <<"track">> \/ b = LastRow))
    BY <1>3 DEF MenuRows
  <2> QED
    BY <2>1, <1>1 DEF LastRow, MenuHears, Words
<1> QED
  BY <1>2, <1>3

LEMMA SummaryRead ==
  ASSUME NEW cart, NEW b \in Summary(cart)
  PROVE  b \in Words \/ b[1] = "confirm" \/ b = <<"edit">> \/ b[1] = "depot"
<1>1. CASE Sold(cart)
  <2>1. b = <<"confirm", CartToken(cart)>> \/ b = <<"edit">> \/ b = <<"cancel">>
    BY <1>1 DEF Summary
  <2> QED
    BY <2>1 DEF Words
<1>2. CASE ~Sold(cart)
  BY <1>2, DepotRowsRead DEF Summary
<1> QED
  BY <1>1, <1>2

LEMMA PromptRead ==
  ASSUME NEW c, c.state \in States, c.state = "MENU" => c.last = chat.last,
         NEW b \in PromptFor(c.state, c.cart)
  PROVE  Hears(b, c, catalog, placed)
<1>1. CASE c.state = "MENU"
  <2>1. b \in MenuRows /\ LatestOf(c, placed) = LatestOf(chat, placed)
    BY <1>1 DEF PromptFor, LatestOf
  <2>2. b \in Words \/ MenuHears(b, LatestOf(c, placed), placed)
    BY <2>1, MenuRowsRead
  <2>3. CASE b \in Words
    BY <2>3 DEF Hears
  <2>4. CASE MenuHears(b, LatestOf(c, placed), placed)
    BY <2>4, <1>1, Zenon DEF Hears
  <2> QED
    BY <2>2, <2>3, <2>4
<1>2. CASE c.state = "DEPOT"
  BY <1>2, DepotRowsRead DEF PromptFor, Hears
<1>3. CASE c.state = "PRODUCT"
  <2>1. CASE OnOffer(c.cart.depot)
    <3>1. PICK p \in Products : b = <<"product", p>> /\ <<c.cart.depot, p>> \in catalog
      BY <1>3, <2>1 DEF PromptFor, ProductRows
    <3> QED
      BY <3>1, <1>3 DEF Hears
  <2>2. CASE ~OnOffer(c.cart.depot)
    BY <1>3, <2>2 DEF OnOffer, SoldAt, Hears
  <2> QED
    BY <2>1, <2>2
<1>4. CASE c.state = "QUANTITY"
  BY <1>4 DEF PromptFor, Sold, Hears
<1>5. CASE c.state = "COLLECT"
  BY <1>5 DEF PromptFor, Hears
<1>6. CASE c.state = "LOGISTICS"
  BY <1>6 DEF PromptFor, Hears
<1>7. CASE c.state = "CONFIRM"
  <2>1. b \in Summary(c.cart)
    BY <1>7 DEF PromptFor
  <2> QED
    BY <1>7, <2>1, SummaryRead DEF Hears, Deaf
<1>8. CASE c.state = "EXPECTED_PAYMENT"
  BY <1>8 DEF PromptFor, Hears
<1>9. CASE c.state = "AWAIT_PAYMENT"
  BY <1>9 DEF Hears
<1>10. CASE c.state \in {"IDENTIFY", "COMPANY"}
  BY <1>10 DEF PromptFor
<1> QED
  BY <1>1, <1>2, <1>3, <1>4, <1>5, <1>6, <1>7, <1>8, <1>9, <1>10 DEF States, Building

(* The forms of answers.                                                    *)
LEMMA SaysGood ==
  ASSUME NEW c, GoodChat(c), c.last \in 0..Len(placed), PaidUntold(c, placed, untold),
         NEW bs, \A b \in bs : Hears(b, c, catalog, placed)
  PROVE  GoodAnswer(Says(c, bs))
<1> DEFINE r == Says(c, bs)
<1>1. r.chat = c /\ r.offers = bs /\ r.heard /\ r.does = "nothing"
  BY DEF Says
<1> HIDE DEF r
<1> QED
  BY <1>1 DEF GoodAnswer, r

LEMMA GoToReads ==
  ASSUME NEW c \in ChatType, NEW cart \in CartType, NEW state \in States
  PROVE  LET r == GoTo(c, cart, state) IN
           /\ r.chat \in ChatType /\ r.chat.state = state /\ r.chat.cart = cart /\ r.chat.last = c.last
           /\ r.offers = PromptFor(state, cart) /\ r.heard /\ r.does = "nothing"
<1> DEFINE d == [c EXCEPT !.state = state, !.cart = cart, !.fails = 0]
<1>1. 0 \in 0..MaxFailures
  BY NumbersType
<1>2. d \in ChatType /\ d.state = state /\ d.cart = cart /\ d.last = c.last
  BY <1>1 DEF ChatType
<1> HIDE DEF d
<1>3. GoTo(c, cart, state) = Says(d, PromptFor(state, cart))
  BY DEF GoTo, d
<1> DEFINE r == Says(d, PromptFor(state, cart))
<1>4. r.chat = d /\ r.offers = PromptFor(state, cart) /\ r.heard /\ r.does = "nothing"
  BY DEF Says
<1> HIDE DEF r
<1> QED
  BY <1>2, <1>3, <1>4 DEF r

LEMMA GoToGood ==
  ASSUME NEW c \in ChatType, c.last \in 0..Len(placed), NEW cart, GoodCart(cart), NEW state \in States,
         state \in Building => state = NextStep(cart),
         cart.resume => state = "MENU",
         state = "MENU" => c.last = chat.last,
         state \in {"EXPECTED_PAYMENT", "AWAIT_PAYMENT"} =>
           c.last # 0 /\ cart.awaiting = c.last /\ (placed[c.last].status = "Paid" => c.last \in untold)
  PROVE  GoodAnswer(GoTo(c, cart, state))
<1> DEFINE r == GoTo(c, cart, state)
<1>0. cart \in CartType
  BY DEF GoodCart
<1>1. /\ r.chat \in ChatType /\ r.chat.state = state /\ r.chat.cart = cart /\ r.chat.last = c.last
      /\ r.offers = PromptFor(state, cart) /\ r.heard /\ r.does = "nothing"
  BY <1>0, GoToReads
<1> HIDE DEF r
<1>2. GoodChat(r.chat) /\ PaidUntold(r.chat, placed, untold)
  BY <1>1 DEF GoodChat, Awaiting, PaidUntold
<1>3. \A b \in r.offers : Hears(b, r.chat, catalog, placed)
  BY <1>1, PromptRead
<1> QED
  BY <1>1, <1>2, <1>3 DEF GoodAnswer, r

LEMMA StepIsAsked ==
  ASSUME NEW cart
  PROVE  NextStep(cart) \in Building /\ NextStep(cart) \in States
         /\ NextStep(cart) \notin {"MENU", "EXPECTED_PAYMENT", "AWAIT_PAYMENT", "IDENTIFY"}
BY DEF NextStep, Building, States

LEMMA OnwardGood ==
  ASSUME NEW c \in ChatType, c.last \in 0..Len(placed), NEW cart, GoodCart(cart), ~cart.resume
  PROVE  GoodAnswer(Onward(c, cart))
BY StepIsAsked, GoToGood DEF Onward

LEMMA SameHears ==
  ASSUME NEW c, NEW d, d.state = c.state, d.cart = c.cart, d.last = c.last, NEW b, Hears(b, c, catalog, placed)
  PROVE  Hears(b, d, catalog, placed)
BY DEF Hears, Deaf, LatestOf

LEMMA FumbleGood ==
  ASSUME ChatInv, NEW bs, \A b \in bs : Hears(b, chat, catalog, placed)
  PROVE  GoodAnswer(Fumble(chat, bs))
<1>1. /\ GoodChat(chat) /\ chat \in ChatType /\ chat.fails \in 0..MaxFailures /\ MaxFailures \in Int
      /\ chat.last \in 0..Len(placed) /\ PaidUntold(chat, placed, untold)
  BY ChatReads, NumbersType DEF ChatInv
<1>2. ASSUME NEW n \in 0..MaxFailures, NEW offers, \A b \in offers : Hears(b, chat, catalog, placed)
      PROVE  GoodAnswer([Says([chat EXCEPT !.fails = n], offers) EXCEPT !.heard = FALSE])
  <2> DEFINE d == [chat EXCEPT !.fails = n]
             r == [Says(d, offers) EXCEPT !.heard = FALSE]
  <2>1. d \in ChatType /\ d.state = chat.state /\ d.cart = chat.cart /\ d.last = chat.last
    BY <1>1 DEF ChatType
  <2>2. r.chat = d /\ r.offers = offers /\ ~r.heard /\ r.does = "nothing"
    BY DEF Says
  <2> HIDE DEF d, r
  <2>3. GoodChat(d) /\ PaidUntold(d, placed, untold)
    BY <1>1, <2>1 DEF GoodChat, Awaiting, PaidUntold
  <2>4. \A b \in offers : Hears(b, d, catalog, placed)
    BY <1>2, <2>1, SameHears
  <2> QED
    BY <1>1, <2>1, <2>2, <2>3, <2>4 DEF GoodAnswer, r, d
<1>3. 0 \in 0..MaxFailures /\ Fails(chat) \in 0..MaxFailures
  BY <1>1 DEF Fails
<1>4. \A b \in {<<"menu">>, <<"retry">>} : Hears(b, chat, catalog, placed)
  BY DEF Hears, Words
<1>5. CASE chat.fails + 1 >= MaxFailures /\ chat.state # "IDENTIFY"
  <2>1. Fumble(chat, bs) = [Says([chat EXCEPT !.fails = 0], {<<"menu">>, <<"retry">>}) EXCEPT !.heard = FALSE]
    BY <1>5 DEF Fumble
  <2> QED
    BY <2>1, <1>2, <1>3, <1>4
<1>6. CASE ~(chat.fails + 1 >= MaxFailures /\ chat.state # "IDENTIFY")
  <2>1. Fumble(chat, bs) = [Says([chat EXCEPT !.fails = Fails(chat)], bs) EXCEPT !.heard = FALSE]
    BY <1>6 DEF Fumble
  <2> QED
    BY <2>1, <1>2, <1>3
<1> QED
  BY <1>5, <1>6

-----------------------------------------------------------------------------
(* Every handler answers well.                                              *)
LEMMA InvReads ==
  ASSUME ChatInv
  PROVE  /\ GoodChat(chat) /\ chat \in ChatType /\ chat.state \in States /\ chat.cart \in CartType
         /\ GoodCart(chat.cart) /\ chat.last \in 0..Len(placed) /\ PaidUntold(chat, placed, untold)
         /\ (chat.state # "MENU" => ~chat.cart.resume)
         /\ (chat.state \in Building => chat.state = NextStep(chat.cart))
         /\ Len(placed) \in Nat /\ LastOrder \in 0..Len(placed)
         /\ \A o \in 1..Len(placed) : placed[o] \in PlacedType
<1>1. GoodChat(chat) /\ placed \in Seq(PlacedType) /\ chat.last \in 0..Len(placed) /\ PaidUntold(chat, placed, untold)
  BY DEF ChatInv
<1>2. /\ chat \in ChatType /\ chat.state \in States /\ chat.cart \in CartType /\ GoodCart(chat.cart)
      /\ chat.cart.resume \in BOOLEAN
  BY <1>1, ChatReads
<1>3. (chat.state # "MENU" => ~chat.cart.resume) /\ (chat.state \in Building => chat.state = NextStep(chat.cart))
  BY <1>1 DEF GoodChat
<1>4. Len(placed) \in Nat /\ LastOrder \in 0..Len(placed) /\ \A o \in 1..Len(placed) : placed[o] \in PlacedType
  BY <1>1 DEF LastOrder
<1> QED
  BY <1>1, <1>2, <1>3, <1>4

(* The saved session as it is, with buttons it hears.                       *)
LEMMA KeepGood ==
  ASSUME ChatInv, NEW bs, \A b \in bs : Hears(b, chat, catalog, placed)
  PROVE  GoodAnswer(Says(chat, bs))
BY InvReads, SaysGood

LEMMA GoGood ==
  ASSUME ChatInv, NEW cart, GoodCart(cart), NEW state \in States,
         state \in Building => state = NextStep(cart), cart.resume => state = "MENU",
         state \notin {"EXPECTED_PAYMENT", "AWAIT_PAYMENT"}
  PROVE  GoodAnswer(GoTo(chat, cart, state))
BY InvReads, GoToGood

LEMMA OnGood ==
  ASSUME ChatInv, NEW cart, GoodCart(cart), ~cart.resume
  PROVE  GoodAnswer(Onward(chat, cart))
BY InvReads, OnwardGood

LEMMA PromptsRead ==
  ASSUME ChatInv
  PROVE  \A b \in PromptFor(chat.state, chat.cart) : Hears(b, chat, catalog, placed)
BY InvReads, PromptRead

LEMMA IdentifyGood ==
  ASSUME ChatInv, chat.state = "IDENTIFY", NEW m
  PROVE  GoodAnswer(HandleIdentify(chat, m))
<1>1. CASE HasLetters(m)
  <2> DEFINE r == Asks(chat, "join")
  <2>1. r.chat = chat /\ r.offers = {} /\ r.heard /\ r.does = "join"
    BY DEF Asks, Says
  <2>2. HandleIdentify(chat, m) = r
    BY <1>1 DEF HandleIdentify
  <2> HIDE DEF r
  <2> QED
    BY <2>1, <2>2, InvReads DEF GoodAnswer
<1>2. CASE ~HasLetters(m)
  <2>1. HandleIdentify(chat, m) = Fumble(chat, {})
    BY <1>2 DEF HandleIdentify, Fumble
  <2> QED
    BY <2>1, FumbleGood
<1> QED
  BY <1>1, <1>2

LEMMA GoDepotGood ==
  ASSUME ChatInv
  PROVE  GoodAnswer(GoTo(chat, EmptyCart, "DEPOT"))
BY NewCart, GoGood DEF States, Building

LEMMA ReorderGood ==
  ASSUME ChatInv, LastOrder # 0,
         NEW cart, cart = [EmptyCart EXCEPT !.depot = placed[LastOrder].depot, !.product = placed[LastOrder].product,
                                            !.quantity = placed[LastOrder].quantity, !.type = placed[LastOrder].type]
  PROVE  GoodAnswer(Onward(chat, cart))
<1> DEFINE o == placed[LastOrder]
<1>1. o \in PlacedType
  BY InvReads
<1>2. /\ o.depot \in Depots \cup {NoItem} /\ o.product \in Products \cup {NoItem} /\ o.quantity \in Quantities
      /\ o.type \in Types
  BY <1>1 DEF PlacedType
<1> HIDE DEF o
<1>3. EmptyCart \in CartType /\ EmptyCart.resume = FALSE
  BY NewCart DEF GoodCart
<1>4. cart = [EmptyCart EXCEPT !.depot = o.depot, !.product = o.product, !.quantity = o.quantity, !.type = o.type]
  BY DEF o
<1>5. cart \in CartType /\ cart.resume = FALSE
  BY <1>2, <1>3, <1>4 DEF CartType
<1>6. cart.trucks = <<>> /\ cart.truckCount = 0 /\ cart.litres = 0
  BY <1>4 DEF EmptyCart
<1>7. GoodCart(cart)
  BY <1>5, <1>6, Unloaded
<1> QED
  BY <1>5, <1>7, OnGood

LEMMA PayLastGood ==
  ASSUME ChatInv, LastOrder # 0, placed[LastOrder].status = "Pending"
  PROVE  GoodAnswer(GoTo([chat EXCEPT !.last = LastOrder], [EmptyCart EXCEPT !.awaiting = LastOrder], "AWAIT_PAYMENT"))
<1> DEFINE d == [chat EXCEPT !.last = LastOrder]
           e == [EmptyCart EXCEPT !.awaiting = LastOrder]
<1>1. LastOrder \in 0..Len(placed) /\ LastOrder \in Nat /\ chat \in ChatType
  BY InvReads
<1>2. d \in ChatType /\ d.last = LastOrder
  BY <1>1 DEF ChatType
<1>3. EmptyCart \in CartType /\ EmptyCart.resume = FALSE
  BY NewCart DEF GoodCart
<1>4. e \in CartType /\ e.resume = FALSE /\ e.awaiting = LastOrder
  BY <1>1, <1>3 DEF CartType
<1>5. e.trucks = <<>> /\ e.truckCount = 0 /\ e.litres = 0
  BY DEF EmptyCart
<1> HIDE DEF d, e
<1>6. GoodCart(e)
  BY <1>4, <1>5, Unloaded
<1>7. GoodAnswer(GoTo(d, e, "AWAIT_PAYMENT"))
  BY <1>1, <1>2, <1>4, <1>6, GoToGood DEF States, Building
<1> QED
  BY <1>7 DEF d, e

LEMMA OfferedRead ==
  ASSUME ChatInv
  PROVE  \A b \in offered : Hears(b, chat, catalog, placed)
BY DEF ChatInv

LEMMA MenuGood ==
  ASSUME ChatInv, chat.state = "MENU", NEW m
  PROVE  GoodAnswer(HandleMenu(chat, m))
<1> DEFINE o == placed[LastOrder]
           again == [EmptyCart EXCEPT !.depot = o.depot, !.product = o.product, !.quantity = o.quantity, !.type = o.type]
<1>1. \/ HandleMenu(chat, m) = Says(chat, offered)
      \/ HandleMenu(chat, m) = GoTo(chat, EmptyCart, "DEPOT")
      \/ /\ LastOrder # 0 /\ o.status = "Pending"
         /\ HandleMenu(chat, m) =
              GoTo([chat EXCEPT !.last = LastOrder], [EmptyCart EXCEPT !.awaiting = LastOrder], "AWAIT_PAYMENT")
      \/ LastOrder # 0 /\ HandleMenu(chat, m) = Onward(chat, again)
      \/ HandleMenu(chat, m) = Fumble(chat, MenuRows)
  BY DEF HandleMenu
<1>2. \A b \in MenuRows : Hears(b, chat, catalog, placed)
  <2>1. PromptFor(chat.state, chat.cart) = MenuRows
    BY DEF PromptFor
  <2> QED
    BY <2>1, PromptsRead
<1>3. LastOrder # 0 => GoodAnswer(Onward(chat, again))
  BY ReorderGood
<1> HIDE DEF o, again
<1>4. LastOrder # 0 /\ o.status = "Pending"
        => GoodAnswer(GoTo([chat EXCEPT !.last = LastOrder], [EmptyCart EXCEPT !.awaiting = LastOrder], "AWAIT_PAYMENT"))
  BY PayLastGood DEF o
<1>5. GoodAnswer(Says(chat, offered)) /\ GoodAnswer(GoTo(chat, EmptyCart, "DEPOT")) /\ GoodAnswer(Fumble(chat, MenuRows))
  BY <1>2, KeepGood, OfferedRead, GoDepotGood, FumbleGood
<1> QED
  BY <1>1, <1>3, <1>4, <1>5

LEMMA DepotGood ==
  ASSUME ChatInv, chat.state = "DEPOT", NEW m
  PROVE  GoodAnswer(HandleDepot(chat, m))
<1> DEFINE d == ClearDepot(chat.cart)
           e == [d EXCEPT !.depot = m.id[2]]
<1>1. d \in CartType /\ d.resume = chat.cart.resume /\ d.trucks = <<>> /\ d.truckCount = 0 /\ d.litres = 0
  BY InvReads, ClearDepotGood
<1>2. ~chat.cart.resume
  BY InvReads
<1>3. CASE m.id[1] = "depot" /\ OnOffer(m.id[2])
  <2>1. m.id[2] \in Depots
    BY <1>3 DEF OnOffer, ChatInv
  <2> HIDE DEF d
  <2>2. e \in CartType /\ ~e.resume /\ e.trucks = <<>> /\ e.truckCount = 0 /\ e.litres = 0
    BY <1>1, <1>2, <2>1 DEF CartType
  <2>3. HandleDepot(chat, m) = Onward(chat, e)
    BY <1>3 DEF HandleDepot, d
  <2> HIDE DEF e
  <2>4. GoodCart(e)
    BY <2>2, Unloaded
  <2> QED
    BY <2>2, <2>3, <2>4, OnGood
<1>4. CASE ~(m.id[1] = "depot" /\ OnOffer(m.id[2]))
  <2>1. HandleDepot(chat, m) = Fumble(chat, DepotRows) /\ PromptFor(chat.state, chat.cart) = DepotRows
    BY <1>4 DEF HandleDepot, PromptFor
  <2> QED
    BY <2>1, FumbleGood, PromptsRead
<1> QED
  BY <1>3, <1>4

(* Back to the depot: it is the first question of a cart that lost its own. *)
LEMMA BackToDepotGood ==
  ASSUME ChatInv, ~chat.cart.resume
  PROVE  GoodAnswer(GoTo(chat, ClearDepot(chat.cart), "DEPOT"))
<1>1. /\ GoodCart(ClearDepot(chat.cart)) /\ ~ClearDepot(chat.cart).resume /\ NextStep(ClearDepot(chat.cart)) = "DEPOT"
  BY InvReads, ClearDepotGood
<1> QED
  BY <1>1, GoGood DEF States, Building

LEMMA ProductGood ==
  ASSUME ChatInv, chat.state = "PRODUCT", NEW m
  PROVE  GoodAnswer(HandleProduct(chat, m))
<1> DEFINE d == ClearProduct(chat.cart)
           e == [d EXCEPT !.product = m.id[2]]
<1>1. d \in CartType /\ d.resume = chat.cart.resume /\ d.trucks = <<>> /\ d.truckCount = 0 /\ d.litres = 0
  BY InvReads, ClearProductGood
<1>2. ~chat.cart.resume
  BY InvReads
<1>3. CASE ~OnOffer(chat.cart.depot)
  <2>1. HandleProduct(chat, m) = GoTo(chat, ClearDepot(chat.cart), "DEPOT")
    BY <1>3 DEF HandleProduct
  <2> QED
    BY <2>1, <1>2, BackToDepotGood
<1>4. CASE OnOffer(chat.cart.depot) /\ m.id[1] = "product" /\ <<chat.cart.depot, m.id[2]>> \in catalog
  <2>1. m.id[2] \in Products
    BY <1>4 DEF ChatInv
  <2> HIDE DEF d
  <2>2. e \in CartType /\ ~e.resume /\ e.trucks = <<>> /\ e.truckCount = 0 /\ e.litres = 0
    BY <1>1, <1>2, <2>1 DEF CartType
  <2>3. HandleProduct(chat, m) = Onward(chat, e)
    BY <1>4 DEF HandleProduct, d
  <2> HIDE DEF e
  <2>4. GoodCart(e)
    BY <2>2, Unloaded
  <2> QED
    BY <2>2, <2>3, <2>4, OnGood
<1>5. CASE OnOffer(chat.cart.depot) /\ ~(m.id[1] = "product" /\ <<chat.cart.depot, m.id[2]>> \in catalog)
  <2>1. HandleProduct(chat, m) = Fumble(chat, PromptFor(chat.state, chat.cart))
    BY <1>5 DEF HandleProduct
  <2> QED
    BY <2>1, FumbleGood, PromptsRead
<1> QED
  BY <1>3, <1>4, <1>5

LEMMA QuantityGood ==
  ASSUME ChatInv, chat.state = "QUANTITY", NEW m
  PROVE  GoodAnswer(HandleQuantity(chat, m))
<1> DEFINE d == ClearQuantity(chat.cart)
           e == [d EXCEPT !.quantity = Number(m)]
<1>1. d \in CartType /\ d.resume = chat.cart.resume /\ d.trucks = <<>> /\ d.truckCount = 0 /\ d.litres = 0
  BY InvReads, ClearQuantityGood
<1>2. ~chat.cart.resume
  BY InvReads
<1>3. CASE ~Sold(chat.cart)
  <2>1. HandleQuantity(chat, m) = GoTo(chat, ClearDepot(chat.cart), "DEPOT")
    BY <1>3 DEF HandleQuantity
  <2> QED
    BY <2>1, <1>2, BackToDepotGood
<1>4. CASE Sold(chat.cart) /\ Number(m) \in Quantities
  <2> HIDE DEF d
  <2>2. e \in CartType /\ ~e.resume /\ e.trucks = <<>> /\ e.truckCount = 0 /\ e.litres = 0
    BY <1>1, <1>2, <1>4 DEF CartType
  <2>3. HandleQuantity(chat, m) = Onward(chat, e)
    BY <1>4 DEF HandleQuantity, d
  <2> HIDE DEF e
  <2>4. GoodCart(e)
    BY <2>2, Unloaded
  <2> QED
    BY <2>2, <2>3, <2>4, OnGood
<1>5. CASE Sold(chat.cart) /\ Number(m) \notin Quantities
  <2>1. HandleQuantity(chat, m) = Fumble(chat, {})
    BY <1>5 DEF HandleQuantity
  <2> QED
    BY <2>1, FumbleGood
<1> QED
  BY <1>3, <1>4, <1>5

LEMMA CompanyGood ==
  ASSUME ChatInv, chat.state = "COMPANY", NEW m
  PROVE  GoodAnswer(HandleCompany(chat, m))
<1> DEFINE c == chat.cart
           e == [c EXCEPT !.company = TRUE]
<1>1. c \in CartType /\ GoodCart(c) /\ ~c.resume
  BY InvReads
<1> HIDE DEF c
<1>2. /\ e \in CartType /\ ~e.resume /\ e.trucks = c.trucks /\ e.truckCount = c.truckCount
      /\ e.litres = c.litres /\ e.quantity = c.quantity
  BY <1>1 DEF CartType
<1>3. HandleCompany(chat, m) = IF HasLetters(m) THEN Onward(chat, e) ELSE Fumble(chat, {})
  BY DEF HandleCompany, c
<1> HIDE DEF e
<1>4. GoodCart(e)
  BY <1>1, <1>2, SameLoad
<1>5. GoodAnswer(Onward(chat, e)) /\ GoodAnswer(Fumble(chat, {}))
  BY <1>2, <1>4, OnGood, FumbleGood
<1> QED
  BY <1>3, <1>5

LEMMA CollectGood ==
  ASSUME ChatInv, chat.state = "COLLECT", NEW m
  PROVE  GoodAnswer(HandleCollect(chat, m))
<1> DEFINE d == ClearCollect(chat.cart)
           e == [d EXCEPT !.type = m.id[1]]
<1>1. d \in CartType /\ d.resume = chat.cart.resume /\ d.trucks = <<>> /\ d.truckCount = 0 /\ d.litres = 0
  BY InvReads, ClearCollectGood
<1>2. ~chat.cart.resume
  BY InvReads
<1>3. CASE m.id \in {<<"pickup">>, <<"delivery">>}
  <2>1. m.id[1] \in Types
    BY <1>3 DEF Types
  <2> HIDE DEF d
  <2>2. e \in CartType /\ ~e.resume /\ e.trucks = <<>> /\ e.truckCount = 0 /\ e.litres = 0
    BY <1>1, <1>2, <2>1 DEF CartType
  <2>3. HandleCollect(chat, m) = Onward(chat, e)
    BY <1>3 DEF HandleCollect, d
  <2> HIDE DEF e
  <2>4. GoodCart(e)
    BY <2>2, Unloaded
  <2> QED
    BY <2>2, <2>3, <2>4, OnGood
<1>4. CASE m.id \notin {<<"pickup">>, <<"delivery">>}
  <2>1. HandleCollect(chat, m) = Fumble(chat, PromptFor(chat.state, chat.cart))
    BY <1>4 DEF HandleCollect
  <2> QED
    BY <2>1, FumbleGood, PromptsRead
<1> QED
  BY <1>3, <1>4

(* What the question about the trucks says of the cart.                     *)
LEMMA LogisticsReads ==
  ASSUME ChatInv, chat.state = "LOGISTICS"
  PROVE  /\ GoodCart(chat.cart) /\ chat.cart \in CartType /\ ~chat.cart.resume /\ NextStep(chat.cart) = "LOGISTICS"
         /\ chat.cart.quantity \in Int /\ chat.cart.quantity > 0
         /\ chat.cart.type # "delivery" => /\ chat.cart.type = "pickup" /\ ~chat.cart.deferred
                                           /\ ~LogisticsDone(chat.cart)
<1>1. /\ GoodCart(chat.cart) /\ chat.cart \in CartType /\ ~chat.cart.resume /\ NextStep(chat.cart) = "LOGISTICS"
  BY InvReads DEF Building
<1>2. chat.cart.quantity \in {0} \cup Quantities /\ chat.cart.type \in Types
  BY <1>1, CartReads
<1>3. chat.cart.quantity # 0
  BY <1>1 DEF NextStep
<1>4. chat.cart.type # "delivery" => chat.cart.type = "pickup" /\ ~LogisticsDone(chat.cart)
  BY <1>1 DEF NextStep
<1>5. ~LogisticsDone(chat.cart) => ~chat.cart.deferred
  BY DEF LogisticsDone
<1> QED
  BY <1>1, <1>2, <1>3, <1>4, <1>5, NumbersType

LEMMA TrucksGood ==
  ASSUME ChatInv, chat.state = "LOGISTICS", chat.cart.type # "delivery", NEW m
  PROVE  GoodAnswer(HandleTrucks(chat, m))
<1> DEFINE c == chat.cart
           one == [c EXCEPT !.trucks = <<c.quantity>>]
           many == [c EXCEPT !.truckCount = Number(m), !.trucks = <<>>]
           share == [c EXCEPT !.litres = Number(m)]
<1>1. /\ GoodCart(c) /\ c \in CartType /\ ~c.resume /\ NextStep(c) = "LOGISTICS" /\ c.type # "delivery"
      /\ c.quantity \in Int /\ c.quantity > 0 /\ ~c.deferred /\ ~LogisticsDone(c)
  BY LogisticsReads
<1>2. /\ c.truckCount \in 0..MaxTrucks /\ c.litres \in 0..Capacity /\ Len(c.trucks) \in Nat
      /\ Capacity \in Int /\ Capacity > 0 /\ MaxTrucks \in Int
  BY <1>1, CartReads, NumbersType
<1>3. GoodAnswer(Fumble(chat, PromptFor("LOGISTICS", c))) /\ GoodAnswer(Fumble(chat, {<<"defer_trucks">>}))
  <2>1. \A b \in {<<"defer_trucks">>} : Hears(b, chat, catalog, placed)
    BY <1>1 DEF Hears
  <2> QED
    BY <2>1, FumbleGood, PromptsRead
<1>4. \/ HandleTrucks(chat, m) \in {Fumble(chat, PromptFor("LOGISTICS", c)), Fumble(chat, {<<"defer_trucks">>})}
      \/ c.quantity <= Capacity /\ HandleTrucks(chat, m) = Onward(chat, one)
      \/ /\ ~(c.quantity <= Capacity) /\ c.truckCount = 0
         /\ Number(m) \in MinTrucks(c.quantity)..MaxTrucksFor(c.quantity)
         /\ HandleTrucks(chat, m) = Onward(chat, many)
      \/ c.truckCount # 0 /\ c.litres > 0 /\ HandleTrucks(chat, m) = Onward(chat, WithTruck(c, c.litres))
      \/ /\ c.truckCount # 0 /\ ~(c.litres > 0) /\ Len(c.trucks) + 1 = c.truckCount
         /\ HandleTrucks(chat, m) = Onward(chat, WithTruck(c, Remaining(c)))
      \/ /\ ~(c.quantity <= Capacity) /\ c.truckCount # 0 /\ ~(c.litres > 0) /\ LitresFit(c, Number(m))
         /\ HandleTrucks(chat, m) = GoTo(chat, share, "LOGISTICS")
  BY DEF HandleTrucks
<1> HIDE DEF c
<1>5. ASSUME c.quantity <= Capacity PROVE GoodAnswer(Onward(chat, one))
  BY <1>1, <1>5, OneTruck, OnGood
<1>6. ASSUME ~(c.quantity <= Capacity), c.truckCount = 0,
             Number(m) \in MinTrucks(c.quantity)..MaxTrucksFor(c.quantity)
      PROVE  GoodAnswer(Onward(chat, many))
  <2>1. c.quantity > Capacity
    BY <1>1, <1>2, <1>6
  <2>2. GoodCart(many) /\ many.resume = c.resume
    BY <1>1, <1>6, <2>1, CountGood
  <2> HIDE DEF many
  <2> QED
    BY <2>2, <1>1, OnGood
<1>7. ASSUME c.truckCount # 0, c.litres > 0 PROVE GoodAnswer(Onward(chat, WithTruck(c, c.litres)))
  <2>1. GoodCart(WithTruck(c, c.litres)) /\ WithTruck(c, c.litres).resume = c.resume
    BY <1>1, <1>2, <1>7, WithTruckGood
  <2> QED
    BY <2>1, <1>1, OnGood
<1>8. ASSUME c.truckCount # 0, ~(c.litres > 0), Len(c.trucks) + 1 = c.truckCount
      PROVE  GoodAnswer(Onward(chat, WithTruck(c, Remaining(c))))
  <2>1. GoodCart(WithTruck(c, Remaining(c))) /\ WithTruck(c, Remaining(c)).resume = c.resume
    BY <1>1, <1>2, <1>8, WithTruckGood
  <2> QED
    BY <2>1, <1>1, OnGood
<1>9. ASSUME ~(c.quantity <= Capacity), c.truckCount # 0, ~(c.litres > 0), LitresFit(c, Number(m))
      PROVE  GoodAnswer(GoTo(chat, share, "LOGISTICS"))
  <2>1. Len(c.trucks) < c.truckCount
    BY <1>1, <1>2, <1>9 DEF LogisticsDone, TrucksNeeded
  <2>2. GoodCart(share) /\ share.resume = c.resume /\ NextStep(share) = "LOGISTICS"
    BY <1>1, <1>2, <1>9, <2>1, LitresGood
  <2> HIDE DEF share
  <2> QED
    BY <2>2, <1>1, GoGood DEF States, Building
<1> HIDE DEF one, many, share
<1> QED
  BY <1>3, <1>4, <1>5, <1>6, <1>7, <1>8, <1>9

LEMMA LogisticsGood ==
  ASSUME ChatInv, chat.state = "LOGISTICS", NEW m
  PROVE  GoodAnswer(HandleLogistics(chat, m))
<1> DEFINE c == chat.cart
           there == [c EXCEPT !.address = TRUE]
           t == ClearTrucks(c)
           deferred == [t EXCEPT !.deferred = TRUE]
           declaring == [c EXCEPT !.declare = TRUE, !.deferred = FALSE]
<1>1. /\ GoodCart(c) /\ c \in CartType /\ ~c.resume /\ NextStep(c) = "LOGISTICS"
      /\ (c.type # "delivery" => c.type = "pickup" /\ ~c.deferred /\ ~LogisticsDone(c))
  BY LogisticsReads
<1>2. \/ c.type = "delivery" /\ HandleLogistics(chat, m) \in {Onward(chat, there), Fumble(chat, {})}
      \/ /\ c.type # "delivery"
         /\ \/ HandleLogistics(chat, m) = Onward(chat, deferred)
            \/ HandleLogistics(chat, m) = GoTo(chat, declaring, "LOGISTICS")
            \/ HandleLogistics(chat, m) = HandleTrucks(chat, m)
  BY DEF HandleLogistics
<1> HIDE DEF c
<1>3. GoodAnswer(Onward(chat, there)) /\ GoodAnswer(Fumble(chat, {}))
  <2>1. /\ there \in CartType /\ ~there.resume /\ there.trucks = c.trucks /\ there.truckCount = c.truckCount
        /\ there.litres = c.litres /\ there.quantity = c.quantity
    BY <1>1 DEF CartType
  <2> HIDE DEF there
  <2>2. GoodCart(there)
    BY <1>1, <2>1, SameLoad
  <2> QED
    BY <2>1, <2>2, OnGood, FumbleGood
<1>4. GoodAnswer(Onward(chat, deferred))
  <2>1. t \in CartType /\ ~t.resume /\ t.trucks = <<>> /\ t.truckCount = 0 /\ t.litres = 0
    BY <1>1, ClearTrucksGood
  <2> HIDE DEF t
  <2>2. /\ deferred \in CartType /\ ~deferred.resume /\ deferred.trucks = <<>> /\ deferred.truckCount = 0
        /\ deferred.litres = 0
    BY <2>1 DEF CartType
  <2> HIDE DEF deferred
  <2>3. GoodCart(deferred)
    BY <2>2, Unloaded
  <2> QED
    BY <2>2, <2>3, OnGood
<1>5. ASSUME c.type # "delivery" PROVE GoodAnswer(GoTo(chat, declaring, "LOGISTICS"))
  <2>1. /\ declaring \in CartType /\ ~declaring.resume /\ declaring.trucks = c.trucks
        /\ declaring.truckCount = c.truckCount /\ declaring.litres = c.litres /\ declaring.quantity = c.quantity
        /\ declaring.depot = c.depot /\ declaring.product = c.product /\ declaring.company = c.company
        /\ declaring.type = c.type /\ declaring.address = c.address /\ ~declaring.deferred
    BY <1>1 DEF CartType
  <2> HIDE DEF declaring
  <2>2. GoodCart(declaring)
    BY <1>1, <2>1, SameLoad
  <2>3. ~LogisticsDone(declaring)
    BY <1>1, <1>5, <2>1 DEF LogisticsDone, TrucksNeeded
  <2>4. NextStep(declaring) = "LOGISTICS"
    BY <1>1, <1>5, <2>1, <2>3 DEF NextStep
  <2> QED
    BY <2>1, <2>2, <2>4, GoGood DEF States, Building
<1>6. c.type # "delivery" => GoodAnswer(HandleTrucks(chat, m))
  BY TrucksGood DEF c
<1> HIDE DEF there, deferred, declaring
<1> QED
  BY <1>2, <1>3, <1>4, <1>5, <1>6

LEMMA ConfirmGood ==
  ASSUME ChatInv, chat.state = "CONFIRM", NEW m
  PROVE  GoodAnswer(HandleConfirm(chat, m))
<1> DEFINE c == chat.cart
           valid == Revalidated(c)
<1>1. GoodCart(c) /\ c \in CartType /\ ~c.resume
  BY InvReads
<1>2. \/ m.id \in EditRows /\ HandleConfirm(chat, m) = Onward(chat, ClearField(c, m.id[2]))
      \/ HandleConfirm(chat, m) = Says(chat, EditRows)
      \/ HandleConfirm(chat, m) = Says(chat, Summary(c))
      \/ HandleConfirm(chat, m) = Onward(chat, valid)
      \/ HandleConfirm(chat, m) = Asks(chat, "order")
      \/ HandleConfirm(chat, m) = Fumble(chat, Summary(c))
  BY DEF HandleConfirm
<1>3. \A b \in Summary(c) : Hears(b, chat, catalog, placed)
  <2>1. PromptFor(chat.state, chat.cart) = Summary(c)
    BY DEF PromptFor
  <2> QED
    BY <2>1, PromptsRead
<1>4. \A b \in EditRows : Hears(b, chat, catalog, placed)
  BY DEF Hears
<1>5. GoodAnswer(Asks(chat, "order"))
  <2> DEFINE r == Asks(chat, "order")
  <2>1. r.chat = chat /\ r.offers = {} /\ r.heard /\ r.does = "order"
    BY DEF Asks, Says
  <2> HIDE DEF r
  <2> QED
    BY <2>1, InvReads DEF GoodAnswer, r
<1>6. ASSUME m.id \in EditRows PROVE GoodAnswer(Onward(chat, ClearField(c, m.id[2])))
  <2>1. m.id[2] \in EditFields
    BY <1>6 DEF EditRows
  <2>2. GoodCart(ClearField(c, m.id[2])) /\ ~ClearField(c, m.id[2]).resume
    BY <2>1, <1>1, ClearFieldGood
  <2> QED
    BY <2>2, OnGood
<1>7. GoodAnswer(Onward(chat, valid))
  BY <1>1, RevalidatedGood, OnGood
<1>8. GoodAnswer(Says(chat, EditRows)) /\ GoodAnswer(Says(chat, Summary(c))) /\ GoodAnswer(Fumble(chat, Summary(c)))
  BY <1>3, <1>4, KeepGood, FumbleGood
<1> HIDE DEF c, valid
<1> QED
  BY <1>2, <1>5, <1>6, <1>7, <1>8

LEMMA ExpectedGood ==
  ASSUME ChatInv, chat.state = "EXPECTED_PAYMENT", NEW m
  PROVE  GoodAnswer(HandleExpected(chat, m))
<1> DEFINE c == chat.cart
           none == [c EXCEPT !.expected = 0]
           leave == GoTo(chat, none, "AWAIT_PAYMENT")
           buttons == PromptFor("EXPECTED_PAYMENT", c)
           more == [chat EXCEPT !.cart.expected = @ + 1, !.fails = 0]
<1>1. /\ GoodCart(c) /\ c \in CartType /\ ~c.resume /\ GoodChat(chat) /\ chat \in ChatType
      /\ chat.last \in 0..Len(placed) /\ chat.last # 0 /\ c.awaiting = chat.last
      /\ (placed[chat.last].status = "Paid" => chat.last \in untold) /\ c.expected \in Nat
  <2>1. /\ GoodCart(c) /\ c \in CartType /\ ~c.resume /\ GoodChat(chat) /\ chat \in ChatType
        /\ chat.last \in 0..Len(placed) /\ PaidUntold(chat, placed, untold)
    BY InvReads
  <2>2. Awaiting(chat)
    BY DEF Awaiting
  <2> QED
    BY <2>1, <2>2, CartReads DEF GoodChat, PaidUntold
<1>2. \/ HandleExpected(chat, m) = leave
      \/ HandleExpected(chat, m) = [leave EXCEPT !.does = "note"]
      \/ HandleExpected(chat, m) = Says(chat, buttons)
      \/ HandleExpected(chat, m) = Says(more, buttons)
      \/ HandleExpected(chat, m) = Fumble(chat, buttons)
  BY DEF HandleExpected
<1>3. \A b \in buttons : Hears(b, chat, catalog, placed)
  BY PromptsRead
<1>4. GoodAnswer(leave)
  <2> HIDE DEF c
  <2>1. /\ none \in CartType /\ ~none.resume /\ none.trucks = c.trucks /\ none.truckCount = c.truckCount
        /\ none.litres = c.litres /\ none.quantity = c.quantity /\ none.awaiting = c.awaiting
    BY <1>1 DEF CartType
  <2> HIDE DEF none
  <2>2. GoodCart(none)
    BY <1>1, <2>1, SameLoad
  <2> QED
    BY <1>1, <2>1, <2>2, GoToGood DEF States, Building
<1>5. GoodAnswer([leave EXCEPT !.does = "note"])
  <2> DEFINE r == [leave EXCEPT !.does = "note"]
  <2>1. r.chat = leave.chat /\ r.offers = leave.offers /\ r.heard = leave.heard /\ r.does = "note" /\ leave.heard
    BY DEF GoTo, Says
  <2> HIDE DEF r, leave
  <2> QED
    BY <1>4, <2>1 DEF GoodAnswer, r
<1>6. GoodAnswer(Says(more, buttons))
  <2> DEFINE e == [c EXCEPT !.expected = @ + 1]
  <2>0. c.expected + 1 \in Nat /\ 0 \in 0..MaxFailures
    BY <1>1, NumbersType
  <2>1. /\ e \in CartType /\ ~e.resume /\ e.trucks = c.trucks /\ e.truckCount = c.truckCount
        /\ e.litres = c.litres /\ e.quantity = c.quantity /\ e.awaiting = c.awaiting /\ e.type = c.type
    <3> HIDE DEF c
    <3> QED
      BY <1>1, <2>0 DEF CartType
  <2>2. more.cart = e /\ more.state = "EXPECTED_PAYMENT" /\ more.last = chat.last /\ more.fails = 0
        /\ DOMAIN more = DOMAIN chat
    BY <1>1 DEF ChatType
  <2>3. more = [chat EXCEPT !.cart = e, !.fails = 0]
    BY <1>1 DEF ChatType
  <2> HIDE DEF e, c
  <2>4. more \in ChatType
    <3> HIDE DEF more
    <3> QED
      BY <1>1, <2>0, <2>1, <2>3 DEF ChatType
  <2> HIDE DEF more
  <2>5. GoodCart(e)
    BY <1>1, <2>1, SameLoad
  <2>6. GoodChat(more) /\ PaidUntold(more, placed, untold)
    BY <1>1, <2>1, <2>2, <2>4, <2>5 DEF GoodChat, PaidUntold, Building
  <2>7. \A b \in buttons : Hears(b, more, catalog, placed)
    BY <2>2 DEF PromptFor, Hears
  <2> QED
    BY <1>1, <2>2, <2>6, <2>7, SaysGood
<1>7. GoodAnswer(Says(chat, buttons)) /\ GoodAnswer(Fumble(chat, buttons))
  BY <1>3, KeepGood, FumbleGood
<1> HIDE DEF leave, more, buttons
<1> QED
  BY <1>2, <1>4, <1>5, <1>6, <1>7

LEMMA AwaitGood ==
  ASSUME ChatInv, chat.state = "AWAIT_PAYMENT", NEW m
  PROVE  GoodAnswer(HandleAwait(chat, m))
<1>1. \/ HandleAwait(chat, m) = Says(chat, CancelQuestion)
      \/ HandleAwait(chat, m) = Asks(chat, "cancel")
      \/ HandleAwait(chat, m) = Says(chat, PromptFor("AWAIT_PAYMENT", chat.cart))
  BY DEF HandleAwait
<1>2. \A b : Hears(b, chat, catalog, placed)
  BY DEF Hears
<1>3. GoodAnswer(Asks(chat, "cancel"))
  <2> DEFINE r == Asks(chat, "cancel")
  <2>1. r.chat = chat /\ r.offers = {} /\ r.heard /\ r.does = "cancel"
    BY DEF Asks, Says
  <2> HIDE DEF r
  <2> QED
    BY <2>1, InvReads DEF GoodAnswer, r
<1> QED
  BY <1>1, <1>2, <1>3, KeepGood

LEMMA StateGood ==
  ASSUME ChatInv, NEW m
  PROVE  GoodAnswer(HandleState(chat, m))
<1>1. chat.state \in States
  BY InvReads
<1> QED
  BY <1>1, IdentifyGood, MenuGood, DepotGood, ProductGood, QuantityGood, CompanyGood, CollectGood, LogisticsGood,
     ConfirmGood, ExpectedGood, AwaitGood DEF HandleState, States, Building

-----------------------------------------------------------------------------
(* The whole of reduce().                                                   *)
LEMMA WordGood ==
  ASSUME ChatInv, NEW m, IsWord(chat, m)
  PROVE  GoodAnswer(HandleWord(chat, m))
<1>1. \/ HandleWord(chat, m) = Says(chat, {})
      \/ HandleWord(chat, m) = GoTo(chat, chat.cart, "MENU")
      \/ HandleWord(chat, m) = Says(chat, PromptFor(chat.state, chat.cart))
      \/ chat.state \in {"AWAIT_PAYMENT", "EXPECTED_PAYMENT"} /\ HandleWord(chat, m) = Says(chat, CancelQuestion)
      \/ HandleWord(chat, m) = GoTo(chat, EmptyCart, "MENU")
      \/ HandleWord(chat, m) = Says(chat, offered)
      \/ HandleWord(chat, m) = Says([chat EXCEPT !.fails = 0], PromptFor(chat.state, chat.cart))
  BY DEF HandleWord, IsWord
<1>2. \A b \in PromptFor(chat.state, chat.cart) : Hears(b, chat, catalog, placed)
  BY PromptsRead
<1>3. GoodAnswer(GoTo(chat, chat.cart, "MENU")) /\ GoodAnswer(GoTo(chat, EmptyCart, "MENU"))
  BY InvReads, NewCart, GoGood DEF States, Building
<1>4. chat.state \in {"AWAIT_PAYMENT", "EXPECTED_PAYMENT"} => \A b \in CancelQuestion : Hears(b, chat, catalog, placed)
  BY DEF Hears, Deaf
<1>5. GoodAnswer(Says([chat EXCEPT !.fails = 0], PromptFor(chat.state, chat.cart)))
  <2> DEFINE d == [chat EXCEPT !.fails = 0]
  <2>1. GoodChat(chat) /\ chat \in ChatType /\ 0 \in 0..MaxFailures
    BY InvReads, NumbersType
  <2>2. d \in ChatType /\ d.state = chat.state /\ d.cart = chat.cart /\ d.last = chat.last
    BY <2>1 DEF ChatType
  <2> HIDE DEF d
  <2>3. GoodChat(d) /\ PaidUntold(d, placed, untold) /\ d.last \in 0..Len(placed)
    BY <2>1, <2>2, InvReads DEF GoodChat, Awaiting, PaidUntold
  <2>4. \A b \in PromptFor(chat.state, chat.cart) : Hears(b, d, catalog, placed)
    BY <1>2, <2>2, SameHears
  <2>5. GoodAnswer(Says(d, PromptFor(chat.state, chat.cart)))
    BY <2>3, <2>4, SaysGood
  <2> QED
    BY <2>5 DEF d
<1>6. /\ GoodAnswer(Says(chat, {})) /\ GoodAnswer(Says(chat, PromptFor(chat.state, chat.cart)))
      /\ GoodAnswer(Says(chat, offered))
      /\ (chat.state \in {"AWAIT_PAYMENT", "EXPECTED_PAYMENT"} => GoodAnswer(Says(chat, CancelQuestion)))
  BY <1>2, <1>4, OfferedRead, KeepGood
<1> QED
  BY <1>1, <1>3, <1>5, <1>6

LEMMA SilenceGood ==
  ASSUME ChatInv, NEW m
  PROVE  GoodAnswer(HandleSilence(chat, m))
<1> DEFINE c == chat.cart
           parked == [chat EXCEPT !.state = "MENU", !.cart.resume = TRUE]
           back == [c EXCEPT !.resume = FALSE]
           valid == Revalidated(back)
           rows == {<<"resume">>, <<"startover">>}
<1>1. GoodCart(c) /\ c \in CartType /\ GoodChat(chat) /\ chat \in ChatType /\ chat.last \in 0..Len(placed)
  BY InvReads
<1>2. \/ HandleSilence(chat, m) = Says(parked, rows)
      \/ HandleSilence(chat, m) = Onward(chat, valid)
      \/ HandleSilence(chat, m) = GoTo(chat, EmptyCart, "MENU")
      \/ HandleSilence(chat, m) = HandleState(chat, m)
  BY DEF HandleSilence
<1>3. GoodAnswer(Says(parked, rows))
  <2> DEFINE e == [c EXCEPT !.resume = TRUE]
  <2>1. /\ e \in CartType /\ e.resume /\ e.trucks = c.trucks /\ e.truckCount = c.truckCount
        /\ e.litres = c.litres /\ e.quantity = c.quantity
    <3> HIDE DEF c
    <3> QED
      BY <1>1 DEF CartType
  <2>2. parked = [chat EXCEPT !.state = "MENU", !.cart = e]
    BY <1>1 DEF ChatType
  <2> HIDE DEF parked
  <2>3. parked \in ChatType /\ parked.state = "MENU" /\ parked.cart = e /\ parked.last = chat.last
    <3> HIDE DEF e, c
    <3> QED
      BY <1>1, <2>1, <2>2 DEF ChatType, States
  <2> HIDE DEF e, c
  <2>4. GoodCart(e)
    BY <1>1, <2>1, SameLoad
  <2>5. GoodChat(parked) /\ PaidUntold(parked, placed, untold)
    BY <2>3, <2>4 DEF GoodChat, PaidUntold, Building, Awaiting
  <2>6. \A b \in rows : Hears(b, parked, catalog, placed)
    BY <2>1, <2>3 DEF Hears
  <2> HIDE DEF rows
  <2> QED
    BY <1>1, <2>3, <2>5, <2>6, SaysGood
<1>4. GoodAnswer(Onward(chat, valid))
  <2> HIDE DEF c
  <2>1. /\ back \in CartType /\ ~back.resume /\ back.trucks = c.trucks /\ back.truckCount = c.truckCount
        /\ back.litres = c.litres /\ back.quantity = c.quantity
    BY <1>1 DEF CartType
  <2> HIDE DEF back
  <2>2. GoodCart(back)
    BY <1>1, <2>1, SameLoad
  <2>3. GoodCart(valid) /\ ~valid.resume
    BY <2>1, <2>2, RevalidatedGood
  <2> HIDE DEF valid
  <2> QED
    BY <2>3, OnGood
<1>5. GoodAnswer(GoTo(chat, EmptyCart, "MENU"))
  BY NewCart, GoGood DEF States, Building
<1> HIDE DEF parked, rows, valid
<1> QED
  BY <1>2, <1>3, <1>4, <1>5, StateGood

LEMMA ReduceGood ==
  ASSUME ChatInv, NEW m
  PROVE  GoodAnswer(Reduce(chat, m))
<1>1. \/ Reduce(chat, m) = GoTo(chat, EmptyCart, "IDENTIFY")
      \/ Reduce(chat, m) = Says(chat, offered)
      \/ Reduce(chat, m) = Fumble(chat, PromptFor(chat.state, chat.cart))
      \/ IsWord(chat, m) /\ Reduce(chat, m) = HandleWord(chat, m)
      \/ Reduce(chat, m) = HandleSilence(chat, m)
  BY DEF Reduce
<1>2. GoodAnswer(GoTo(chat, EmptyCart, "IDENTIFY"))
  BY NewCart, GoGood DEF States, Building
<1>3. GoodAnswer(Says(chat, offered)) /\ GoodAnswer(Fumble(chat, PromptFor(chat.state, chat.cart)))
  BY OfferedRead, PromptsRead, KeepGood, FumbleGood
<1> QED
  BY <1>1, <1>2, <1>3, WordGood, SilenceGood

-----------------------------------------------------------------------------
(* A button the chat is said to hear is heard.                              *)
LEMMA HeardForms ==
  ASSUME NEW c, NEW bs, NEW cart, NEW s, NEW e
  PROVE  /\ Says(c, bs).heard /\ Asks(c, e).heard /\ GoTo(c, cart, s).heard /\ Onward(c, cart).heard
         /\ [GoTo(c, cart, s) EXCEPT !.does = e].heard
BY DEF Says, Asks, GoTo, Onward

LEMMA StateHears ==
  ASSUME ChatInv, NEW m, m.by = "tap", Hears(m.id, chat, catalog, placed), m.id \notin Words, ~Deaf(m.id, chat),
         ~(chat.cart.resume /\ m.id \in {<<"resume">>, <<"startover">>})
  PROVE  HandleState(chat, m).heard
<1>1. chat.state \in States
  BY InvReads
<1>2. CASE chat.state = "MENU"
  <2>1. LatestOf(chat, placed) = LastOrder
    BY DEF LatestOf, LastOrder
  <2>2. MenuHears(m.id, LastOrder, placed)
    BY <1>2, <2>1 DEF Hears
  <2>3. HandleMenu(chat, m).heard
    BY <2>2, HeardForms DEF HandleMenu, MenuHears
  <2> QED
    BY <1>2, <2>3 DEF HandleState
<1>3. CASE chat.state = "DEPOT"
  <2>1. PICK d \in Depots : m.id = <<"depot", d>> /\ SoldAt(d, catalog)
    BY <1>3 DEF Hears
  <2>2. m.id[1] = "depot" /\ OnOffer(m.id[2])
    BY <2>1 DEF OnOffer, SoldAt
  <2>3. HandleDepot(chat, m).heard
    BY <2>2, HeardForms DEF HandleDepot
  <2> QED
    BY <1>3, <2>3 DEF HandleState
<1>4. CASE chat.state = "PRODUCT"
  <2>1. ASSUME OnOffer(chat.cart.depot)
        PROVE  m.id[1] = "product" /\ <<chat.cart.depot, m.id[2]>> \in catalog
    <3>1. SoldAt(chat.cart.depot, catalog)
      BY <2>1 DEF OnOffer, SoldAt
    <3>2. SoldAt(chat.cart.depot, catalog) =>
            \E p \in Products : m.id = <<"product", p>> /\ <<chat.cart.depot, p>> \in catalog
      BY <1>4 DEF Hears
    <3>3. PICK p \in Products : m.id = <<"product", p>> /\ <<chat.cart.depot, p>> \in catalog
      BY <3>1, <3>2
    <3> QED
      BY <3>3
  <2>2. HandleProduct(chat, m).heard
    BY <2>1, HeardForms DEF HandleProduct
  <2> QED
    BY <1>4, <2>2 DEF HandleState
<1>5. CASE chat.state = "QUANTITY"
  <2>1. ~Sold(chat.cart)
    BY <1>5 DEF Hears, Sold
  <2>2. HandleQuantity(chat, m).heard
    BY <2>1, HeardForms DEF HandleQuantity
  <2> QED
    BY <1>5, <2>2 DEF HandleState
<1>6. CASE chat.state = "COLLECT"
  <2>1. HandleCollect(chat, m).heard
    BY <1>6, HeardForms DEF HandleCollect, Hears
  <2> QED
    BY <1>6, <2>1 DEF HandleState
<1>7. CASE chat.state = "LOGISTICS"
  <2>1. chat.cart.type # "delivery" /\ m.id \in {<<"defer_trucks">>, <<"declare_trucks">>}
    BY <1>7 DEF Hears
  <2>2. HandleLogistics(chat, m).heard
    BY <2>1, HeardForms DEF HandleLogistics
  <2> QED
    BY <1>7, <2>2 DEF HandleState
<1>8. CASE chat.state = "CONFIRM"
  <2>1. m.id[1] = "confirm" \/ m.id = <<"edit">> \/ m.id \in EditRows
    BY <1>8 DEF Hears
  <2>2. HandleConfirm(chat, m).heard
    BY <2>1, HeardForms DEF HandleConfirm
  <2> QED
    BY <1>8, <2>2 DEF HandleState
<1>9. CASE chat.state = "EXPECTED_PAYMENT"
  <2>1. m.id \in {<<"expectdone">>, <<"expectskip">>}
    BY <1>9 DEF Hears
  <2>2. HandleExpected(chat, m).heard
    BY <2>1, HeardForms DEF HandleExpected
  <2> QED
    BY <1>9, <2>2 DEF HandleState
<1>10. CASE chat.state = "AWAIT_PAYMENT"
  <2>1. HandleAwait(chat, m).heard
    BY HeardForms DEF HandleAwait
  <2> QED
    BY <1>10, <2>1 DEF HandleState
<1>11. CASE chat.state \in {"IDENTIFY", "COMPANY"}
  BY <1>11 DEF Hears
<1> QED
  BY <1>1, <1>2, <1>3, <1>4, <1>5, <1>6, <1>7, <1>8, <1>9, <1>10, <1>11 DEF States, Building

LEMMA OfferedIsHeard ==
  ASSUME ChatInv, NEW m, m.by = "tap", m.id \in offered, ~Reduce(chat, m).heard
  PROVE  Deaf(m.id, chat)
<1> SUFFICES ASSUME ~Deaf(m.id, chat) PROVE Reduce(chat, m).heard
  OBVIOUS
<1>1. Hears(m.id, chat, catalog, placed)
  BY OfferedRead
<1>2. m.by # "media"
  OBVIOUS
<1>3. IsWord(chat, m) => HandleWord(chat, m).heard
  BY HeardForms DEF HandleWord, IsWord
<1>4. ASSUME ~IsWord(chat, m) PROVE HandleSilence(chat, m).heard
  <2>1. m.id \notin Words
    BY <1>4 DEF IsWord, Words
  <2>2. CASE chat.cart.resume /\ m.id \in {<<"resume">>, <<"startover">>}
    BY <2>2, HeardForms DEF HandleSilence
  <2>3. CASE ~(chat.cart.resume /\ m.id \in {<<"resume">>, <<"startover">>})
    <3>1. HandleState(chat, m).heard
      BY <1>1, <2>1, <2>3, StateHears
    <3> QED
      BY <2>3, <3>1, HeardForms DEF HandleSilence
  <2> QED
    BY <2>2, <2>3
<1> QED
  BY <1>2, <1>3, <1>4, HeardForms DEF Reduce

-----------------------------------------------------------------------------
(* Turns keep the invariant.                                                *)
LEMMA SettledInv ==
  ASSUME ChatInv, NEW c, chat' = c, GoodChat(c), placed' \in Seq(PlacedType), catalog' \subseteq Depots \X Products,
         c.last \in 0..Len(placed'), untold' \subseteq DOMAIN placed', PaidUntold(c, placed', untold'),
         \A b \in offered' : Hears(b, c, catalog', placed')
  PROVE  ChatInv'
BY DEF ChatInv

LEMMA AnswerInv ==
  ASSUME ChatInv, NEW r, GoodAnswer(r), chat' = r.chat, offered' = r.offers,
         UNCHANGED <<catalog, placed, untold>>
  PROVE  ChatInv'
<1>1. /\ GoodChat(r.chat) /\ r.chat.last \in 0..Len(placed) /\ PaidUntold(r.chat, placed, untold)
      /\ \A b \in r.offers : Hears(b, r.chat, catalog, placed)
  BY DEF GoodAnswer
<1>2. placed' = placed /\ untold' = untold /\ catalog' = catalog
  OBVIOUS
<1>3. placed \in Seq(PlacedType) /\ catalog \subseteq Depots \X Products /\ untold \subseteq DOMAIN placed
  BY DEF ChatInv
<1> QED
  BY <1>1, <1>2, <1>3, SettledInv

LEMMA ChatStarts ==
  ASSUME InitChat
  PROVE  ChatInv /\ unheard = {}
<1>1. GoodCart(EmptyCart) /\ EmptyCart \in CartType /\ ~EmptyCart.resume
  BY NewCart DEF GoodCart
<1>2. chat \in ChatType /\ chat.state = "MENU" /\ chat.cart = EmptyCart /\ chat.last = 0
  <2>1. 0 \in 0..MaxFailures /\ 0 \in Nat /\ "MENU" \in States
    BY NumbersType DEF States
  <2> QED
    BY <1>1, <2>1 DEF InitChat, FreshChat, ChatType
<1>3. GoodChat(chat)
  BY <1>1, <1>2 DEF GoodChat, Awaiting, Building
<1>4. placed = <<>> /\ catalog = Depots \X Products /\ untold = {} /\ offered = {} /\ unheard = {}
  BY DEF InitChat
<1>5. placed \in Seq(PlacedType) /\ Len(placed) = 0
  BY <1>4
<1>6. PaidUntold(chat, placed, untold)
  BY <1>2 DEF PaidUntold, Awaiting
<1> QED
  BY <1>2, <1>3, <1>4, <1>5, <1>6 DEF ChatInv

(* The order is placed, and its payment awaited.                            *)
LEMMA AwaitInv ==
  ASSUME ChatInv, NEW c, GoodChat(c), NEW o \in Nat, o \in 1..Len(placed'), placed' \in Seq(PlacedType),
         Len(placed) <= Len(placed'), placed'[o].status = "Pending", UNCHANGED <<catalog, untold>>,
         Settle([c EXCEPT !.state = "EXPECTED_PAYMENT", !.last = o, !.fails = 0,
                          !.cart = [EmptyCart EXCEPT !.awaiting = o]],
                {<<"cancelorder">>, <<"expectdone">>, <<"expectskip">>})
  PROVE  ChatInv'
<1> DEFINE e == [EmptyCart EXCEPT !.awaiting = o]
           d == [c EXCEPT !.state = "EXPECTED_PAYMENT", !.last = o, !.fails = 0, !.cart = e]
           bs == {<<"cancelorder">>, <<"expectdone">>, <<"expectskip">>}
<1>1. c \in ChatType /\ 0 \in 0..MaxFailures /\ "EXPECTED_PAYMENT" \in States
  BY ChatReads, NumbersType DEF States
<1>2. EmptyCart \in CartType /\ EmptyCart.resume = FALSE
  BY NewCart DEF GoodCart
<1>3. e \in CartType /\ e.resume = FALSE /\ e.awaiting = o
  BY <1>2 DEF CartType
<1>4. e.trucks = <<>> /\ e.truckCount = 0 /\ e.litres = 0
  BY DEF EmptyCart
<1>5. chat' = d /\ offered' = bs
  BY DEF Settle
<1> HIDE DEF e
<1>6. d \in ChatType /\ d.state = "EXPECTED_PAYMENT" /\ d.cart = e /\ d.last = o
  BY <1>1, <1>3 DEF ChatType
<1>7. GoodCart(e)
  BY <1>3, <1>4, Unloaded
<1> HIDE DEF d
<1>8. GoodChat(d) /\ PaidUntold(d, placed', untold')
  BY <1>3, <1>6, <1>7 DEF GoodChat, Awaiting, Building, PaidUntold
<1>9. \A b \in bs : Hears(b, d, catalog', placed')
  BY <1>6 DEF Hears, Deaf
<1> HIDE DEF bs
<1>10. catalog' \subseteq Depots \X Products /\ untold' \subseteq DOMAIN placed'
  <2>1. Len(placed) \in Nat /\ DOMAIN placed = 1..Len(placed) /\ Len(placed') \in Nat /\ DOMAIN placed' = 1..Len(placed')
    BY DEF ChatInv
  <2>2. DOMAIN placed \subseteq DOMAIN placed'
    BY <2>1
  <2>3. catalog \subseteq Depots \X Products /\ untold \subseteq DOMAIN placed
    BY DEF ChatInv
  <2> QED
    BY <2>2, <2>3
<1>11. d.last \in 0..Len(placed')
  BY <1>6
<1> QED
  BY <1>5, <1>8, <1>9, <1>10, <1>11, SettledInv

(* A chat that goes back to the menu and offers nothing.                    *)
LEMMA MenuChat ==
  ASSUME NEW c \in ChatType, NEW d \in ChatType, d.state = "MENU", d.cart = EmptyCart, NEW P, NEW U
  PROVE  GoodChat(d) /\ PaidUntold(d, P, U)
BY NewCart DEF GoodChat, Awaiting, Building, PaidUntold

LEMMA PlaceInv ==
  ASSUME ChatInv, NEW c, GoodChat(c), c.state = "CONFIRM", c.last \in 0..Len(placed), PlaceOrder(c),
         UNCHANGED <<catalog, untold>>
  PROVE  ChatInv'
<1> DEFINE cart == c.cart
           n == [status |-> "Pending", depot |-> cart.depot, product |-> cart.product,
                 quantity |-> cart.quantity, type |-> cart.type]
           AwaitOf(o) == Settle([c EXCEPT !.state = "EXPECTED_PAYMENT", !.last = o, !.fails = 0,
                                          !.cart = [EmptyCart EXCEPT !.awaiting = o]],
                                {<<"cancelorder">>, <<"expectdone">>, <<"expectskip">>})
           back == GoTo(c, ClearDepot(cart), "DEPOT")
           asked == Says(c, Summary(cart))
<1>1. /\ c \in ChatType /\ cart \in CartType /\ GoodCart(cart) /\ ~cart.resume /\ NextStep(cart) = "CONFIRM"
      /\ placed \in Seq(PlacedType) /\ Len(placed) \in Nat
  <2>1. c \in ChatType /\ cart \in CartType /\ GoodCart(cart) /\ cart.resume \in BOOLEAN
    BY ChatReads
  <2>2. (cart.resume => c.state = "MENU") /\ (c.state \in Building => c.state = NextStep(cart))
    BY DEF GoodChat
  <2> QED
    BY <2>1, <2>2 DEF Building, ChatInv
<1>2. \/ placed' = Append(placed, n) /\ AwaitOf(Len(placed) + 1)
      \/ \E o \in DOMAIN placed :
           /\ placed[o].status # "Closed" /\ placed' = placed
           /\ \/ /\ placed[o].status = "Paid"
                 /\ Settle([c EXCEPT !.state = "MENU", !.cart = EmptyCart, !.last = o, !.fails = 0], {})
              \/ placed[o].status # "Paid" /\ AwaitOf(o)
      \/ Settle(back.chat, back.offers) /\ placed' = placed
      \/ Settle(c, Summary(cart)) /\ placed' = placed
  BY Zenon DEF PlaceOrder
<1>3. CASE placed' = Append(placed, n) /\ AwaitOf(Len(placed) + 1)
  <2>1. cart.quantity \in Quantities
    BY <1>1, CartReads DEF NextStep
  <2>2. cart.depot \in Depots \cup {NoItem} /\ cart.product \in Products \cup {NoItem} /\ cart.type \in Types
    BY <1>1, CartReads
  <2> HIDE DEF cart
  <2>3. n \in PlacedType /\ n.status = "Pending"
    BY <2>1, <2>2 DEF PlacedType
  <2> HIDE DEF n
  <2>4. placed' \in Seq(PlacedType) /\ Len(placed') = Len(placed) + 1 /\ placed'[Len(placed) + 1] = n
    BY <1>1, <1>3, <2>3
  <2>5. Len(placed) + 1 \in Nat /\ Len(placed) + 1 \in 1..Len(placed') /\ Len(placed) <= Len(placed')
    BY <1>1, <2>4
  <2> QED
    BY <1>3, <2>3, <2>4, <2>5, AwaitInv
<1>4. ASSUME NEW o \in DOMAIN placed, placed[o].status # "Closed", placed' = placed,
             \/ /\ placed[o].status = "Paid"
                /\ Settle([c EXCEPT !.state = "MENU", !.cart = EmptyCart, !.last = o, !.fails = 0], {})
             \/ placed[o].status # "Paid" /\ AwaitOf(o)
      PROVE  ChatInv'
  <2>1. o \in 1..Len(placed) /\ o \in Nat /\ placed[o] \in PlacedType
    BY <1>1
  <2>2. CASE placed[o].status # "Paid" /\ AwaitOf(o)
    <3>1. placed[o].status = "Pending"
      BY <1>4, <2>1, <2>2 DEF PlacedType
    <3>2. /\ o \in 1..Len(placed') /\ placed'[o].status = "Pending" /\ placed' \in Seq(PlacedType)
          /\ Len(placed) <= Len(placed') /\ o \in Nat
      BY <1>1, <1>4, <2>1, <3>1
    <3> QED
      BY <2>2, <3>2, AwaitInv
  <2>3. CASE Settle([c EXCEPT !.state = "MENU", !.cart = EmptyCart, !.last = o, !.fails = 0], {})
    <3> DEFINE d == [c EXCEPT !.state = "MENU", !.cart = EmptyCart, !.last = o, !.fails = 0]
    <3>1. EmptyCart \in CartType /\ 0 \in 0..MaxFailures /\ "MENU" \in States
      BY NewCart, NumbersType DEF GoodCart, States
    <3>2. d \in ChatType /\ d.state = "MENU" /\ d.cart = EmptyCart /\ d.last = o
      BY <1>1, <2>1, <3>1 DEF ChatType
    <3>3. chat' = d /\ offered' = {}
      BY <2>3 DEF Settle
    <3> HIDE DEF d
    <3>4. GoodChat(d) /\ PaidUntold(d, placed', untold')
      BY <1>1, <3>2, MenuChat
    <3>5. d.last \in 0..Len(placed')
      BY <1>4, <2>1, <3>2
    <3>6. placed' \in Seq(PlacedType) /\ catalog' \subseteq Depots \X Products /\ untold' \subseteq DOMAIN placed'
      BY <1>4 DEF ChatInv
    <3> QED
      BY <3>3, <3>4, <3>5, <3>6, SettledInv
  <2> QED
    BY <1>4, <2>2, <2>3
<1>5. CASE Settle(back.chat, back.offers) /\ placed' = placed
  <2>1. GoodCart(ClearDepot(cart)) /\ ~ClearDepot(cart).resume /\ NextStep(ClearDepot(cart)) = "DEPOT"
    BY <1>1, ClearDepotGood
  <2>2. GoodAnswer(back)
    BY <1>1, <2>1, GoToGood DEF States, Building
  <2> HIDE DEF back
  <2> QED
    BY <1>5, <2>2, AnswerInv DEF Settle
<1>6. CASE Settle(c, Summary(cart)) /\ placed' = placed
  <2>1. PromptFor(c.state, c.cart) = Summary(cart) /\ c.state \in States
    BY ChatReads DEF PromptFor
  <2>2. \A b \in Summary(cart) : Hears(b, c, catalog, placed)
    BY <2>1, PromptRead
  <2>3. PaidUntold(c, placed, untold)
    BY DEF PaidUntold, Awaiting
  <2>4. GoodAnswer(asked)
    BY <2>2, <2>3, SaysGood
  <2>5. asked.chat = c /\ asked.offers = Summary(cart)
    BY DEF Says
  <2> HIDE DEF asked
  <2> QED
    BY <1>6, <2>4, <2>5, AnswerInv DEF Settle
<1> HIDE DEF back, asked, n, AwaitOf
<1> QED
  BY <1>2, <1>3, <1>4, <1>5, <1>6

LEMMA MenuRowsReadNext ==
  ASSUME NEW b \in MenuRows'
  PROVE  b \in Words \/ MenuHears(b, LatestOf(chat', placed'), placed')
<1>1. LatestOf(chat', placed') = LastOrder'
  BY DEF LatestOf, LastOrder
<1>2. CASE catalog' = {}
  BY <1>2 DEF MenuRows, Words
<1>3. CASE catalog' # {}
  <2>1. b \in {<<"order">>, <<"prices">>} \/ (LastOrder' # 0 /\ (b = <<"track">> \/ b = LastRow'))
    BY <1>3 DEF MenuRows
  <2> QED
    BY <2>1, <1>1 DEF LastRow, MenuHears, Words
<1> QED
  BY <1>2, <1>3

(* Closing or paying an order changes its status only.                      *)
LEMMA StatusChange ==
  ASSUME ChatInv, NEW o, o \in DOMAIN placed, NEW s \in {"Pending", "Paid", "Closed"},
         placed' = [placed EXCEPT ![o].status = s]
  PROVE  /\ placed' \in Seq(PlacedType) /\ Len(placed') = Len(placed) /\ DOMAIN placed' = DOMAIN placed
         /\ placed'[o].status = s /\ \A x \in DOMAIN placed : x # o => placed'[x] = placed[x]
<1>1. placed \in Seq(PlacedType) /\ o \in 1..Len(placed) /\ placed[o] \in PlacedType
  BY DEF ChatInv
<1> DEFINE e == [placed[o] EXCEPT !.status = s]
<1>2. e \in PlacedType /\ e.status = s
  BY <1>1 DEF PlacedType
<1>3. placed' = [placed EXCEPT ![o] = e]
  OBVIOUS
<1> HIDE DEF e
<1> QED
  BY <1>1, <1>2, <1>3

LEMMA CancelInv ==
  ASSUME ChatInv, NEW c, GoodChat(c), c.state = "AWAIT_PAYMENT", c.last \in 0..Len(placed),
         PaidUntold(c, placed, untold), CancelOrder(c), UNCHANGED <<catalog, untold>>
  PROVE  ChatInv'
<1> DEFINE menu == GoTo(c, EmptyCart, "MENU")
           asked == Says(c, PromptFor(c.state, c.cart))
<1>1. c \in ChatType /\ c.state \in States /\ c.last # 0 /\ Len(placed) \in Nat /\ placed \in Seq(PlacedType)
  BY ChatReads DEF GoodChat, Awaiting, ChatInv
<1>2. \/ Settle(c, PromptFor(c.state, c.cart)) /\ placed' = placed
      \/ /\ placed' = [placed EXCEPT ![c.last].status = "Closed"]
         /\ Settle(menu.chat, MenuRows')
  BY DEF CancelOrder
<1>3. CASE Settle(c, PromptFor(c.state, c.cart)) /\ placed' = placed
  <2>1. \A b \in PromptFor(c.state, c.cart) : Hears(b, c, catalog, placed)
    BY <1>1, PromptRead
  <2>2. GoodAnswer(asked)
    BY <2>1, SaysGood
  <2>3. asked.chat = c /\ asked.offers = PromptFor(c.state, c.cart)
    BY DEF Says
  <2> HIDE DEF asked
  <2> QED
    BY <1>3, <2>2, <2>3, AnswerInv DEF Settle
<1>4. CASE placed' = [placed EXCEPT ![c.last].status = "Closed"] /\ Settle(menu.chat, MenuRows')
  <2>1. EmptyCart \in CartType /\ "MENU" \in States
    BY NewCart DEF GoodCart, States
  <2>2. menu.chat \in ChatType /\ menu.chat.state = "MENU" /\ menu.chat.cart = EmptyCart /\ menu.chat.last = c.last
    BY <1>1, <2>1, GoToReads
  <2>3. chat' = menu.chat /\ offered' = MenuRows'
    BY <1>4 DEF Settle
  <2> HIDE DEF menu
  <2>4. GoodChat(menu.chat) /\ PaidUntold(menu.chat, placed', untold')
    BY <1>1, <2>2, MenuChat
  <2>5. placed' \in Seq(PlacedType) /\ Len(placed') = Len(placed) /\ DOMAIN placed' = DOMAIN placed
    <3>1. c.last \in DOMAIN placed
      BY <1>1
    <3> QED
      BY <3>1, <1>4, StatusChange
  <2>6. ASSUME NEW b \in offered' PROVE Hears(b, menu.chat, catalog', placed')
    <3>1. b \in Words \/ MenuHears(b, LatestOf(menu.chat, placed'), placed')
      BY <2>3, MenuRowsReadNext
    <3>2. CASE b \in Words
      BY <3>2 DEF Hears
    <3>3. CASE MenuHears(b, LatestOf(menu.chat, placed'), placed')
      BY <3>3, <2>2, Zenon DEF Hears
    <3> QED
      BY <3>1, <3>2, <3>3
  <2>7. catalog' \subseteq Depots \X Products /\ untold' \subseteq DOMAIN placed' /\ menu.chat.last \in 0..Len(placed')
    BY <2>2, <2>5 DEF ChatInv
  <2> QED
    BY <2>3, <2>4, <2>5, <2>6, <2>7, SettledInv
<1> QED
  BY <1>2, <1>3, <1>4

(* The customer has a name now, and the menu.                               *)
LEMMA JoinInv ==
  ASSUME ChatInv, NEW c, GoodChat(c), c.last = chat.last,
         Settle([c EXCEPT !.state = "MENU", !.cart = EmptyCart, !.fails = 0], MenuRows),
         UNCHANGED <<catalog, untold, placed>>
  PROVE  ChatInv'
<1> DEFINE d == [c EXCEPT !.state = "MENU", !.cart = EmptyCart, !.fails = 0]
<1>1. c \in ChatType /\ EmptyCart \in CartType /\ 0 \in 0..MaxFailures /\ "MENU" \in States
  BY ChatReads, NewCart, NumbersType DEF GoodCart, States
<1>2. d \in ChatType /\ d.state = "MENU" /\ d.cart = EmptyCart /\ d.last = c.last
  BY <1>1 DEF ChatType
<1>3. chat' = d /\ offered' = MenuRows
  BY DEF Settle
<1> HIDE DEF d
<1>4. GoodChat(d) /\ PaidUntold(d, placed', untold')
  BY <1>1, <1>2, MenuChat
<1>5. ASSUME NEW b \in MenuRows PROVE Hears(b, d, catalog, placed)
  <2>1. LatestOf(d, placed) = LatestOf(chat, placed)
    BY <1>2 DEF LatestOf
  <2>2. b \in Words \/ MenuHears(b, LatestOf(d, placed), placed)
    BY <2>1, MenuRowsRead
  <2>3. CASE b \in Words
    BY <2>3 DEF Hears
  <2>4. CASE MenuHears(b, LatestOf(d, placed), placed)
    BY <2>4, <1>2, Zenon DEF Hears
  <2> QED
    BY <2>2, <2>3, <2>4
<1>6. /\ placed' = placed /\ catalog' = catalog /\ untold' = untold /\ placed \in Seq(PlacedType)
      /\ catalog \subseteq Depots \X Products /\ untold \subseteq DOMAIN placed /\ chat.last \in 0..Len(placed)
  BY DEF ChatInv
<1> QED
  BY <1>2, <1>3, <1>4, <1>5, <1>6, SettledInv

(* A turn.                                                                  *)
LEMMA TurnReads ==
  ASSUME NEW m, TakeTurn(m)
  PROVE  LET r == Reduce(chat, m) IN
           /\ UNCHANGED <<catalog, notes, untold>>
           /\ unheard' = IF m.by = "tap" /\ m.id \in offered /\ ~r.heard THEN {m.id} ELSE {}
           /\ \/ r.does = "order" /\ PlaceOrder(r.chat)
              \/ r.does = "cancel" /\ CancelOrder(r.chat)
              \/ /\ r.does = "join" /\ UNCHANGED placed
                 /\ Settle([r.chat EXCEPT !.state = "MENU", !.cart = EmptyCart, !.fails = 0], MenuRows)
              \/ /\ r.does \notin {"order", "cancel", "join"} /\ UNCHANGED placed
                 /\ Settle(r.chat, r.offers)
BY DEF TakeTurn

LEMMA TurnInv ==
  ASSUME ChatInv, NEW m, TakeTurn(m)
  PROVE  ChatInv' /\ TapsAreHeard'
<1> DEFINE r == Reduce(chat, m)
<1>1. GoodAnswer(r)
  BY ReduceGood
<1>2. /\ UNCHANGED <<catalog, notes, untold>>
      /\ unheard' = IF m.by = "tap" /\ m.id \in offered /\ ~r.heard THEN {m.id} ELSE {}
      /\ \/ r.does = "order" /\ PlaceOrder(r.chat)
         \/ r.does = "cancel" /\ CancelOrder(r.chat)
         \/ /\ r.does = "join" /\ UNCHANGED placed
            /\ Settle([r.chat EXCEPT !.state = "MENU", !.cart = EmptyCart, !.fails = 0], MenuRows)
         \/ /\ r.does \notin {"order", "cancel", "join"} /\ UNCHANGED placed
            /\ Settle(r.chat, r.offers)
  BY TurnReads
<1>3. m.by = "tap" /\ m.id \in offered /\ ~r.heard => Deaf(m.id, chat)
  BY OfferedIsHeard
<1> HIDE DEF r
<1>4. /\ GoodChat(r.chat) /\ r.chat.last \in 0..Len(placed) /\ PaidUntold(r.chat, placed, untold)
      /\ (r.does = "order" => r.chat.state = "CONFIRM") /\ (r.does = "cancel" => r.chat.state = "AWAIT_PAYMENT")
      /\ (r.does = "join" => r.chat.last = chat.last)
      /\ (r.heard \/ (r.chat.state = chat.state /\ r.does = "nothing"))
  BY <1>1 DEF GoodAnswer
<1>5. ChatInv'
  <2>1. CASE r.does = "order" /\ PlaceOrder(r.chat)
    BY <1>2, <1>4, <2>1, PlaceInv
  <2>2. CASE r.does = "cancel" /\ CancelOrder(r.chat)
    BY <1>2, <1>4, <2>2, CancelInv
  <2>3. CASE /\ r.does = "join" /\ UNCHANGED placed
             /\ Settle([r.chat EXCEPT !.state = "MENU", !.cart = EmptyCart, !.fails = 0], MenuRows)
    BY <1>2, <1>4, <2>3, JoinInv
  <2>4. CASE UNCHANGED placed /\ Settle(r.chat, r.offers)
    BY <1>1, <1>2, <2>4, AnswerInv DEF Settle
  <2> QED
    BY <1>2, <2>1, <2>2, <2>3, <2>4
<1>6. ASSUME NEW b \in unheard'
      PROVE  \/ chat'.state = "EXPECTED_PAYMENT" /\ b \in CancelQuestion \cup {<<"cancelorder">>}
             \/ chat'.state = "CONFIRM" /\ b[1] = "depot"
  <2>1. ~r.heard /\ b = m.id /\ Deaf(b, chat)
    BY <1>2, <1>3
  <2>2. r.does = "nothing" /\ r.chat.state = chat.state
    BY <1>4, <2>1
  <2>3. chat' = r.chat
    BY <1>2, <2>2 DEF Settle
  <2> QED
    BY <2>1, <2>2, <2>3 DEF Deaf
<1> QED
  BY <1>5, <1>6 DEF TapsAreHeard

(* What happens around the chat keeps the invariant, and offers nothing.    *)
LEMMA AroundInv ==
  ASSUME ChatInv, offered' = {}, chat' = chat, placed' \in Seq(PlacedType), catalog' \subseteq Depots \X Products,
         Len(placed') = Len(placed), untold' \subseteq DOMAIN placed', PaidUntold(chat, placed', untold')
  PROVE  ChatInv'
BY InvReads, SettledInv

LEMMA ToldInv ==
  ASSUME ChatInv, NEW o, Told(o)
  PROVE  ChatInv'
<1> DEFINE d == Leaves(chat)
<1>1. chat \in ChatType /\ EmptyCart \in CartType /\ 0 \in 0..MaxFailures /\ "MENU" \in States
      /\ chat.last \in 0..Len(placed)
  BY InvReads, NewCart, NumbersType DEF GoodCart, States
<1>2. d \in ChatType /\ d.state = "MENU" /\ d.cart = EmptyCart /\ d.last = chat.last
  BY <1>1 DEF ChatType, Leaves
<1>3. chat' = d /\ offered' = {} /\ untold' \subseteq untold /\ catalog' = catalog /\ placed' = placed
  BY DEF Told, Settle
<1> HIDE DEF d
<1>4. GoodChat(d) /\ PaidUntold(d, placed', untold')
  BY <1>1, <1>2, MenuChat
<1>5. placed \in Seq(PlacedType) /\ catalog \subseteq Depots \X Products /\ untold \subseteq DOMAIN placed
  BY DEF ChatInv
<1> QED
  BY <1>1, <1>2, <1>3, <1>4, <1>5, SettledInv

LEMMA PayInv ==
  ASSUME ChatInv, NEW o \in DOMAIN placed, NEW all \in BOOLEAN, NEW notice \in BOOLEAN, Pay(o, all, notice)
  PROVE  ChatInv'
<1>1. placed \in Seq(PlacedType) /\ catalog \subseteq Depots \X Products /\ untold \subseteq DOMAIN placed
      /\ PaidUntold(chat, placed, untold)
  BY DEF ChatInv
<1>2. chat' = chat /\ catalog' = catalog /\ offered' = {}
  BY DEF Pay, Outside
<1>3. CASE all
  <2>1. placed' = [placed EXCEPT ![o].status = "Paid"] /\ untold' = untold \cup {o}
    BY <1>3 DEF Pay
  <2>2. /\ placed' \in Seq(PlacedType) /\ Len(placed') = Len(placed) /\ DOMAIN placed' = DOMAIN placed
        /\ \A x \in DOMAIN placed : x # o => placed'[x] = placed[x]
    BY <2>1, StatusChange
  <2>3. PaidUntold(chat, placed', untold')
    <3>1. Awaiting(chat) => chat.last \in DOMAIN placed
      BY <1>1, InvReads DEF GoodChat
    <3> QED
      BY <1>1, <2>1, <2>2, <3>1 DEF PaidUntold
  <2> QED
    BY <1>1, <1>2, <2>1, <2>2, <2>3, AroundInv
<1>4. CASE ~all
  <2>1. placed' = placed /\ untold' = untold
    BY <1>4 DEF Pay
  <2> QED
    BY <1>1, <1>2, <2>1, AroundInv
<1> QED
  BY <1>3, <1>4

LEMMA CloseInv ==
  ASSUME ChatInv, NEW o \in DOMAIN placed, CloseOrder(o)
  PROVE  ChatInv'
<1>1. placed \in Seq(PlacedType) /\ catalog \subseteq Depots \X Products /\ untold \subseteq DOMAIN placed
      /\ PaidUntold(chat, placed, untold)
  BY DEF ChatInv
<1>2. /\ chat' = chat /\ catalog' = catalog /\ offered' = {} /\ untold' = untold
      /\ placed' = [placed EXCEPT ![o].status = "Closed"]
  BY DEF CloseOrder, Outside
<1>3. /\ placed' \in Seq(PlacedType) /\ Len(placed') = Len(placed) /\ DOMAIN placed' = DOMAIN placed
      /\ placed'[o].status = "Closed" /\ \A x \in DOMAIN placed : x # o => placed'[x] = placed[x]
  BY <1>2, StatusChange
<1>4. PaidUntold(chat, placed', untold')
  <2>1. Awaiting(chat) => chat.last \in DOMAIN placed
    BY <1>1, InvReads DEF GoodChat
  <2> QED
    BY <1>1, <1>2, <1>3, <2>1 DEF PaidUntold
<1> QED
  BY <1>1, <1>2, <1>3, <1>4, AroundInv

LEMMA SweepInv ==
  ASSUME ChatInv, SweepExpired
  PROVE  ChatInv'
<1>1. 0 \in 0..MaxFailures /\ EmptyCart \in CartType /\ "MENU" \in States /\ 0 \in Nat
  BY NewCart, NumbersType DEF GoodCart, States
<1>2. FreshChat \in ChatType /\ FreshChat.state = "MENU" /\ FreshChat.cart = EmptyCart /\ FreshChat.last = 0
  BY <1>1 DEF FreshChat, ChatType
<1>3. GoodChat(FreshChat) /\ PaidUntold(FreshChat, placed', untold')
  BY <1>2, MenuChat
<1>4. chat' = FreshChat /\ offered' = {} /\ catalog' = catalog /\ placed' = placed /\ untold' = untold
  BY DEF SweepExpired, Outside
<1>5. placed \in Seq(PlacedType) /\ catalog \subseteq Depots \X Products /\ untold \subseteq DOMAIN placed
      /\ Len(placed) \in Nat
  BY DEF ChatInv
<1> QED
  BY <1>2, <1>3, <1>4, <1>5, SettledInv

LEMMA ChatKeeps ==
  ASSUME ChatInv, NextChat
  PROVE  ChatInv' /\ TapsAreHeard'
<1>1. ASSUME NEW m \in Messages, TakeTurn(m) PROVE ChatInv' /\ TapsAreHeard'
  BY <1>1, TurnInv
<1>2. ASSUME NEW o \in DOMAIN placed, Told(o) PROVE ChatInv' /\ TapsAreHeard'
  BY <1>2, ToldInv DEF Told, TapsAreHeard
<1>3. ASSUME NEW o \in DOMAIN placed, CloseOrder(o) PROVE ChatInv' /\ TapsAreHeard'
  BY <1>3, CloseInv DEF CloseOrder, Outside, TapsAreHeard
<1>4. ASSUME NEW o \in DOMAIN placed, NEW all \in BOOLEAN, NEW notice \in BOOLEAN, Pay(o, all, notice)
      PROVE  ChatInv' /\ TapsAreHeard'
  BY <1>4, PayInv DEF Pay, Outside, TapsAreHeard
<1>5. CASE FallIdle \/ Reprice \/ ChangeAccount
  <2>1. chat' = chat /\ placed' = placed /\ untold' = untold /\ offered' = {} /\ unheard' = {}
        /\ (catalog' = catalog \/ catalog' \subseteq Depots \X Products)
    BY <1>5 DEF FallIdle, Reprice, ChangeAccount, Outside
  <2>2. placed \in Seq(PlacedType) /\ catalog \subseteq Depots \X Products /\ untold \subseteq DOMAIN placed
        /\ PaidUntold(chat, placed, untold)
    BY DEF ChatInv
  <2> QED
    BY <2>1, <2>2, AroundInv DEF TapsAreHeard
<1>6. CASE SweepExpired
  BY <1>6, SweepInv DEF SweepExpired, Outside, TapsAreHeard
<1> QED
  BY <1>1, <1>2, <1>3, <1>4, <1>5, <1>6 DEF NextChat

LEMMA ChatStutters ==
  ASSUME ChatInv, TapsAreHeard, UNCHANGED chatVars
  PROVE  ChatInv' /\ TapsAreHeard'
BY DEF ChatInv, TapsAreHeard, chatVars

LEMMA ChatInvIsKept == SpecChat => [](ChatInv /\ TapsAreHeard)
<1>1. InitChat => ChatInv /\ TapsAreHeard
  BY ChatStarts DEF TapsAreHeard
<1>2. ChatInv /\ TapsAreHeard /\ [NextChat]_chatVars => (ChatInv /\ TapsAreHeard)'
  BY ChatKeeps, ChatStutters
<1> QED
  BY <1>1, <1>2, PTL DEF SpecChat

LEMMA InvHolds == ChatInv => ChatHolds
<1> SUFFICES ASSUME ChatInv PROVE ChatHolds
  OBVIOUS
<1>1. chat \in ChatType /\ GoodChat(chat) /\ GoodCart(chat.cart)
  BY InvReads
<1>2. ChatTypes
  <2>1. chat.state \in States /\ chat.fails \in 0..MaxFailures
    BY <1>1 DEF ChatType
  <2> QED
    BY <2>1 DEF ChatInv, ChatTypes
<1>3. chat.cart.quantity > 0 => TrucksAddUp(chat.cart)
  BY <1>1, GoodAddsUp
<1> QED
  BY <1>1, <1>2, <1>3 DEF GoodChat, Awaiting, ChatHolds

(* However a cart comes about, the chat asks its first open question, its   *)
(* trucks can be loaded with its litres, and the payment awaited is that of *)
(* the order a cancellation would reach.                                    *)
THEOREM ChatsHold == SpecChat => []ChatHolds
BY ChatInvIsKept, InvHolds, PTL

(* Every button of an answer, tapped before anything it was based on has    *)
(* changed, is understood, but for the exceptions TapsAreHeard names.       *)
THEOREM TapsGetHeard == SpecChat => []TapsAreHeard
BY ChatInvIsKept, PTL

(* A turn closes no order but the one whose payment is awaited.             *)
LEMMA TurnCancels ==
  ASSUME ChatInv, NEW m, TakeTurn(m), NEW o \in DOMAIN placed, placed[o].status = "Paid",
         placed'[o].status = "Closed"
  PROVE  o \in untold
<1> DEFINE r == Reduce(chat, m)
<1>1. GoodAnswer(r)
  BY ReduceGood
<1>2. \/ r.does = "order" /\ PlaceOrder(r.chat)
      \/ r.does = "cancel" /\ CancelOrder(r.chat)
      \/ UNCHANGED placed
  BY TurnReads, Zenon
<1> HIDE DEF r
<1>3. placed \in Seq(PlacedType) /\ o \in 1..Len(placed) /\ Len(placed) \in Nat
  BY DEF ChatInv
<1>4. CASE PlaceOrder(r.chat)
  <2>1. placed' = placed \/ \E x : placed' = Append(placed, x)
    BY <1>4, Zenon DEF PlaceOrder
  <2>2. placed'[o] = placed[o]
    BY <1>3, <2>1
  <2> QED
    BY <2>2
<1>5. CASE r.does = "cancel" /\ CancelOrder(r.chat)
  <2>1. r.chat.state = "AWAIT_PAYMENT" /\ PaidUntold(r.chat, placed, untold) /\ r.chat.last \in 0..Len(placed)
        /\ GoodChat(r.chat)
    BY <1>1, <1>5 DEF GoodAnswer
  <2>2. placed' = placed \/ placed' = [placed EXCEPT ![r.chat.last].status = "Closed"]
    BY <1>5 DEF CancelOrder
  <2>3. r.chat.last # 0 /\ r.chat.last \in DOMAIN placed
    BY <1>3, <2>1 DEF GoodChat, Awaiting
  <2>4. CASE o = r.chat.last
    BY <2>1, <2>4 DEF PaidUntold, Awaiting
  <2>5. CASE o # r.chat.last
    <3>1. placed'[o] = placed[o]
      BY <1>3, <2>2, <2>5
    <3> QED
      BY <3>1
  <2> QED
    BY <2>4, <2>5
<1> QED
  BY <1>2, <1>4, <1>5

(* The chat cancels a paid order only while it has not been told of the     *)
(* payment: the order it awaits is paid only unbeknown to it.               *)
THEOREM CancelsAreUntold == SpecChat => CancelsPaidOnlyUntold
<1> DEFINE Untold == \A o \in DOMAIN placed :
                       placed[o].status = "Paid" /\ chat' # chat /\ placed'[o].status = "Closed" => o \in untold
<1>1. ASSUME ChatInv, [NextChat]_chatVars PROVE [Untold]_chatVars
  <2> SUFFICES ASSUME NextChat, NEW o \in DOMAIN placed, placed[o].status = "Paid", chat' # chat,
                      placed'[o].status = "Closed"
               PROVE  o \in untold
    BY <1>1
  <2>1. ASSUME NEW m \in Messages, TakeTurn(m) PROVE o \in untold
    BY <1>1, <2>1, TurnCancels
  <2>2. ASSUME NEW x \in DOMAIN placed,
               Told(x) \/ CloseOrder(x) \/ (\E all, notice \in BOOLEAN : Pay(x, all, notice))
        PROVE  placed' = placed \/ chat' = chat
    BY <2>2 DEF Told, CloseOrder, Pay
  <2>3. CASE FallIdle \/ SweepExpired \/ Reprice \/ ChangeAccount
    BY <2>3 DEF FallIdle, SweepExpired, Reprice, ChangeAccount
  <2> QED
    BY <2>1, <2>2, <2>3 DEF NextChat
<1> QED
  BY <1>1, ChatInvIsKept, PTL DEF SpecChat, CancelsPaidOnlyUntold
================================================================================
