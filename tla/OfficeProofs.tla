------------------------------ MODULE OfficeProofs ------------------------------
(***************************************************************************)
(* Proofs about what the office sees and does: notifications and their     *)
(* delivery, payment requests, commissions and truck sales.  They share no *)
(* table, and each has an invariant of its own.                            *)
(***************************************************************************)
EXTENDS Notify, Expenses, Commissions, TruckSales, SumLemmas, TLAPS

(***************************************************************************)
(* Notifications.  One run of an event at most gets past the inbox,        *)
(* whoever is passed over was reached, and what a carrier has said stands. *)
(***************************************************************************)
(* Dispatches are numbered as they begin, so one that begins is new.       *)
Numbered ==
  /\ \A e \in Events : job[e] = "none" => tries[e] = 0 /\ run[<<e, 0>>] = "none"
  /\ \A e \in Events : job[e] = "queued" => tries[e] <= Retries
  /\ \A e \in Events, n \in 1..(Retries + 1) : n > tries[e] => run[<<e, n>>] = "none"

(* What a dispatch has done for a recipient, by how far it has come.       *)
Started(x) == run[x[1]] \notin {"none", "resolving"}
LegInOrder(x) ==
  /\ leg[x].at # "off" => Started(x)
  /\ leg[x].at \in {"off", "due"} => leg[x].box = "no"
  /\ leg[x].at \in {"off", "due", "logging"} => \A c \in Channels : row[<<x[1], x[2], c>>] = "none"
LegsInOrder == \A x \in Legs : LegInOrder(x)

(* The inbox holds one row of an event for a recipient.                    *)
OneInTheBox ==
  \A e \in Keyed, p \in People : \A w, v \in Of(e) :
    leg[<<w, p>>].box = "there" /\ leg[<<v, p>>].box = "there" => w = v

NotifyInv == TypeOK /\ Numbered /\ LegsInOrder /\ OneInTheBox /\ StoppedWasReached

-----------------------------------------------------------------------------
LEMMA NotifyInit == Init => NotifyInv
BY NotifyAssumption
   DEF Init, NotifyInv, TypeOK, Numbered, LegsInOrder, LegInOrder, Started, OneInTheBox, StoppedWasReached, NoLeg,
       Runs, Legs, Messages, Of, InApp

(* Steps that leave the recipients and their messages alone.               *)
LEMMA LegsAlone ==
  ASSUME NotifyInv, UNCHANGED <<leg, row>>, \A w \in Runs : run[w] \notin {"none", "resolving"}
                                              => run'[w] \notin {"none", "resolving"}
  PROVE  (LegsInOrder /\ OneInTheBox /\ StoppedWasReached)'
BY DEF NotifyInv, LegsInOrder, LegInOrder, Started, OneInTheBox, StoppedWasReached, Through, Legs, Of

(* A step of one recipient's part of a dispatch.                           *)
LEMMA LegGoes ==
  ASSUME NotifyInv, NEW w \in Runs, NEW p \in People, NEW l, Goes(w, p, l)
  PROVE  \A x \in Legs : leg'[x] = IF x = <<w, p>> THEN l ELSE leg[x]
BY DEF NotifyInv, TypeOK, Goes, Legs

LEMMA RunParts ==
  ASSUME NEW w \in Runs
  PROVE  w[1] \in Events /\ w[2] \in 0..(Retries + 1) /\ w = <<w[1], w[2]>> /\ w \in Of(w[1])
BY DEF Runs, Of

-----------------------------------------------------------------------------
(* The queue.                                                              *)
LEMMA QueueStep ==
  ASSUME NotifyInv, NEW e \in Events, Enqueue(e) \/ DispatchInline(e) \/ Fetch(e) \/ Expire(e)
  PROVE  NotifyInv'
<1> USE NotifyAssumption DEF NotifyInv
<1>1. UNCHANGED <<leg, row>>
  BY DEF Enqueue, DispatchInline, Fetch, Expire
<1>2. CASE Enqueue(e)
  <2>1. job[e] = "none" /\ job' = [job EXCEPT ![e] = "queued"] /\ UNCHANGED <<tries, run, answer, muted>>
    BY <1>2 DEF Enqueue
  <2>2. TypeOK'
    BY <1>1, <2>1 DEF TypeOK
  <2>3. \A f \in Events : job'[f] = IF f = e THEN "queued" ELSE job[f]
    BY <2>1 DEF TypeOK
  <2>4. tries[e] <= Retries
    <3>1. tries[e] = 0 /\ Retries \in Nat
      BY <2>1 DEF Numbered
    <3> QED
      BY <3>1
  <2>5. Numbered'
    BY <2>1, <2>3, <2>4 DEF Numbered
  <2> QED
    BY <1>1, <2>1, <2>2, <2>5, LegsAlone
<1>3. CASE DispatchInline(e)
  <2>1. <<e, 0>> \in Runs
    BY DEF Runs
  <2>2. run' = [run EXCEPT ![<<e, 0>>] = "resolving"] /\ run[<<e, 0>>] = "none"
    BY <1>3 DEF DispatchInline, Numbered
  <2>3. TypeOK'
    BY <1>3, <2>1 DEF DispatchInline, TypeOK
  <2>4. \A f \in Events, n \in 0..(Retries + 1) : <<f, n>> # <<e, 0>> => run'[<<f, n>>] = run[<<f, n>>]
    BY <2>2 DEF TypeOK, Runs
  <2>5. Numbered'
    BY <1>3, <2>4 DEF DispatchInline, TypeOK, Numbered
  <2>6. \A w \in Runs : run[w] \notin {"none", "resolving"} => run'[w] \notin {"none", "resolving"}
    BY <2>1, <2>2 DEF TypeOK
  <2> QED
    BY <1>1, <2>3, <2>5, <2>6, LegsAlone
<1>4. CASE Fetch(e)
  <2> DEFINE n == tries[e] + 1
  <2>1. n \in 1..(Retries + 1) /\ <<e, n>> \in Runs /\ tries[e] \in 0..Retries
    BY <1>4 DEF Fetch, TypeOK, Numbered, Runs
  <2>2. run' = [run EXCEPT ![<<e, n>>] = "resolving"] /\ run[<<e, n>>] = "none"
    BY <1>4, <2>1 DEF Fetch, Numbered
  <2>3. job' = [job EXCEPT ![e] = "active"] /\ tries' = [tries EXCEPT ![e] = n] /\ UNCHANGED <<answer, muted>>
    BY <1>4 DEF Fetch, TakenToDo
  <2>4. TypeOK'
    BY <1>1, <2>1, <2>2, <2>3 DEF TypeOK
  <2>5. \A f \in Events, k \in 0..(Retries + 1) : <<f, k>> # <<e, n>> => run'[<<f, k>>] = run[<<f, k>>]
    BY <2>2 DEF TypeOK, Runs
  <2>6. \A f \in Events : tries'[f] = (IF f = e THEN n ELSE tries[f]) /\ job'[f] = (IF f = e THEN "active" ELSE job[f])
    BY <2>3 DEF TypeOK
  <2>7. Numbered'
    <3>1. \A f \in Events : f # e /\ job'[f] = "none" => tries'[f] = 0 /\ run'[<<f, 0>>] = "none"
      BY <2>5, <2>6 DEF Numbered
    <3>2. \A f \in Events : job'[f] = "queued" => tries'[f] <= Retries
      BY <2>6 DEF Numbered
    <3>3. ASSUME NEW f \in Events, NEW k \in 1..(Retries + 1), k > tries'[f]
          PROVE  run'[<<f, k>>] = "none"
      <4>1. k > tries[f] /\ <<f, k>> # <<e, n>>
        BY <2>1, <2>6, <3>3
      <4> QED
        BY <2>5, <4>1 DEF Numbered
    <3> QED
      BY <2>6, <3>1, <3>2, <3>3 DEF Numbered
  <2>8. \A w \in Runs : run[w] \notin {"none", "resolving"} => run'[w] \notin {"none", "resolving"}
    BY <2>1, <2>2 DEF TypeOK
  <2> QED
    BY <1>1, <2>4, <2>7, <2>8, LegsAlone
<1>5. CASE Expire(e)
  <2>1. (TypeOK /\ Numbered)'
    BY <1>5 DEF Expire, Retried, TypeOK, Numbered
  <2> QED
    BY <1>1, <1>5, <2>1, LegsAlone DEF Expire
<1> QED
  BY <1>2, <1>3, <1>4, <1>5

(* Dispatches that end, of themselves or with the process.                 *)
LEMMA EndStep ==
  ASSUME NotifyInv, Crash \/ \E w \in Runs : ResolveFails(w) \/ FinishRun(w)
  PROVE  NotifyInv'
<1> USE NotifyAssumption DEF NotifyInv
<1>1. UNCHANGED <<tries, leg, row, answer, muted>>
  BY DEF Crash, ResolveFails, FinishRun
<1>2. /\ run' \in [Runs -> {"none", "resolving", "delivering", "unresolved", "killed", "over"}]
      /\ \A w \in Runs : run'[w] = run[w] \/ (run[w] # "none" /\ run'[w] \in {"unresolved", "killed", "over"})
      /\ job' \in [Events -> {"none", "inline", "queued", "active", "done", "dead"}]
      /\ \A e \in Events : job'[e] = job[e] \/ job'[e] = "done"
  <2>1. CASE Crash
    BY <2>1 DEF Crash, Live, TypeOK
  <2>2. ASSUME NEW w \in Runs, ResolveFails(w) \/ FinishRun(w)
        PROVE  <1>2
    <3>1. /\ run[w] # "none"
          /\ run' = [run EXCEPT ![w] = "unresolved"] \/ run' = [run EXCEPT ![w] = "over"]
          /\ job' = JobAfter(w)
      BY <2>2 DEF ResolveFails, FinishRun, EndRun
    <3>2. w[1] \in Events
      BY RunParts
    <3> QED
      BY <3>1, <3>2 DEF JobAfter, TypeOK
  <2> QED
    BY <2>1, <2>2
<1>3. TypeOK'
  BY <1>1, <1>2 DEF TypeOK
<1>4. Numbered'
  <2>1. \A e \in Events, n \in 0..(Retries + 1) : run[<<e, n>>] = "none" => run'[<<e, n>>] = "none"
    BY <1>2 DEF Runs
  <2> QED
    BY <1>1, <1>2, <2>1 DEF Numbered
<1>5. \A w \in Runs : run[w] \notin {"none", "resolving"} => run'[w] \notin {"none", "resolving"}
  BY <1>2
<1> QED
  BY <1>1, <1>3, <1>4, <1>5, LegsAlone

(* The recipients are known: every one of them is due.                     *)
LEMMA ResolveStep ==
  ASSUME NotifyInv, NEW w \in Runs, Resolve(w)
  PROVE  NotifyInv'
<1> USE NotifyAssumption DEF NotifyInv
<1>1. /\ run[w] = "resolving" /\ run' = [run EXCEPT ![w] = "delivering"]
      /\ leg' = [x \in Legs |-> IF x[1] = w THEN [leg[x] EXCEPT !.at = "due"] ELSE leg[x]]
      /\ UNCHANGED <<job, tries, answer, row, muted>>
  BY DEF Resolve
<1>2. \A x \in Legs : /\ x[1] \in Runs /\ x[2] \in People /\ x = <<x[1], x[2]>>
                      /\ leg[x] \in [at: {"off", "due", "logging", "sending", "stopped", "failed"},
                                    box: {"no", "there", "gone"}, to: SUBSET Channels]
  BY DEF TypeOK, Legs
<1>3. \A x \in Legs : x[1] = w => leg[x].at = "off"
  BY <1>1 DEF LegsInOrder, LegInOrder, Started
<1>4. \A x \in Legs : /\ leg'[x].box = leg[x].box
                      /\ x[1] = w => leg'[x].at = "due"
                      /\ x[1] # w => leg'[x] = leg[x]
  BY <1>1, <1>2
<1>5. \A v \in Runs : run'[v] = IF v = w THEN "delivering" ELSE run[v]
  BY <1>1 DEF TypeOK
<1>6. TypeOK'
  BY <1>1, <1>2 DEF TypeOK
<1>7. Numbered'
  BY <1>1, <1>5 DEF Numbered, Runs
<1>8. LegsInOrder'
  BY <1>1, <1>2, <1>3, <1>4, <1>5 DEF LegsInOrder, LegInOrder, Started
<1>9. OneInTheBox'
  BY <1>1, <1>4 DEF OneInTheBox, Of, Legs
<1>10. StoppedWasReached'
  <2>1. \A v \in Runs, p \in People : <<v, p>> \in Legs
    BY DEF Legs
  <2>2. ASSUME NEW v \in Runs, NEW p \in People
        PROVE  leg'[<<v, p>>].box = leg[<<v, p>>].box /\ (leg'[<<v, p>>].at = "stopped" => leg[<<v, p>>].at = "stopped")
    <3>1. leg'[<<v, p>>] = IF v = w THEN [leg[<<v, p>>] EXCEPT !.at = "due"] ELSE leg[<<v, p>>]
      BY <1>1, <2>1
    <3>2. leg[<<v, p>>] \in [at: {"off", "due", "logging", "sending", "stopped", "failed"},
                            box: {"no", "there", "gone"}, to: SUBSET Channels]
      BY <2>1 DEF TypeOK
    <3> QED
      BY <3>1, <3>2
  <2>3. ASSUME NEW v \in Runs, NEW p \in People, leg'[<<v, p>>].at = "stopped"
        PROVE  \E u \in Of(v[1]) \ {v} : leg'[<<u, p>>].box # "no"
    <3>1. PICK u \in Of(v[1]) \ {v} : leg[<<u, p>>].box # "no"
      BY <2>2, <2>3 DEF StoppedWasReached, Through
    <3>2. u \in Runs
      BY DEF Of
    <3> QED
      BY <2>2, <3>1, <3>2
  <2> QED
    BY <2>3 DEF StoppedWasReached, Through, Of
<1> QED
  BY <1>6, <1>7, <1>8, <1>9, <1>10

(* What a step of one recipient does to the inbox and the log.             *)
LEMMA LegStep ==
  ASSUME NotifyInv, NEW w \in Runs, NEW p \in People,
         NEW l \in [at: {"off", "due", "logging", "sending", "stopped", "failed"},
                    box: {"no", "there", "gone"}, to: SUBSET Channels],
         Goes(w, p, l), UNCHANGED <<job, tries, run, answer, muted>>,
         row' \in [Messages -> {"none", "unlogged", "pending", "unmarked", "sent", "failed", "skipped",
                               "suppressed", "delivered", "gone"}],
         Started(<<w, p>>),
         l.at \in {"off", "due"} => l.box = "no",
         l.at \in {"off", "due", "logging"} => \A c \in Channels : row'[<<w, p, c>>] = "none",
         \A x \in Legs, c \in Channels : x # <<w, p>> => row'[<<x[1], x[2], c>>] = row[<<x[1], x[2], c>>],
         Through(w, p) => l.box # "no",
         l.box = "there" => leg[<<w, p>>].box = "there" \/ ~Taken(w, p),
         l.at = "stopped" => leg[<<w, p>>].at = "stopped" \/ \E v \in Of(w[1]) \ {w} : Through(v, p)
  PROVE  NotifyInv'
<1> USE DEF NotifyInv
<1>1. \A x \in Legs : leg'[x] = IF x = <<w, p>> THEN l ELSE leg[x]
  BY LegGoes
<1>2. \A v \in Runs, q \in People : <<v, q>> \in Legs
  BY DEF Legs
<1>3. TypeOK' /\ Numbered'
  BY <1>2 DEF TypeOK, Goes, Numbered
<1>4. LegsInOrder'
  <2>1. LegInOrder(<<w, p>>)'
    BY <1>1, <1>2 DEF LegInOrder, Started
  <2>2. ASSUME NEW x \in Legs, x # <<w, p>>
        PROVE  LegInOrder(x)'
    BY <1>1, <2>2 DEF LegsInOrder, LegInOrder, Started
  <2> QED
    BY <2>1, <2>2 DEF LegsInOrder
<1>5. OneInTheBox'
  <2> SUFFICES ASSUME NEW e \in Keyed, NEW q \in People, NEW u \in Of(e), NEW v \in Of(e),
                      leg'[<<u, q>>].box = "there", leg'[<<v, q>>].box = "there"
               PROVE  u = v
    BY DEF OneInTheBox, Of
  <2>1. u \in Runs /\ v \in Runs /\ u[1] = e /\ v[1] = e
    BY DEF Of
  <2>2. CASE leg[<<u, q>>].box = "there" /\ leg[<<v, q>>].box = "there"
    BY <2>2 DEF OneInTheBox
  <2>3. ASSUME leg[<<u, q>>].box # "there" \/ leg[<<v, q>>].box # "there", u # v
        PROVE  FALSE
    <3>1. <<u, q>> = <<w, p>> \/ <<v, q>> = <<w, p>>
      BY <1>1, <1>2, <2>1, <2>3
    <3>2. q = p /\ w[1] = e /\ l.box = "there" /\ leg[<<w, p>>].box # "there"
      BY <1>1, <1>2, <2>1, <2>3, <3>1
    <3>3. \A x \in Of(e) : leg[<<x, p>>].box # "there"
      BY <3>2 DEF Taken, HasKey
    <3> QED
      BY <1>1, <1>2, <2>1, <2>3, <3>1, <3>2, <3>3
  <2> QED
    BY <2>2, <2>3
<1>6. StoppedWasReached'
  <2>1. \A v \in Runs, q \in People : Through(v, q) => Through(v, q)'
    BY <1>1, <1>2 DEF Through
  <2>2. ASSUME NEW v \in Runs, NEW q \in People, leg'[<<v, q>>].at = "stopped"
        PROVE  \E u \in Of(v[1]) \ {v} : Through(u, q)
    <3>1. CASE <<v, q>> = <<w, p>>
      BY <1>1, <1>2, <2>2, <3>1 DEF StoppedWasReached
    <3>2. CASE <<v, q>> # <<w, p>>
      BY <1>1, <1>2, <2>2, <3>2 DEF StoppedWasReached
    <3> QED
      BY <3>1, <3>2
  <2> QED
    BY <2>1, <2>2 DEF StoppedWasReached, Of
<1> QED
  BY <1>3, <1>4, <1>5, <1>6
(* The inbox row comes first, unless the key of the event is taken.        *)
LEMMA InboxStep ==
  ASSUME NotifyInv, NEW w \in Runs, NEW p \in People, NEW g \in Gates(w, p),
         Post(w, p, g) \/ Duplicate(w, p, g) \/ PostFails(w, p, g)
  PROVE  NotifyInv'
<1> USE NotifyAssumption DEF NotifyInv
<1>1. g.to \subseteq Channels
  <2>1. PICK read \in BOOLEAN, quiet \in BOOLEAN :
          g = [box |-> w[1] \in Boxed /\ (read => Wants(w[1], p, InApp, quiet)),
               to  |-> {c \in Channels : read => Wants(w[1], p, c, quiet)}]
    BY DEF Gates
  <2> QED
    BY <2>1
<1>2. <<w, p>> \in Legs /\ At(w, p, "due") /\ UNCHANGED <<job, tries, run, answer, row, muted>>
  BY DEF Legs, Post, Duplicate, PostFails
<1>3. /\ leg[<<w, p>>] \in [at: {"off", "due", "logging", "sending", "stopped", "failed"},
                            box: {"no", "there", "gone"}, to: SUBSET Channels]
      /\ row \in [Messages -> {"none", "unlogged", "pending", "unmarked", "sent", "failed", "skipped",
                               "suppressed", "delivered", "gone"}]
  BY <1>2 DEF TypeOK
<1>4. Started(<<w, p>>) /\ leg[<<w, p>>].at = "due"
  BY <1>2 DEF At, Started
<1>5. leg[<<w, p>>].box = "no" /\ \A c \in Channels : row[<<w, p, c>>] = "none"
  BY <1>2, <1>4 DEF LegsInOrder, LegInOrder
<1>6. ~Through(w, p)
  BY <1>5 DEF Through
<1>7. CASE Post(w, p, g)
  <2> DEFINE l == [at |-> "logging", box |-> IF g.box THEN "there" ELSE "no", to |-> g.to]
  <2>1. Goes(w, p, l) /\ (g.box => ~Taken(w, p))
    BY <1>7 DEF Post
  <2>2. /\ l \in [at: {"off", "due", "logging", "sending", "stopped", "failed"},
                  box: {"no", "there", "gone"}, to: SUBSET Channels]
        /\ l.at = "logging" /\ (l.box = "there" => g.box)
    BY <1>1
  <2> HIDE DEF l
  <2> QED
    BY <1>2, <1>3, <1>4, <1>5, <1>6, <2>1, <2>2, LegStep
<1>8. ASSUME NEW s \in {"stopped", "failed"}, Refuse(w, p, s),
             s = "stopped" => \E v \in Of(w[1]) \ {w} : Through(v, p)
      PROVE  NotifyInv'
  <2> DEFINE l == [leg[<<w, p>>] EXCEPT !.at = s]
  <2>1. /\ l \in [at: {"off", "due", "logging", "sending", "stopped", "failed"},
                  box: {"no", "there", "gone"}, to: SUBSET Channels]
        /\ l.at = s /\ l.box = "no" /\ Goes(w, p, l)
    BY <1>3, <1>5, <1>8 DEF Refuse
  <2> HIDE DEF l
  <2> QED
    BY <1>2, <1>3, <1>4, <1>5, <1>6, <1>8, <2>1, LegStep
<1>9. CASE Duplicate(w, p, g)
  <2>1. PICK v \in Of(w[1]) : leg[<<v, p>>].box = "there"
    BY <1>9 DEF Duplicate, Taken, HasKey
  <2>2. v # w /\ Through(v, p)
    BY <1>5, <2>1 DEF Through
  <2> QED
    BY <1>8, <1>9, <2>2 DEF Duplicate
<1>10. CASE PostFails(w, p, g)
  BY <1>8, <1>10 DEF PostFails
<1> QED
  BY <1>7, <1>9, <1>10

(* A message is <<dispatch, recipient, channel>>.                          *)
LEMMA MessageParts ==
  /\ \A m \in Messages : /\ m[1] \in Runs /\ m[2] \in People /\ m[3] \in Channels /\ m = <<m[1], m[2], m[3]>>
                         /\ <<m[1], m[2]>> \in Legs
  /\ \A w \in Runs, p \in People, c \in Channels : <<w, p, c>> \in Messages
  /\ \A x \in Legs, c \in Channels : <<x[1], x[2], c>> \in Messages
BY DEF Messages, Legs

LEMMA LogStep ==
  ASSUME NotifyInv, NEW w \in Runs, NEW p \in People, LogSuppressed(w, p)
  PROVE  NotifyInv'
<1> USE NotifyAssumption DEF NotifyInv
<1> DEFINE l == [leg[<<w, p>>] EXCEPT !.at = "sending"]
<1>1. PICK s \in {"suppressed", "unlogged"} :
        row' = [m \in Messages |-> IF m \in Suppressed(w, p) THEN s ELSE row[m]]
  BY DEF LogSuppressed
<1>2. <<w, p>> \in Legs /\ Goes(w, p, l) /\ UNCHANGED <<job, tries, run, answer, muted>>
  BY DEF Legs, LogSuppressed
<1>3. Started(<<w, p>>)
  BY DEF LogSuppressed, At, Started
<1>4. /\ l \in [at: {"off", "due", "logging", "sending", "stopped", "failed"},
                box: {"no", "there", "gone"}, to: SUBSET Channels]
      /\ l.at = "sending" /\ l.box = leg[<<w, p>>].box
  BY <1>2 DEF TypeOK
<1>5. row' \in [Messages -> {"none", "unlogged", "pending", "unmarked", "sent", "failed", "skipped",
                            "suppressed", "delivered", "gone"}]
  BY <1>1 DEF TypeOK
<1>6. ASSUME NEW x \in Legs, NEW c \in Channels, x # <<w, p>>
      PROVE  row'[<<x[1], x[2], c>>] = row[<<x[1], x[2], c>>]
  <2>1. <<x[1], x[2], c>> \notin Suppressed(w, p)
    BY <1>6 DEF Suppressed, Legs
  <2> QED
    BY <1>1, <2>1, MessageParts
<1> HIDE DEF l
<1> QED
  BY <1>2, <1>3, <1>4, <1>5, <1>6, LegStep DEF Through

(* Steps that touch the messages of recipients being sent to, or what is   *)
(* reported of messages sent; the rows of the others stay "none".          *)
LEMMA RowsAlone ==
  ASSUME NotifyInv, UNCHANGED <<job, tries, run, leg>>,
         answer' \in [Messages -> {"none", "accepted", "refused", "skipped"}],
         row' \in [Messages -> {"none", "unlogged", "pending", "unmarked", "sent", "failed", "skipped",
                               "suppressed", "delivered", "gone"}],
         muted' \subseteq People \X (Channels \cup {InApp}),
         \A m \in Messages : row[m] = "none" /\ row'[m] # "none" => leg[<<m[1], m[2]>>].at = "sending"
  PROVE  NotifyInv'
<1> USE DEF NotifyInv
<1>1. TypeOK' /\ Numbered' /\ OneInTheBox' /\ StoppedWasReached'
  BY DEF TypeOK, Numbered, OneInTheBox, StoppedWasReached, Through, Of
<1>2. ASSUME NEW x \in Legs
      PROVE  LegInOrder(x)'
  <2>1. ASSUME leg[x].at \in {"off", "due", "logging"}, NEW c \in Channels
        PROVE  row'[<<x[1], x[2], c>>] = "none"
    <3>1. row[<<x[1], x[2], c>>] = "none" /\ <<x[1], x[2]>> = x
      BY <2>1 DEF LegsInOrder, LegInOrder, Legs
    <3>2. <<x[1], x[2], c>> \in Messages
      BY MessageParts
    <3> QED
      BY <2>1, <3>1, <3>2
  <2> QED
    BY <2>1 DEF LegsInOrder, LegInOrder, Started
<1> QED
  BY <1>1, <1>2 DEF LegsInOrder

LEMMA MessageStep ==
  ASSUME NotifyInv, NEW m \in Messages,
         \/ \E a \in {"accepted", "refused", "skipped"} : Send(m, a)
         \/ OpenRow(m) \/ CloseRow(m)
         \/ \E s \in {"failed", "delivered"} : Report(m, s)
  PROVE  NotifyInv'
<1> USE NotifyAssumption DEF NotifyInv
<1>1. UNCHANGED <<job, tries, run, leg, muted>>
  BY DEF Send, OpenRow, CloseRow, Report
<1>2. answer' \in [Messages -> {"none", "accepted", "refused", "skipped"}]
  BY DEF TypeOK, Send, OpenRow, CloseRow, Report
<1>3. \/ row' = row
      \/ /\ \E s \in {"pending", "unlogged", "sent", "failed", "skipped", "unmarked", "delivered"} :
                row' = [row EXCEPT ![m] = s]
         /\ row[m] = "none" => leg[<<m[1], m[2]>>].at = "sending"
  <2>1. CASE \E a \in {"accepted", "refused", "skipped"} : Send(m, a)
    BY <2>1 DEF Send
  <2>2. CASE OpenRow(m)
    BY <2>2 DEF OpenRow, Sending, At
  <2>3. CASE CloseRow(m)
    <3>1. row[m] = "pending" /\ \E s \in {Outcome(answer[m]), "unmarked"} : row' = [row EXCEPT ![m] = s]
      BY <2>3 DEF CloseRow
    <3>2. Outcome(answer[m]) \in {"sent", "failed", "skipped"}
      BY DEF Outcome
    <3> QED
      BY <3>1, <3>2
  <2>4. CASE \E s \in {"failed", "delivered"} : Report(m, s)
    BY <2>4 DEF Report, OpenToReport
  <2> QED
    BY <2>1, <2>2, <2>3, <2>4
<1>4. row' \in [Messages -> {"none", "unlogged", "pending", "unmarked", "sent", "failed", "skipped",
                            "suppressed", "delivered", "gone"}]
  BY <1>3 DEF TypeOK
<1>5. \A n \in Messages : row[n] = "none" /\ row'[n] # "none" => leg[<<n[1], n[2]>>].at = "sending"
  BY <1>3 DEF TypeOK
<1> QED
  BY <1>1, <1>2, <1>4, <1>5, RowsAlone DEF TypeOK

(* The recipient deletes the inbox row: its deliveries go with it.         *)
LEMMA RemoveStep ==
  ASSUME NotifyInv, NEW w \in Runs, NEW p \in People, Remove(w, p)
  PROVE  NotifyInv'
<1> USE NotifyAssumption DEF NotifyInv
<1> DEFINE l == [leg[<<w, p>>] EXCEPT !.box = "gone"]
           hit(m) == m[1] = w /\ m[2] = p /\ row[m] \notin {"none", "unlogged"}
<1>1. /\ <<w, p>> \in Legs /\ leg[<<w, p>>].box = "there" /\ Goes(w, p, l)
      /\ UNCHANGED <<job, tries, run, answer, muted>>
      /\ row' = [m \in Messages |-> IF hit(m) THEN "gone" ELSE row[m]]
  BY DEF Legs, Remove
<1>2. /\ l \in [at: {"off", "due", "logging", "sending", "stopped", "failed"},
                box: {"no", "there", "gone"}, to: SUBSET Channels]
      /\ l.at = leg[<<w, p>>].at /\ l.box = "gone"
  BY <1>1 DEF TypeOK
<1>3. LegInOrder(<<w, p>>)
  BY <1>1 DEF LegsInOrder
<1>4. leg[<<w, p>>].at \notin {"off", "due"} /\ Started(<<w, p>>)
  BY <1>1, <1>3 DEF LegInOrder
<1>5. row' \in [Messages -> {"none", "unlogged", "pending", "unmarked", "sent", "failed", "skipped",
                            "suppressed", "delivered", "gone"}]
  BY <1>1 DEF TypeOK
<1>6. ASSUME NEW c \in Channels, row[<<w, p, c>>] = "none"
      PROVE  row'[<<w, p, c>>] = "none"
  BY <1>1, <1>6, MessageParts
<1>7. ASSUME NEW x \in Legs, NEW c \in Channels, x # <<w, p>>
      PROVE  row'[<<x[1], x[2], c>>] = row[<<x[1], x[2], c>>]
  <2>1. ~(x[1] = w /\ x[2] = p)
    BY <1>7 DEF Legs
  <2> QED
    BY <1>1, <2>1, MessageParts
<1>8. l.at = "stopped" => leg[<<w, p>>].at = "stopped"
  BY <1>2
<1>9. l.at \in {"off", "due", "logging"} => \A c \in Channels : row'[<<w, p, c>>] = "none"
  BY <1>2, <1>3, <1>6 DEF LegInOrder
<1> HIDE DEF l, hit
<1> QED
  BY <1>1, <1>2, <1>4, <1>5, <1>7, <1>8, <1>9, LegStep

LEMMA NotifyStep == NotifyInv /\ [Next]_vars => NotifyInv'
<1> SUFFICES ASSUME NotifyInv, [Next]_vars PROVE NotifyInv'
  OBVIOUS
<1>1. ASSUME NEW p \in People, NEW c \in Channels \cup {InApp}, UpdatePreferences(p, c)
      PROVE  NotifyInv'
  BY <1>1, RowsAlone DEF UpdatePreferences, NotifyInv, TypeOK
<1>2. ASSUME NEW w \in Runs, Works(w)
      PROVE  NotifyInv'
  <2>1. CASE Resolve(w)
    BY <2>1, ResolveStep
  <2>2. CASE ResolveFails(w) \/ FinishRun(w)
    BY <2>2, EndStep
  <2>3. ASSUME NEW p \in People, NEW g \in Gates(w, p),
               Post(w, p, g) \/ Duplicate(w, p, g) \/ PostFails(w, p, g)
        PROVE  NotifyInv'
    BY <2>3, InboxStep
  <2>4. ASSUME NEW p \in People, LogSuppressed(w, p)
        PROVE  NotifyInv'
    BY <2>4, LogStep
  <2>5. ASSUME NEW p \in People, NEW c \in Channels, NEW a \in {"accepted", "refused", "skipped"},
               Send(<<w, p, c>>, a)
        PROVE  NotifyInv'
    BY <2>5, MessageParts, MessageStep
  <2>6. ASSUME NEW p \in People, NEW c \in Channels, OpenRow(<<w, p, c>>) \/ CloseRow(<<w, p, c>>)
        PROVE  NotifyInv'
    BY <2>6, MessageParts, MessageStep
  <2> QED
    BY <1>2, <2>1, <2>2, <2>3, <2>4, <2>5, <2>6 DEF Works
<1>3. CASE UNCHANGED vars
  BY <1>3, RowsAlone DEF vars, NotifyInv, TypeOK
<1> QED
  BY <1>1, <1>2, <1>3, QueueStep, EndStep, MessageStep, RemoveStep DEF Next

LEMMA NotifyKept == Spec => []NotifyInv
BY NotifyInit, NotifyStep, PTL DEF Spec

-----------------------------------------------------------------------------
(* The queue, the dispatches, the inbox, the log and the preferences keep  *)
(* their types.                                                            *)
THEOREM NotifyTypes == Spec => []TypeOK
<1>1. NotifyInv => TypeOK
  BY DEF NotifyInv
<1> QED
  BY <1>1, NotifyKept, PTL

(* inApp.js: for any number of retries, expiries, restarts and recipients, *)
(* two dispatches of one event that went through the inbox message the     *)
(* same person twice only if the inbox row was deleted in between.         *)
THEOREM NobodyTwice == Spec => []TwiceOnlyIfDeleted
<1>1. NotifyInv => TwiceOnlyIfDeleted
  <2> SUFFICES ASSUME NotifyInv, NEW e \in Keyed, NEW p \in People, NEW w \in Of(e), NEW v \in Of(e),
                      w # v, Through(w, p), Through(v, p)
               PROVE  "gone" \in {leg[<<w, p>>].box, leg[<<v, p>>].box}
    BY DEF TwiceOnlyIfDeleted, Twice
  <2>1. leg[<<w, p>>].box \in {"no", "there", "gone"} /\ leg[<<v, p>>].box \in {"no", "there", "gone"}
    BY DEF NotifyInv, TypeOK, Legs, Of
  <2>2. ~(leg[<<w, p>>].box = "there" /\ leg[<<v, p>>].box = "there")
    BY DEF NotifyInv, OneInTheBox
  <2> QED
    BY <2>1, <2>2 DEF Through
<1> QED
  BY <1>1, NotifyKept, PTL

(* Who is passed over as a duplicate had their own notification through    *)
(* another dispatch.                                                       *)
THEOREM StoppedMeansReached == Spec => []StoppedWasReached
<1>1. NotifyInv => StoppedWasReached
  BY DEF NotifyInv
<1> QED
  BY <1>1, NotifyKept, PTL

(* Both, as the runs check them.                                           *)
THEOREM EachReachedOnce == Spec => []ReachedOnce
<1> QED
  BY NobodyTwice, StoppedMeansReached, PTL DEF ReachedOnce

(* markDelivered, markFailed, markSuppressed: once a message is refused,   *)
(* delivered or held back, no receipt and no later step says otherwise.    *)
THEOREM AnswersDoStand == Spec => AnswersStand
<1> DEFINE Stands == \A m \in Messages : row[m] \in Final => row'[m] \in {row[m], "gone"}
<1>1. NotifyInv /\ [Next]_vars => [Stands]_vars
  <2> SUFFICES ASSUME NotifyInv, Next, NEW m \in Messages, row[m] \in Final, row'[m] # row[m]
               PROVE  row'[m] = "gone"
    OBVIOUS
  <2> USE DEF NotifyInv
  <2>1. row \in [Messages -> {"none", "unlogged", "pending", "unmarked", "sent", "failed", "skipped",
                             "suppressed", "delivered", "gone"}]
    BY DEF TypeOK
  <2>2. ASSUME NEW w \in Runs, NEW p \in People, LogSuppressed(w, p)
        PROVE  FALSE
    <3>1. m \in Suppressed(w, p)
      BY <2>2 DEF LogSuppressed
    <3>2. <<w, p>> \in Legs /\ leg[<<w, p>>].at = "logging"
      BY <2>2 DEF LogSuppressed, At, Legs
    <3>3. \A c \in Channels : row[<<w, p, c>>] = "none"
      BY <3>2 DEF LegsInOrder, LegInOrder
    <3> QED
      BY <3>1, <3>3 DEF Suppressed, Final
  <2>3. ASSUME NEW n \in Messages, OpenRow(n) \/ CloseRow(n) \/ \E s \in {"failed", "delivered"} : Report(n, s)
        PROVE  FALSE
    <3>1. row[n] \in {"none", "pending", "sent"} /\ \E s : row' = [row EXCEPT ![n] = s]
      BY <2>3 DEF OpenRow, CloseRow, Report, OpenToReport
    <3> QED
      BY <2>1, <3>1 DEF Final
  <2>4. ASSUME NEW w \in Runs, NEW p \in People, Remove(w, p)
        PROVE  row'[m] = "gone"
    BY <2>4 DEF Remove
  <2>5. ASSUME NEW e \in Events, Enqueue(e) \/ DispatchInline(e) \/ Fetch(e) \/ Expire(e)
        PROVE  FALSE
    BY <2>5 DEF Enqueue, DispatchInline, Fetch, Expire
  <2>6. ASSUME NEW w \in Runs, Works(w)
        PROVE  FALSE
    <3>1. ASSUME NEW p \in People, NEW c \in Channels, OpenRow(<<w, p, c>>) \/ CloseRow(<<w, p, c>>)
          PROVE  FALSE
      BY <2>3, <3>1, MessageParts
    <3>2. ~Resolve(w) /\ ~ResolveFails(w) /\ ~FinishRun(w)
      BY DEF Resolve, ResolveFails, FinishRun
    <3>3. ASSUME NEW p \in People, NEW g \in Gates(w, p),
                 Post(w, p, g) \/ Duplicate(w, p, g) \/ PostFails(w, p, g)
          PROVE  FALSE
      BY <3>3 DEF Post, Duplicate, PostFails
    <3>4. ASSUME NEW p \in People, NEW c \in Channels, NEW a \in {"accepted", "refused", "skipped"},
                 Send(<<w, p, c>>, a)
          PROVE  FALSE
      BY <3>4 DEF Send
    <3> QED
      BY <2>2, <2>6, <3>1, <3>2, <3>3, <3>4 DEF Works
  <2>7. ~Crash
    BY DEF Crash
  <2>8. ASSUME NEW p \in People, NEW c \in Channels \cup {InApp}, UpdatePreferences(p, c)
        PROVE  FALSE
    BY <2>8 DEF UpdatePreferences
  <2> QED
    BY <2>3, <2>4, <2>5, <2>6, <2>7, <2>8 DEF Next
<1> QED
  BY <1>1, NotifyKept, PTL DEF Spec, AnswersStand

(***************************************************************************)
(* Payment requests.  A handler decides on what it read, so the invariant  *)
(* speaks of the screens as well: what a screen has read of a request, and *)
(* by whose right it is about to write.                                    *)
(***************************************************************************)
(* What a screen under way holds; a request that is being created is not   *)
(* there yet and on no other screen.                                       *)
OnRequest(r) == r.at \in {"creating", "reviewing", "editing", "dropping"}
Screen(r) ==
  /\ OnRequest(r) => r.e \in Expenses /\ r.who \in Staff
  /\ r.at = "creating" => ~Exists(r.e) /\ r.acct \in Accounts /\ r.grp \in Groups /\ r.saw = "none"
  /\ r.at = "reviewing" => Exists(r.e) /\ r.do \in Actions /\ r.saw \in From(r.do)
  /\ r.at = "editing" => Exists(r.e) /\ (r.acct # "none" => r.acct \in Accounts /\ r.grp \in Groups)
  /\ r.at \in {"editing", "dropping"} => Exists(r.e) /\ (r.saw = "paid" => IsSuper(r.who))
  /\ r.at = "moving" => r.acct \in Accounts /\ r.grp \in Groups \cup {"deleted"}
Screens ==
  /\ DOMAIN tab = Tabs
  /\ \A t \in Tabs : Screen(tab[t])
  /\ \A t, u \in Tabs : tab[t].at = "creating" /\ OnRequest(tab[u]) /\ tab[u].e = tab[t].e => u = t

(* How far a request has come without an overwrite is how far it is signed.*)
SignedSoFar(e) ==
  /\ exp[e].st = "verified" => "verified" \in signed[e]
  /\ exp[e].st = "audit_approved" => {"verified", "audit_approved"} \subseteq signed[e]
  /\ exp[e].st = "admin_approved" => {"verified", "audit_approved", "admin_approved"} \subseteq signed[e]
  /\ exp[e].st = "paid" => exp[e].direct \/ signed[e] = Stages
Signatures == \A e \in Expenses \ torn : SignedSoFar(e)

ExpenseInv == TypeOKExpenses /\ Screens /\ Signatures /\ CargoIsTheAccounts

-----------------------------------------------------------------------------
LEMMA ExpenseInit == InitExpenses => ExpenseInv
BY DEF InitExpenses, ExpenseInv, TypeOKExpenses, Screens, Screen, OnRequest, NoTab, NoExp, Signatures, SignedSoFar,
       CargoIsTheAccounts, Shown, Exists, Groups

(* A screen opens: nothing but the screen changes.                         *)
LEMMA OpensScreen ==
  ASSUME ExpenseInv, UNCHANGED Table, NEW t \in Tabs, NEW r, tab[t] = NoTab, tab' = [tab EXCEPT ![t] = r],
         Screen(r), OnRequest(r) => \A u \in Tabs : ~(tab[u].at = "creating" /\ tab[u].e = r.e),
         r.at = "creating" => \A u \in Tabs : tab[u].e # r.e
  PROVE  ExpenseInv'
<1> USE DEF ExpenseInv, Table
<1>1. TypeOKExpenses' /\ Signatures' /\ CargoIsTheAccounts'
  BY DEF TypeOKExpenses, Signatures, SignedSoFar, CargoIsTheAccounts, Shown, Exists
<1>2. \A u \in Tabs : tab'[u] = IF u = t THEN r ELSE tab[u]
  BY DEF Screens
<1>3. \A u \in Tabs : Screen(tab[u])'
  BY <1>2 DEF Screens, Screen, Exists
<1>4. \A u, v \in Tabs :
        tab'[u].at = "creating" /\ OnRequest(tab'[v]) /\ tab'[v].e = tab'[u].e => v = u
  BY <1>2 DEF Screens
<1> QED
  BY <1>1, <1>3, <1>4 DEF Screens, OnRequest

(* A screen closes: the others stay right if no request ceases to exist    *)
(* and none starts to but the one this screen was creating.                *)
LEMMA ClosesScreen ==
  ASSUME Screens, NEW t \in Tabs, Ends(t),
         \A e \in Expenses : Exists(e) => Exists(e)',
         \A e \in Expenses : ~Exists(e) /\ Exists(e)' => tab[t].at = "creating" /\ tab[t].e = e
  PROVE  Screens'
<1>1. \A u \in Tabs : tab'[u] = IF u = t THEN NoTab ELSE tab[u]
  BY DEF Ends, Screens
<1>2. DOMAIN tab' = Tabs
  BY DEF Ends, Screens
<1>3. Screen(tab[t])'
  BY <1>1 DEF Screen, NoTab, OnRequest
<1>4. ASSUME NEW u \in Tabs, u # t
      PROVE  Screen(tab[u])'
  <2>1. tab'[u] = tab[u] /\ Screen(tab[u])
    BY <1>1, <1>4 DEF Screens
  <2> DEFINE x == tab[u].e
             StillNone == exp'[x].st = "none"
  <2>2. ASSUME tab[u].at = "creating"
        PROVE  StillNone
    <3>1. x \in Expenses /\ exp[x].st = "none" /\ OnRequest(tab[u])
      BY <2>1, <2>2 DEF Screen, OnRequest, Exists
    <3>2. ~StillNone => tab[t].at = "creating" /\ tab[t].e = x
      BY <3>1 DEF Exists
    <3> QED
      BY <3>1, <3>2, <1>4 DEF Screens
  <2>3. OnRequest(tab[u]) /\ Exists(x) => ~StillNone
    BY <2>1 DEF Screen, Exists
  <2> QED
    BY <2>1, <2>2, <2>3 DEF Screen, OnRequest, Exists
<1>5. \A u, v \in Tabs : tab'[u].at = "creating" /\ OnRequest(tab'[v]) /\ tab'[v].e = tab'[u].e => v = u
  BY <1>1 DEF Screens, OnRequest, NoTab
<1> QED
  BY <1>2, <1>3, <1>4, <1>5 DEF Screens, OnRequest

LEMMA ExpenseStep == ExpenseInv /\ [NextExpenses]_expVars => ExpenseInv'
<1> SUFFICES ASSUME ExpenseInv, [NextExpenses]_expVars PROVE ExpenseInv'
  OBVIOUS
<1> USE DEF ExpenseInv
<1>1. ASSUME NEW t \in Tabs, NEW s \in Staff, NEW e \in Expenses, NEW a \in Accounts, NEW direct \in BOOLEAN,
             BeginCreate(t, s, e, a, direct)
      PROVE  ExpenseInv'
  BY <1>1, OpensScreen DEF BeginCreate, Begins, Screen, OnRequest, NoTab, TypeOKExpenses
<1>2. ASSUME NEW t \in Tabs, NEW s \in Staff, NEW e \in Expenses, NEW a \in Actions, BeginReview(t, s, e, a)
      PROVE  ExpenseInv'
  <2> DEFINE r == [NoTab EXCEPT !.at = "reviewing", !.who = s, !.e = e, !.saw = exp[e].st, !.do = a]
  <2>1. Screen(r) /\ OnRequest(r) /\ r.at # "creating" /\ r.e = e /\ Exists(e)
    BY <1>2 DEF BeginReview, Screen, OnRequest, NoTab, Shown, Allowed
  <2>2. \A u \in Tabs : ~(tab[u].at = "creating" /\ tab[u].e = r.e)
    BY <2>1 DEF Screens, Screen
  <2> QED
    BY <1>2, <2>1, <2>2, OpensScreen DEF BeginReview, Begins
<1>3. ASSUME NEW t \in Tabs, NEW s \in Staff, NEW e \in Expenses, NEW a \in Accounts, BeginEdit(t, s, e, a)
      PROVE  ExpenseInv'
  <2> DEFINE read == [NoTab EXCEPT !.at = "editing", !.who = s, !.e = e, !.saw = exp[e].st]
             r == IF a = exp[e].acct THEN read ELSE [read EXCEPT !.acct = a, !.grp = group[a]]
  <2>1. /\ r.at = "editing" /\ r.e = e /\ r.who = s /\ r.saw = exp[e].st
        /\ r.acct # "none" => a # exp[e].acct /\ r.acct = a /\ r.grp = group[a]
    BY DEF NoTab
  <2>2. /\ Exists(e) /\ (exp[e].st = "paid" => IsSuper(s))
        /\ Begins(t, r) /\ UNCHANGED Table /\ (a # exp[e].acct => group[a] # "deleted")
    BY <1>3 DEF BeginEdit, MayEdit, Shown
  <2> HIDE DEF r
  <2>3. Screen(r)
    BY <2>1, <2>2 DEF Screen, OnRequest, TypeOKExpenses
  <2>4. \A u \in Tabs : ~(tab[u].at = "creating" /\ tab[u].e = r.e)
    BY <2>1, <2>2 DEF Screens, Screen
  <2> QED
    BY <2>1, <2>2, <2>3, <2>4, OpensScreen DEF Begins
<1>4. ASSUME NEW t \in Tabs, NEW s \in Staff, NEW e \in Expenses, BeginDrop(t, s, e)
      PROVE  ExpenseInv'
  <2> DEFINE r == [NoTab EXCEPT !.at = "dropping", !.who = s, !.e = e, !.saw = exp[e].st]
  <2>1. Screen(r) /\ OnRequest(r) /\ r.at # "creating" /\ r.e = e /\ Exists(e)
    BY <1>4 DEF BeginDrop, Screen, OnRequest, NoTab, Shown
  <2>2. \A u \in Tabs : ~(tab[u].at = "creating" /\ tab[u].e = r.e)
    BY <2>1 DEF Screens, Screen
  <2> QED
    BY <1>4, <2>1, <2>2, OpensScreen DEF BeginDrop, Begins
<1>5. ASSUME NEW t \in Tabs, NEW a \in Accounts, NEW g \in Groups \cup {"deleted"}, BeginRegroup(t, a, g)
      PROVE  ExpenseInv'
  BY <1>5, OpensScreen DEF BeginRegroup, Begins, Screen, OnRequest, NoTab
<1>6. ASSUME NEW t \in Tabs, FinishCreate(t)
      PROVE  ExpenseInv'
  <2> DEFINE r == tab[t]
             rec == [st |-> IF r.do = "record_as_paid" THEN "paid" ELSE "pending", by |-> r.who, gone |-> FALSE,
                     direct |-> r.do = "record_as_paid", acct |-> r.acct, cargo |-> r.grp = "pfi_direct"]
  <2>1. r.e \in Expenses /\ r.who \in Staff /\ r.acct \in Accounts /\ ~Exists(r.e)
    BY <1>6 DEF FinishCreate, TabAt, Screens, Screen, OnRequest
  <2>2. exp' = [exp EXCEPT ![r.e] = rec] /\ torn' = torn \cup Misbooked(r.acct, r.grp) /\ UNCHANGED <<signed, group>>
    BY <1>6 DEF FinishCreate
  <2>3. TypeOKExpenses'
    BY <2>1, <2>2 DEF TypeOKExpenses, Statuses, Open, Misbooked
  <2>4. \A e \in Expenses : exp'[e] = IF e = r.e THEN rec ELSE exp[e]
    BY <2>1, <2>2 DEF TypeOKExpenses
  <2>8. /\ rec.st \in {"paid", "pending"} /\ (rec.st = "paid" => rec.direct)
        /\ rec.acct = r.acct /\ rec.cargo = (r.grp = "pfi_direct")
    OBVIOUS
  <2> HIDE DEF rec
  <2>5. Screens'
    BY <1>6, <2>1, <2>4, <2>8, ClosesScreen DEF FinishCreate, TabAt, Exists
  <2>6. Signatures'
    BY <2>2, <2>4, <2>8 DEF Signatures, SignedSoFar
  <2>7. CargoIsTheAccounts'
    <3>1. ASSUME NEW e \in Expenses, e # r.e
          PROVE  exp'[e] = exp[e]
      BY <2>4, <3>1
    <3>2. exp'[r.e] = rec /\ (r.acct \notin torn' => group[r.acct] = r.grp)
      BY <2>1, <2>2, <2>4 DEF Misbooked
    <3>3. r.acct \notin torn' => (rec.cargo <=> group[rec.acct] = "pfi_direct")
      BY <2>8, <3>2
    <3>4. torn \subseteq torn' /\ group' = group
      BY <2>2
    <3>5. ASSUME NEW e \in Expenses, Shown(e)', exp'[e].acct \notin torn'
          PROVE  exp'[e].cargo <=> group[exp'[e].acct] = "pfi_direct"
      <4>1. CASE e = r.e
        BY <2>8, <3>2, <3>3, <3>5, <4>1
      <4>2. CASE e # r.e
        BY <3>1, <3>4, <3>5, <4>2 DEF CargoIsTheAccounts, Shown, Exists
      <4> QED
        BY <4>1, <4>2
    <3> QED
      BY <3>4, <3>5 DEF CargoIsTheAccounts
  <2> QED
    BY <2>3, <2>5, <2>6, <2>7
<1>7. ASSUME NEW t \in Tabs, FinishReview(t)
      PROVE  ExpenseInv'
  <2>1. PICK x \in Expenses, a \in Actions :
          x = tab[t].e /\ a = tab[t].do /\ Exists(x) /\ tab[t].saw \in From(a)
    BY <1>7 DEF FinishReview, TabAt, Screens, Screen, OnRequest
  <2>2. /\ exp' = [exp EXCEPT ![x].st = To[a]] /\ signed' = [signed EXCEPT ![x] = SignedBy(t)]
        /\ torn' = TornBy(t) /\ UNCHANGED group
    BY <1>7, <2>1 DEF FinishReview
  <2>3. To[a] \in Statuses /\ To[a] # "none"
    BY <2>1 DEF To, Statuses, Open, Actions
  <2>4. SignedBy(t) \subseteq Stages
    BY <2>1 DEF SignedBy, TypeOKExpenses, Stages
  <2>5. TypeOKExpenses'
    BY <2>1, <2>2, <2>3, <2>4 DEF TypeOKExpenses, Exists, TornBy, NoExp
  <2>6. \A e \in Expenses : exp'[e] = IF e = x THEN [exp[x] EXCEPT !.st = To[a]] ELSE exp[e]
    BY <2>1, <2>2 DEF TypeOKExpenses
  <2>7. \A e \in Expenses : signed'[e] = IF e = x THEN SignedBy(t) ELSE signed[e]
    BY <2>1, <2>2 DEF TypeOKExpenses
  <2>8. exp[x] \in [st: Statuses, by: Staff, gone: BOOLEAN, direct: BOOLEAN, acct: Accounts, cargo: BOOLEAN]
    BY <2>1 DEF TypeOKExpenses, Exists, NoExp
  <2>9. /\ exp'[x].st = To[a]
        /\ exp'[x].gone = exp[x].gone /\ exp'[x].direct = exp[x].direct
        /\ exp'[x].acct = exp[x].acct /\ exp'[x].cargo = exp[x].cargo
    BY <2>1, <2>6, <2>8
  <2>10. Screens'
    BY <1>7, <2>1, <2>3, <2>6, <2>9, ClosesScreen DEF FinishReview, Exists
  <2>11. CargoIsTheAccounts'
    BY <2>1, <2>2, <2>6, <2>9 DEF CargoIsTheAccounts, Shown, Exists, TornBy
  <2>12. ASSUME x \notin torn'
         PROVE  SignedSoFar(x)'
    <3>1. exp[x].st = tab[t].saw /\ x \notin torn
      BY <2>1, <2>2, <2>12 DEF TornBy, Overwrites
    <3>2. SignedSoFar(x) /\ signed[x] \subseteq Stages
      BY <3>1, <2>1 DEF Signatures, TypeOKExpenses
    <3>3. exp'[x].st = To[a] /\ signed'[x] = SignedBy(t)
      BY <2>1, <2>7, <2>9
    <3> QED
      <4>1. CASE a = "verify"
        BY <2>1, <3>3, <4>1 DEF SignedSoFar, SignedBy, To, Actions
      <4>2. CASE a = "audit_approve"
        BY <3>1, <3>2, <3>3, <2>1, <4>2 DEF SignedSoFar, SignedBy, From, To, Actions, Stages
      <4>3. CASE a = "admin_approve"
        BY <3>1, <3>2, <3>3, <2>1, <4>3 DEF SignedSoFar, SignedBy, From, To, Actions, Stages
      <4>4. CASE a = "mark_paid"
        BY <3>1, <3>2, <3>3, <2>1, <4>4 DEF SignedSoFar, SignedBy, From, To, Actions, Stages
      <4>5. CASE a \in {"reject", "request_changes"}
        BY <3>3, <4>5 DEF SignedSoFar, To, Actions
      <4> QED
        BY <2>1, <4>1, <4>2, <4>3, <4>4, <4>5 DEF Actions
  <2>13. Signatures'
    <3>1. ASSUME NEW e \in Expenses, e # x, e \notin torn'
          PROVE  SignedSoFar(e)'
      BY <2>2, <2>6, <2>7, <3>1 DEF Signatures, SignedSoFar, TornBy
    <3> QED
      BY <2>12, <3>1 DEF Signatures
  <2> QED
    BY <2>5, <2>10, <2>11, <2>13
<1>8. ASSUME NEW t \in Tabs, FinishEdit(t)
      PROVE  ExpenseInv'
  <2> DEFINE again == tab[t].saw \in {"rejected", "changes_requested"}
             moved == tab[t].acct # "none"
  <2>1. PICK x \in Expenses :
          x = tab[t].e /\ Exists(x) /\ (moved => tab[t].acct \in Accounts /\ tab[t].grp \in Groups)
    BY <1>8 DEF FinishEdit, TabAt, Screens, Screen, OnRequest
  <2> DEFINE rec == exp'[x]
  <2>2. /\ exp' = [exp EXCEPT ![x].st = IF again THEN "pending" ELSE @,
                               ![x].acct = IF moved THEN tab[t].acct ELSE @,
                               ![x].cargo = IF moved THEN tab[t].grp = "pfi_direct" ELSE @]
        /\ signed' = [signed EXCEPT ![x] = IF again THEN {} ELSE @]
        /\ torn' = TornBy(t) \cup (IF moved THEN Misbooked(tab[t].acct, tab[t].grp) ELSE {})
        /\ UNCHANGED group
    BY <1>8, <2>1 DEF FinishEdit
  <2>3. exp[x] \in [st: Statuses, by: Staff, gone: BOOLEAN, direct: BOOLEAN, acct: Accounts, cargo: BOOLEAN]
    BY <2>1 DEF TypeOKExpenses, Exists, NoExp
  <2>4. /\ rec \in [st: Statuses, by: Staff, gone: BOOLEAN, direct: BOOLEAN, acct: Accounts, cargo: BOOLEAN]
        /\ rec.st = (IF again THEN "pending" ELSE exp[x].st) /\ rec.gone = exp[x].gone /\ rec.direct = exp[x].direct
        /\ rec.acct = (IF moved THEN tab[t].acct ELSE exp[x].acct)
        /\ rec.cargo = (IF moved THEN tab[t].grp = "pfi_direct" ELSE exp[x].cargo)
    BY <2>1, <2>2, <2>3 DEF TypeOKExpenses, Statuses, Open
  <2>6. \A e \in Expenses : /\ exp'[e] = IF e = x THEN rec ELSE exp[e]
                            /\ signed'[e] = IF e = x /\ again THEN {} ELSE signed[e]
    BY <2>1, <2>2 DEF TypeOKExpenses
  <2>11. DOMAIN exp' = Expenses /\ DOMAIN signed' = Expenses /\ exp' = [e \in Expenses |-> exp'[e]]
    BY <2>1, <2>2 DEF TypeOKExpenses
  <2> HIDE DEF rec
  <2>5. TypeOKExpenses'
    <3>1. \A e \in Expenses :
            exp'[e] \in {NoExp} \cup [st: Statuses, by: Staff, gone: BOOLEAN, direct: BOOLEAN,
                                     acct: Accounts, cargo: BOOLEAN]
      BY <2>4, <2>6 DEF TypeOKExpenses
    <3>2. \A e \in Expenses : signed'[e] \in SUBSET Stages
      BY <2>6 DEF TypeOKExpenses
    <3>3. signed' = [e \in Expenses |-> signed'[e]]
      BY <2>2 DEF TypeOKExpenses
    <3>4. torn' \subseteq Expenses \cup Accounts
      BY <2>1, <2>2 DEF TypeOKExpenses, TornBy, Misbooked
    <3> QED
      BY <2>2, <2>11, <3>1, <3>2, <3>3, <3>4 DEF TypeOKExpenses
  <2>7. rec.st # "none"
    BY <2>4 DEF Statuses, Open
  <2>8. Screens'
    BY <1>8, <2>1, <2>6, <2>7, ClosesScreen DEF FinishEdit, Exists
  <2>12. torn \subseteq torn'
    BY <2>2 DEF TornBy
  <2>13. \A e \in Expenses : e # x => exp'[e] = exp[e] /\ signed'[e] = signed[e]
    BY <2>6
  <2>14. exp'[x] = rec /\ signed'[x] = IF again THEN {} ELSE signed[x]
    BY <2>1, <2>6
  <2>9. Signatures'
    <3>1. ASSUME x \notin torn'
          PROVE  SignedSoFar(x)'
      <4>1. SignedSoFar(x)
        BY <2>1, <2>12, <3>1 DEF Signatures
      <4> QED
        BY <2>4, <2>14, <4>1 DEF SignedSoFar
    <3>2. ASSUME NEW e \in Expenses, e # x, e \notin torn'
          PROVE  SignedSoFar(e)'
      BY <2>12, <2>13, <3>2 DEF Signatures, SignedSoFar
    <3> QED
      BY <3>1, <3>2 DEF Signatures
  <2>10. CargoIsTheAccounts'
    <3>1. moved /\ tab[t].acct \notin torn' => group[tab[t].acct] = tab[t].grp
      BY <2>2 DEF Misbooked
    <3>2. Shown(x)' /\ exp'[x].acct \notin torn' => (exp'[x].cargo <=> group[exp'[x].acct] = "pfi_direct")
      BY <2>1, <2>4, <2>12, <2>14, <3>1 DEF CargoIsTheAccounts, Shown, Exists
    <3>3. ASSUME NEW e \in Expenses, e # x, Shown(e)', exp'[e].acct \notin torn'
          PROVE  exp'[e].cargo <=> group[exp'[e].acct] = "pfi_direct"
      BY <2>12, <2>13, <3>3 DEF CargoIsTheAccounts, Shown, Exists
    <3> QED
      BY <2>2, <3>2, <3>3 DEF CargoIsTheAccounts
  <2> QED
    BY <2>5, <2>8, <2>9, <2>10
<1>9. ASSUME NEW t \in Tabs, FinishDrop(t)
      PROVE  ExpenseInv'
  <2>1. PICK x \in Expenses : x = tab[t].e /\ Exists(x)
    BY <1>9 DEF FinishDrop, TabAt, Screens, Screen, OnRequest
  <2>2. exp' = [exp EXCEPT ![x].gone = TRUE] /\ torn' = TornBy(t) /\ UNCHANGED <<signed, group>>
    BY <1>9, <2>1 DEF FinishDrop
  <2>3. exp[x] \in [st: Statuses, by: Staff, gone: BOOLEAN, direct: BOOLEAN, acct: Accounts, cargo: BOOLEAN]
    BY <2>1 DEF TypeOKExpenses, Exists, NoExp
  <2>4. TypeOKExpenses'
    BY <2>1, <2>2, <2>3 DEF TypeOKExpenses, TornBy
  <2>5. \A e \in Expenses : exp'[e] = IF e = x THEN [exp[x] EXCEPT !.gone = TRUE] ELSE exp[e]
    BY <2>1, <2>2 DEF TypeOKExpenses
  <2>6. exp'[x].st = exp[x].st /\ exp'[x].gone /\ exp'[x].direct = exp[x].direct
    BY <2>1, <2>3, <2>5
  <2>7. Screens'
    BY <1>9, <2>1, <2>5, <2>6, ClosesScreen DEF FinishDrop, Exists
  <2>8. Signatures'
    BY <2>1, <2>2, <2>5, <2>6 DEF Signatures, SignedSoFar, TornBy
  <2>9. CargoIsTheAccounts'
    BY <2>1, <2>2, <2>5, <2>6 DEF CargoIsTheAccounts, Shown, Exists, TornBy
  <2> QED
    BY <2>4, <2>7, <2>8, <2>9
<1>10. ASSUME NEW t \in Tabs, FinishRegroup(t)
       PROVE  ExpenseInv'
  <2> DEFINE a == tab[t].acct
             g == tab[t].grp
  <2>1. a \in Accounts /\ g \in Groups \cup {"deleted"}
    BY <1>10 DEF FinishRegroup, TabAt, Screens, Screen
  <2>2. /\ group' = [group EXCEPT ![a] = g] /\ torn' = (IF Unused(a) THEN torn ELSE torn \cup {a})
        /\ UNCHANGED <<exp, signed>>
    BY <1>10 DEF FinishRegroup
  <2>3. TypeOKExpenses' /\ Signatures'
    BY <2>1, <2>2 DEF TypeOKExpenses, Signatures, SignedSoFar
  <2>4. Screens'
    BY <1>10, <2>2, ClosesScreen DEF FinishRegroup, Exists
  <2>5. CargoIsTheAccounts'
    BY <2>1, <2>2 DEF CargoIsTheAccounts, Shown, Exists, Unused, Posted, TypeOKExpenses
  <2> QED
    BY <2>3, <2>4, <2>5
<1>11. ASSUME NEW t \in Tabs, GiveUp(t)
       PROVE  ExpenseInv'
  <2>1. Screens'
    BY <1>11, ClosesScreen DEF GiveUp, Table, Exists
  <2> QED
    BY <1>11, <2>1
       DEF GiveUp, Table, TypeOKExpenses, Signatures, SignedSoFar, CargoIsTheAccounts, Shown, Exists
<1>12. CASE UNCHANGED expVars
  BY <1>12 DEF expVars, TypeOKExpenses, Screens, Screen, Signatures, SignedSoFar, CargoIsTheAccounts, Shown, Exists
<1> QED
  BY <1>1, <1>2, <1>3, <1>4, <1>5, <1>6, <1>7, <1>8, <1>9, <1>10, <1>11, <1>12 DEF NextExpenses

LEMMA ExpensesKept == SpecExpenses => []ExpenseInv
BY ExpenseInit, ExpenseStep, PTL DEF SpecExpenses

-----------------------------------------------------------------------------
(* Every request, signature and account keeps its type, whoever writes     *)
(* over whom.                                                              *)
THEOREM ExpenseTypes == SpecExpenses => []TypeOKExpenses
<1>1. ExpenseInv => TypeOKExpenses
  BY DEF ExpenseInv
<1> QED
  BY <1>1, ExpensesKept, PTL

(* reviewExpense: for any staff, roles and screens, a request is paid only *)
(* after all four signatures, unless a super admin recorded it so or one   *)
(* handler wrote over another.                                             *)
THEOREM PaidIsSigned == SpecExpenses => []PaidWasSigned
<1>1. ExpenseInv => PaidWasSigned
  BY DEF ExpenseInv, Signatures, SignedSoFar, PaidWasSigned
<1> QED
  BY <1>1, ExpensesKept, PTL

(* resolveBooking, updateCategory: a request names a cargo exactly when    *)
(* its account is one of a cargo.                                          *)
THEOREM CargoFollowsAccount == SpecExpenses => []CargoIsTheAccounts
<1>1. ExpenseInv => CargoIsTheAccounts
  BY DEF ExpenseInv
<1> QED
  BY <1>1, ExpensesKept, PTL

(* Both, as the runs check them.                                           *)
THEOREM ExpensesDoHold == SpecExpenses => []ExpensesHold
<1> QED
  BY PaidIsSigned, CargoFollowsAccount, PTL DEF ExpensesHold

(* A paid request is closed: only a super admin, or a screen that read it  *)
(* before it was paid, changes anything about it.                          *)
THEOREM PaidIsClosed == SpecExpenses => ClosedUnlessStale
<1> DEFINE Closed(e) ==
      Paid(e) /\ exp'[e] # exp[e] =>
        \E t \in Tabs : /\ tab[t].e = e /\ tab'[t] = NoTab
                        /\ ~ReadPaid(t) \/ (IsSuper(tab[t].who) /\ exp'[e].st = "paid")
<1>1. ExpenseInv /\ [NextExpenses]_expVars => [\A e \in Expenses : Closed(e)]_expVars
  <2> SUFFICES ASSUME ExpenseInv, NextExpenses, NEW e \in Expenses, Paid(e), exp'[e] # exp[e]
               PROVE  \E t \in Tabs : /\ tab[t].e = e /\ tab'[t] = NoTab
                                      /\ ~ReadPaid(t) \/ (IsSuper(tab[t].who) /\ exp'[e].st = "paid")
    OBVIOUS
  <2> USE DEF ExpenseInv
  <2>1. exp[e] \in [st: Statuses, by: Staff, gone: BOOLEAN, direct: BOOLEAN, acct: Accounts, cargo: BOOLEAN]
    BY DEF Paid, TypeOKExpenses, NoExp
  <2>2. \A t \in Tabs : Ends(t) => tab'[t] = NoTab
    BY DEF Ends, Screens
  <2>3. ~UNCHANGED Table
    BY DEF Table
  <2>4. ASSUME NEW t \in Tabs, FinishCreate(t)
        PROVE  FALSE
    <3>1. ~Exists(tab[t].e)
      BY <2>4 DEF FinishCreate, TabAt, Screens, Screen
    <3> QED
      BY <2>4, <3>1 DEF FinishCreate, Exists, Paid, TypeOKExpenses
  <2>5. ASSUME NEW t \in Tabs, FinishReview(t)
        PROVE  tab[t].e = e /\ tab'[t] = NoTab /\ ~ReadPaid(t)
    <3>1. tab[t].do \in Actions /\ tab[t].saw \in From(tab[t].do)
      BY <2>5 DEF FinishReview, TabAt, Screens, Screen
    <3>2. tab[t].saw # "paid"
      BY <3>1 DEF From, Actions, Open
    <3> QED
      BY <2>2, <2>5, <3>2 DEF FinishReview, ReadPaid, TypeOKExpenses
  <2>6. ASSUME NEW t \in Tabs, FinishEdit(t)
        PROVE  tab[t].e = e /\ tab'[t] = NoTab /\ (ReadPaid(t) => IsSuper(tab[t].who) /\ exp'[e].st = "paid")
    <3>1. tab[t].e = e
      BY <2>6 DEF FinishEdit, TypeOKExpenses
    <3>2. tab[t].saw = "paid" => IsSuper(tab[t].who)
      BY <2>6 DEF FinishEdit, TabAt, Screens, Screen
    <3>3. tab[t].saw = "paid" => exp'[e].st = exp[e].st
      BY <2>1, <2>6, <3>1 DEF FinishEdit, TypeOKExpenses
    <3> QED
      BY <2>2, <2>6, <3>1, <3>2, <3>3 DEF FinishEdit, ReadPaid, Paid
  <2>7. ASSUME NEW t \in Tabs, FinishDrop(t)
        PROVE  tab[t].e = e /\ tab'[t] = NoTab /\ (ReadPaid(t) => IsSuper(tab[t].who) /\ exp'[e].st = "paid")
    <3>1. tab[t].e = e
      BY <2>7 DEF FinishDrop, TypeOKExpenses
    <3>2. tab[t].saw = "paid" => IsSuper(tab[t].who)
      BY <2>7 DEF FinishDrop, TabAt, Screens, Screen
    <3>3. exp'[e].st = exp[e].st
      BY <2>1, <2>7, <3>1 DEF FinishDrop, TypeOKExpenses
    <3> QED
      BY <2>2, <2>7, <3>1, <3>2, <3>3 DEF FinishDrop, ReadPaid, Paid
  <2>8. \A t \in Tabs : ~FinishRegroup(t) /\ ~GiveUp(t)
    BY <2>3 DEF FinishRegroup, GiveUp
  <2>9. \E t \in Tabs : FinishReview(t) \/ FinishEdit(t) \/ FinishDrop(t)
    BY <2>3, <2>4, <2>8 DEF NextExpenses, BeginCreate, BeginReview, BeginEdit, BeginDrop, BeginRegroup
  <2> QED
    BY <2>5, <2>6, <2>7, <2>9
<1> QED
  BY <1>1, ExpensesKept, PTL DEF SpecExpenses, ClosedUnlessStale

-----------------------------------------------------------------------------
(* Commissions.  What a handler has read is about rows that are there; it  *)
(* read a row it is going to settle or enlarge before that was paid.       *)
Rates     == {0} \cup DepotRates \cup AgreedRates
PriceType == [rate: Rates, src: {"none", "depot_product", "customer"}]
ComType   == [ord: Orders, qty: 1..MaxLitres, rate: Rates, src: {"none", "depot_product", "customer"},
              st: {"pending", "paid", "skipped"}]
ReadType  == [row: Coms, was: PriceType, own: AgreedRates \cup {NoRate}]
TaskType  == [at: {"idle", "creating", "paid", "skipped", "pending", "saved", "repricing", "agreed", "sweeping"},
              ord: Orders \cup {"none"}, row: Coms \cup {"none"}, saw: {"none", "pending", "paid", "skipped"},
              rows: SUBSET ReadType, qty: 0..MaxLitres, depot: {0} \cup DepotRates,
              own: AgreedRates \cup {NoRate}, cust: Customers \cup {"none"}]
TaskFits(r, C) ==
  /\ r.at = "creating" => /\ r.ord \in Orders /\ r.qty \in 1..MaxLitres
                          /\ r.row # "none" => C[r.row].st # "none" /\ C[r.row].ord = r.ord
  /\ r.at \in {"paid", "skipped", "pending"} => r.row \in Coms /\ C[r.row].st # "none"
  /\ r.at \in {"creating", "paid", "skipped"} => r.saw # "paid"
  /\ r.at = "agreed" => r.cust \in Customers
  /\ r.at = "repricing" => \A q \in r.rows : q.own = NoRate
  /\ \A q \in r.rows : C[q.row].st # "none"
  /\ \A p, q \in r.rows : p.row = q.row => p = q
TasksFit == \A h \in Handlers : TaskFits(task[h], com)

(* A commission that waits at another price is waiting for a sweep: one    *)
(* that has not read its queue yet, or one that read this row and what it  *)
(* read still holds.                                                       *)
OwnOf(c)  == agreed[CustomerOf[com[c].ord]]
Waited(c, r) ==
  \/ r.at = "saved" /\ OwnOf(c) = NoRate
  \/ r.at = "agreed" /\ r.cust = CustomerOf[com[c].ord]
  \/ r.at = "repricing" /\ r.depot = depotRate /\ \E q \in r.rows : q.row = c /\ q.own = OwnOf(c)
  \/ r.at = "sweeping" /\ r.own = OwnOf(c) /\ \E q \in r.rows : q.row = c /\ q.was = PriceOf(c)
PricedOrWaiting == \A c \in Pending \ loose :
  PriceOf(c) = Resolved(com[c].ord) \/ \E h \in Handlers : Waited(c, task[h])
OneOfAnOrder == \A o \in Orders \ twice : \A c, d \in Coms : com[c].ord = o /\ com[d].ord = o => c = d
ComInv == TypeOKCommissions /\ task \in [Handlers -> TaskType] /\ TasksFit /\ OneOfAnOrder /\ PricedOrWaiting

-----------------------------------------------------------------------------
LEMMA ComTypes ==
  ASSUME TypeOKCommissions
  PROVE  /\ com \in [Coms -> {NoCom} \cup ComType] /\ NoCom.st = "none" /\ NoCom.ord \notin Orders
         /\ \A c \in Coms : /\ Raised(c) => com[c] \in ComType /\ com[c].ord \in Orders
                            /\ ~Raised(c) => com[c] = NoCom
                            /\ com[c].ord \in Orders => Raised(c)
         /\ depotRate \in DepotRates /\ agreed \in [Customers -> AgreedRates \cup {NoRate}]
         /\ \A o \in Orders : Own(o) \in AgreedRates \cup {NoRate}
         /\ Pending \subseteq Coms /\ \A c \in Pending : Raised(c)
<1>1. com \in [Coms -> {NoCom} \cup ComType] /\ NoCom.st = "none" /\ NoCom.ord \notin Orders
  BY CommissionsAssumption DEF TypeOKCommissions, ComType, Rates, NoCom
<1>2. \A c \in Coms : com[c] = NoCom \/ (com[c] \in ComType /\ com[c].st # "none" /\ com[c].ord \in Orders)
  BY <1>1 DEF ComType
<1> QED
  BY <1>1, <1>2, CommissionsAssumption DEF TypeOKCommissions, Raised, Own, Pending, ComType

LEMMA PricedIsPrice ==
  ASSUME NEW depot \in {0} \cup DepotRates, NEW own \in AgreedRates \cup {NoRate}
  PROVE  /\ Priced(depot, own) \in PriceType
         /\ Priced(depot, own) = [rate |-> Priced(depot, own).rate, src |-> Priced(depot, own).src]
BY DEF Priced, PriceType, Rates

KeepsRows(C, D) == \A c \in Coms : C[c].st # "none" => D[c].st # "none" /\ D[c].ord = C[c].ord
LEMMA FitsOn ==
  ASSUME NEW r \in TaskType, NEW C, NEW D, TaskFits(r, C), KeepsRows(C, D)
  PROVE  TaskFits(r, D)
BY DEF KeepsRows, TaskFits, TaskType, ReadType

LEMMA ComInit == InitCommissions => ComInv
<1> SUFFICES ASSUME InitCommissions PROVE ComInv
  OBVIOUS
<1>1. /\ com = [c \in Coms |-> NoCom] /\ task = [h \in Handlers |-> NoTask] /\ NoTask \in TaskType
      /\ NoTask.at = "idle" /\ NoTask.rows = {} /\ NoCom.st = "none" /\ NoCom.ord \notin Orders
  BY CommissionsAssumption DEF InitCommissions, NoTask, NoCom, TaskType
<1>2. TypeOKCommissions
  BY <1>1, CommissionsAssumption DEF InitCommissions, TypeOKCommissions
<1>3. TasksFit
  BY <1>1 DEF TasksFit, TaskFits
<1>4. OneOfAnOrder /\ PricedOrWaiting
  BY <1>1 DEF OneOfAnOrder, PricedOrWaiting, Pending
<1> QED
  BY <1>1, <1>2, <1>3, <1>4 DEF ComInv

(* A handler reads, goes on or stops; whom it leaves behind is loose.      *)
LEMMA TaskStep ==
  ASSUME ComInv, NEW h \in Handlers, NEW s \in TaskType, task' = [task EXCEPT ![h] = s], TaskFits(s, com),
         com' = com, depotRate' = depotRate, agreed' = agreed, litres' = litres, twice' = twice,
         loose \subseteq loose', loose' \subseteq Coms,
         \A c \in Pending \ loose' : Waited(c, task[h]) /\ PriceOf(c) # Resolved(com[c].ord) => Waited(c, s)
  PROVE  ComInv'
<1>1. task \in [Handlers -> TaskType]
  BY DEF ComInv
<1>2. task' \in [Handlers -> TaskType] /\ task'[h] = s /\ \A g \in Handlers \ {h} : task'[g] = task[g]
  BY <1>1
<1>3. TypeOKCommissions'
  BY DEF ComInv, TypeOKCommissions
<1>4. TasksFit'
  BY <1>2 DEF ComInv, TasksFit
<1>5. OneOfAnOrder'
  BY DEF ComInv, OneOfAnOrder
<1>6. PricedOrWaiting'
  <2> SUFFICES ASSUME NEW c \in Pending \ loose', PriceOf(c) # Resolved(com[c].ord)
               PROVE  \E g \in Handlers : Waited(c, task'[g])
    BY DEF PricedOrWaiting, Pending, PriceOf, Resolved, Own, Waited, OwnOf
  <2>1. PICK g \in Handlers : Waited(c, task[g])
    BY DEF ComInv, PricedOrWaiting
  <2> QED
    BY <1>2, <2>1
<1> QED
  BY <1>2, <1>3, <1>4, <1>5, <1>6 DEF ComInv

(* A handler writes one row, and is done with it: at the price of now, or  *)
(* the row is loose.                                                       *)
LEMMA RowStep ==
  ASSUME ComInv, NEW h \in Handlers, NEW s \in TaskType, task' = [task EXCEPT ![h] = s], TaskFits(s, com),
         depotRate' = depotRate, agreed' = agreed, litres' = litres,
         NEW c \in Coms, NEW v \in ComType, com' = [com EXCEPT ![c] = v],
         Raised(c) => v.ord = com[c].ord,
         loose' \in {loose \cup {c}, loose \ {c}, loose},
         v.st = "pending" /\ c \notin loose' => [rate |-> v.rate, src |-> v.src] = Resolved(v.ord),
         Raised(c) => twice' = twice,
         ~Raised(c) => twice' = IF Existing(v.ord) = {} THEN twice ELSE twice \cup {v.ord},
         \A d \in Coms \ {c} : Waited(d, task[h]) => Waited(d, s)
  PROVE  ComInv'
<1>1. /\ task \in [Handlers -> TaskType] /\ TypeOKCommissions
      /\ com \in [Coms -> {NoCom} \cup ComType] /\ NoCom.st = "none" /\ NoCom.ord \notin Orders
      /\ v.ord \in Orders /\ v.st # "none"
  <2>1. v.ord \in Orders /\ v.st # "none"
    BY DEF ComType
  <2> QED
    BY <2>1, ComTypes DEF ComInv
<1>2. task' \in [Handlers -> TaskType] /\ task'[h] = s /\ \A g \in Handlers \ {h} : task'[g] = task[g]
  BY <1>1
<1>3. com'[c] = v /\ \A d \in Coms \ {c} : com'[d] = com[d]
  BY <1>1
<1>4. TypeOKCommissions'
  <2>1. com' \in [Coms -> {NoCom} \cup ComType]
    BY <1>1
  <2>2. twice' \subseteq Orders /\ loose' \subseteq Coms
    BY <1>1 DEF TypeOKCommissions
  <2> QED
    BY <1>1, <2>1, <2>2 DEF TypeOKCommissions, ComType, Rates
<1>5. TasksFit'
  <2>1. KeepsRows(com, com')
    BY <1>1, <1>3 DEF KeepsRows, Raised
  <2>2. \A g \in Handlers : TaskFits(task'[g], com)
    BY <1>2 DEF ComInv, TasksFit
  <2>3. ASSUME NEW g \in Handlers PROVE TaskFits(task'[g], com')
    <3>1. task'[g] \in TaskType
      BY <1>2
    <3> QED
      BY <2>1, <2>2, <3>1, FitsOn
  <2> QED
    BY <2>3 DEF TasksFit
<1>6. OneOfAnOrder'
  <2> SUFFICES ASSUME NEW o \in Orders \ twice', NEW d \in Coms, NEW e \in Coms, com'[d].ord = o, com'[e].ord = o
               PROVE  d = e
    BY DEF OneOfAnOrder
  <2>1. CASE Raised(c)
    <3>1. com[d].ord = o /\ com[e].ord = o /\ o \notin twice
      BY <1>3, <2>1
    <3> QED
      BY <3>1 DEF ComInv, OneOfAnOrder
  <2>2. CASE ~Raised(c)
    <3>1. o \notin twice /\ (v.ord = o => \A x \in Coms : com[x].ord # o)
      BY <2>2 DEF Existing
    <3> QED
      BY <1>3, <3>1 DEF ComInv, OneOfAnOrder
  <2> QED
    BY <2>1, <2>2
<1>7. PricedOrWaiting'
  <2> SUFFICES ASSUME NEW d \in Coms, com'[d].st = "pending", d \notin loose'
               PROVE  PriceOf(d)' = Resolved(com'[d].ord) \/ \E g \in Handlers : Waited(d, task[g])'
    BY DEF PricedOrWaiting, Pending, PriceOf, Resolved, Own, Waited, OwnOf
  <2>1. CASE d = c
    BY <1>3, <2>1 DEF PriceOf
  <2>2. CASE d # c
    <3>1. d \in Pending \ loose /\ PriceOf(d)' = PriceOf(d) /\ com'[d] = com[d]
      BY <1>3, <2>2 DEF Pending, PriceOf
    <3>2. CASE PriceOf(d) = Resolved(com[d].ord)
      BY <3>1, <3>2
    <3>3. CASE \E g \in Handlers : Waited(d, task[g])
      <4>1. \E g \in Handlers : Waited(d, task'[g])
        BY <1>2, <2>2, <3>3
      <4> QED
        BY <3>1, <4>1 DEF Waited, OwnOf, PriceOf
    <3> QED
      BY <3>1, <3>2, <3>3 DEF ComInv, PricedOrWaiting
  <2> QED
    BY <2>1, <2>2
<1> QED
  BY <1>2, <1>4, <1>5, <1>6, <1>7 DEF ComInv

LEMMA NoTaskFacts ==
  /\ NoTask \in TaskType /\ NoTask.at = "idle" /\ NoTask.rows = {} /\ NoTask.row = "none" /\ NoTask.saw = "none"
  /\ \A C : TaskFits(NoTask, C)
  /\ \A c : ~Waited(c, NoTask)
<1>1. 0 \in 0..MaxLitres
  BY CommissionsAssumption
<1>2. NoTask \in TaskType
  BY <1>1 DEF NoTask, TaskType
<1>3. NoTask.at = "idle" /\ NoTask.rows = {} /\ NoTask.row = "none" /\ NoTask.saw = "none"
  BY DEF NoTask
<1> QED
  BY <1>2, <1>3 DEF TaskFits, Waited

(* A rate changes, and a sweep of the rows it prices is due.               *)
LEMMA DepotRateStep ==
  ASSUME ComInv, NEW h \in Handlers, NEW r \in DepotRates, SetDepotRate(h, r)
  PROVE  ComInv'
<1> DEFINE s == [NoTask EXCEPT !.at = "saved"]
<1>0. /\ s \in TaskType /\ s.at = "saved" /\ s.rows = {}
      /\ \A C : TaskFits(s, C)
  <2>1. s \in TaskType /\ s.at = "saved" /\ s.rows = {}
    BY NoTaskFacts DEF TaskType
  <2> HIDE DEF s
  <2> QED
    BY <2>1 DEF TaskFits
<1>1. /\ r # depotRate /\ depotRate' = r /\ com' = com /\ agreed' = agreed /\ litres' = litres /\ twice' = twice
      /\ task[h] = NoTask /\ task' = [task EXCEPT ![h] = s]
      /\ loose' = IF Opens(r) THEN loose \cup {c \in Coms : Raised(c) /\ Own(com[c].ord) # NoRate} ELSE loose
  BY DEF SetDepotRate, Takes
<1> HIDE DEF s
<1>2. task \in [Handlers -> TaskType] /\ TypeOKCommissions
  BY DEF ComInv
<1>3. task' \in [Handlers -> TaskType] /\ task'[h] = s /\ \A g \in Handlers \ {h} : task'[g] = task[g]
  BY <1>0, <1>1, <1>2
<1>4. TypeOKCommissions'
  BY <1>1, <1>2 DEF TypeOKCommissions
<1>5. TasksFit' /\ OneOfAnOrder'
  BY <1>0, <1>1, <1>3 DEF ComInv, TasksFit, OneOfAnOrder
<1>6. PricedOrWaiting'
  <2> SUFFICES ASSUME NEW c \in Coms, com[c].st = "pending", c \notin loose',
                      PriceOf(c) # Priced(r, Own(com[c].ord))
               PROVE  \E g \in Handlers : Waited(c, task[g])'
    BY <1>1 DEF PricedOrWaiting, Pending, PriceOf, Resolved, Own
  <2>1. CASE Own(com[c].ord) = NoRate
    <3>1. Waited(c, task[h])'
      BY <1>0, <1>1, <1>3, <2>1 DEF Waited, OwnOf, Own
    <3> QED
      BY <3>1
  <2>2. CASE Own(com[c].ord) # NoRate
    <3>1. ~Opens(r) /\ c \notin loose
      BY <1>1, <2>2 DEF Raised
    <3>2. Priced(r, Own(com[c].ord)) = Priced(depotRate, Own(com[c].ord))
      BY <1>1, <2>2, <3>1 DEF Priced, Opens
    <3>3. PICK g \in Handlers : Waited(c, task[g])
      BY <3>1, <3>2 DEF ComInv, PricedOrWaiting, Pending, Resolved
    <3>4. task[g].at # "saved" /\ task[g].at # "repricing" /\ g # h
      <4>1. OwnOf(c) # NoRate /\ g # h
        BY <1>1, <2>2, <3>3, NoTaskFacts DEF OwnOf, Own
      <4>2. task[g].at = "repricing" => \A q \in task[g].rows : q.own = NoRate
        BY DEF ComInv, TasksFit, TaskFits
      <4> QED
        BY <3>3, <4>1, <4>2 DEF Waited
    <3>5. Waited(c, task[g])'
      BY <1>1, <1>3, <3>3, <3>4 DEF Waited, OwnOf, PriceOf
    <3> QED
      BY <3>5
  <2> QED
    BY <2>1, <2>2
<1> QED
  BY <1>3, <1>4, <1>5, <1>6 DEF ComInv

LEMMA CustomerRateStep ==
  ASSUME ComInv, NEW h \in Handlers, NEW k \in Customers, NEW r \in AgreedRates \cup {NoRate},
         SetCustomerRate(h, k, r)
  PROVE  ComInv'
<1> DEFINE s == [NoTask EXCEPT !.at = "agreed", !.cust = k]
<1>0. /\ s \in TaskType /\ s.at = "agreed" /\ s.rows = {} /\ s.cust = k
      /\ \A C : TaskFits(s, C)
  <2>1. s \in TaskType /\ s.at = "agreed" /\ s.rows = {} /\ s.cust = k
    BY NoTaskFacts DEF TaskType
  <2> HIDE DEF s
  <2> QED
    BY <2>1 DEF TaskFits
<1>1. /\ agreed' = [agreed EXCEPT ![k] = r] /\ com' = com /\ depotRate' = depotRate /\ litres' = litres
      /\ twice' = twice /\ loose' = loose
      /\ task[h] = NoTask /\ task' = [task EXCEPT ![h] = s]
  BY DEF SetCustomerRate, Takes
<1> HIDE DEF s
<1>2. task \in [Handlers -> TaskType] /\ TypeOKCommissions
  BY DEF ComInv
<1>3. task' \in [Handlers -> TaskType] /\ task'[h] = s /\ \A g \in Handlers \ {h} : task'[g] = task[g]
  BY <1>0, <1>1, <1>2
<1>4. TypeOKCommissions'
  BY <1>1, <1>2 DEF TypeOKCommissions
<1>5. TasksFit' /\ OneOfAnOrder'
  BY <1>0, <1>1, <1>3 DEF ComInv, TasksFit, OneOfAnOrder
<1>6. PricedOrWaiting'
  <2> SUFFICES ASSUME NEW c \in Pending \ loose, PriceOf(c) # Resolved(com[c].ord)'
               PROVE  \E g \in Handlers : Waited(c, task[g])'
    BY <1>1 DEF PricedOrWaiting, Pending, PriceOf, Resolved, Own
  <2>1. CASE CustomerOf[com[c].ord] = k
    <3>1. Waited(c, task[h])'
      BY <1>0, <1>1, <1>3, <2>1 DEF Waited
    <3> QED
      BY <3>1
  <2>2. CASE CustomerOf[com[c].ord] # k
    <3>0. com[c].ord \in Orders
      <4>1. c \in Coms /\ Raised(c)
        BY <1>2, ComTypes
      <4> QED
        BY <1>2, <4>1, ComTypes
    <3>1. OwnOf(c)' = OwnOf(c) /\ Resolved(com[c].ord)' = Resolved(com[c].ord)
      BY <1>1, <1>2, <2>2, <3>0, CommissionsAssumption DEF OwnOf, Resolved, Own, TypeOKCommissions
    <3>3. PICK g \in Handlers : Waited(c, task[g])
      BY <3>1 DEF ComInv, PricedOrWaiting
    <3>4. g # h
      BY <1>1, <3>3, NoTaskFacts
    <3>5. Waited(c, task[g])'
      BY <1>1, <1>3, <3>1, <3>3, <3>4 DEF Waited, PriceOf
    <3> QED
      BY <3>5
  <2> QED
    BY <2>1, <2>2
<1> QED
  BY <1>3, <1>4, <1>5, <1>6 DEF ComInv

(* Handlers that read, go on or stop.                                      *)
LEMMA ReadForOrderStep ==
  ASSUME ComInv, NEW h \in Handlers, NEW o \in Orders, ReadForOrder(h, o)
  PROVE  ComInv'
<1> DEFINE read == [NoTask EXCEPT !.at = "creating", !.ord = o, !.qty = litres[o], !.depot = depotRate, !.own = Own(o)]
<1>a. /\ TypeOKCommissions /\ task \in [Handlers -> TaskType] /\ loose \subseteq Coms
      /\ litres[o] \in 1..MaxLitres /\ litres[o] \in 0..MaxLitres
  <2>1. TypeOKCommissions /\ litres[o] > 0
    BY DEF ComInv, ReadForOrder
  <2>2. litres[o] \in 0..MaxLitres
    BY <2>1 DEF TypeOKCommissions
  <2> QED
    BY <2>1, <2>2, CommissionsAssumption DEF ComInv, TypeOKCommissions
<1>b. depotRate \in {0} \cup DepotRates /\ Own(o) \in AgreedRates \cup {NoRate}
  BY <1>a, ComTypes
<1>1. /\ read \in TaskType /\ read.at = "creating" /\ read.ord = o /\ read.qty = litres[o]
      /\ read.row = "none" /\ read.saw = "none" /\ read.rows = {}
  <2>1. NoTask \in TaskType
    BY NoTaskFacts
  <2>2. read \in TaskType /\ read.at = "creating" /\ read.ord = o /\ read.qty = litres[o]
    BY <1>a, <1>b, <2>1 DEF TaskType
  <2>3. read.row = NoTask.row /\ read.saw = NoTask.saw /\ read.rows = NoTask.rows
    BY <2>1 DEF TaskType
  <2> QED
    BY <2>2, <2>3, NoTaskFacts
<1>2. /\ com' = com /\ depotRate' = depotRate /\ agreed' = agreed /\ litres' = litres /\ twice' = twice
      /\ loose' = loose /\ task[h] = NoTask
  BY DEF ReadForOrder, Takes
<1>3. \/ task' = [task EXCEPT ![h] = read]
      \/ \E c \in Existing(o) : ~IsPaid(c) /\ task' = [task EXCEPT ![h] = [read EXCEPT !.row = c, !.saw = com[c].st]]
  BY DEF ReadForOrder, Takes
<1> HIDE DEF read
<1>4. CASE task' = [task EXCEPT ![h] = read]
  <2>1. TaskFits(read, com)
    BY <1>a, <1>1 DEF TaskFits
  <2> QED
    BY <1>a, <1>1, <1>2, <1>4, <2>1, TaskStep, NoTaskFacts
<1>5. ASSUME NEW c \in Existing(o), ~IsPaid(c), task' = [task EXCEPT ![h] = [read EXCEPT !.row = c, !.saw = com[c].st]]
      PROVE  ComInv'
  <2> DEFINE s == [read EXCEPT !.row = c, !.saw = com[c].st]
  <2>1. c \in Coms /\ com[c].ord = o /\ com[c].st \in {"pending", "skipped"}
    <3>1. c \in Coms /\ com[c].ord = o
      BY DEF Existing
    <3>2. com[c] \in ComType
      BY <1>a, <3>1, ComTypes
    <3> QED
      BY <1>5, <3>1, <3>2 DEF IsPaid, ComType
  <2>2. /\ s \in TaskType /\ s.at = "creating" /\ s.ord = o /\ s.qty = litres[o] /\ s.row = c
        /\ s.saw = com[c].st /\ s.rows = {}
    BY <1>1, <2>1 DEF TaskType
  <2>3. task' = [task EXCEPT ![h] = s]
    BY <1>5
  <2> HIDE DEF s
  <2>4. TaskFits(s, com)
    BY <1>a, <2>1, <2>2 DEF TaskFits
  <2> QED
    BY <1>a, <1>2, <2>2, <2>3, <2>4, TaskStep, NoTaskFacts
<1> QED
  BY <1>3, <1>4, <1>5

LEMMA ReadToSettleStep ==
  ASSUME ComInv, NEW h \in Handlers, NEW c \in Coms, NEW st \in {"paid", "skipped", "pending"}, ReadToSettle(h, c, st)
  PROVE  ComInv'
<1> DEFINE s == [NoTask EXCEPT !.at = st, !.row = c, !.saw = com[c].st]
<1>a. task \in [Handlers -> TaskType] /\ loose \subseteq Coms
  BY DEF ComInv, TypeOKCommissions
<1>b. com[c].st \in {"pending", "skipped", "paid"} /\ (st # "pending" => com[c].st # "paid")
  BY DEF ReadToSettle
<1>1. s \in TaskType /\ s.at = st /\ s.row = c /\ s.saw = com[c].st /\ s.rows = {}
  BY <1>b, NoTaskFacts DEF TaskType
<1>2. /\ com' = com /\ depotRate' = depotRate /\ agreed' = agreed /\ litres' = litres /\ twice' = twice
      /\ loose' = loose /\ task[h] = NoTask /\ task' = [task EXCEPT ![h] = s]
  BY DEF ReadToSettle, Takes
<1> HIDE DEF s
<1>3. TaskFits(s, com)
  BY <1>b, <1>1 DEF TaskFits
<1> QED
  BY <1>a, <1>1, <1>2, <1>3, TaskStep, NoTaskFacts

(* What a sweep has read of some rows.                                     *)
LEMMA AsReadRows ==
  ASSUME ComInv, NEW S \in SUBSET Pending
  PROVE  /\ AsRead(S) \in SUBSET ReadType
         /\ \A q \in AsRead(S) : com[q.row].st # "none"
         /\ \A p, q \in AsRead(S) : p.row = q.row => p = q
         /\ \A c \in S : \E q \in AsRead(S) : q.row = c /\ q.was = PriceOf(c) /\ q.own = OwnOf(c)
         /\ \A q \in AsRead(S) : q.row \in S /\ q.own = OwnOf(q.row)
<1>1. \A c \in S : c \in Coms /\ com[c].st = "pending" /\ com[c] \in ComType /\ Own(com[c].ord) \in AgreedRates \cup {NoRate}
  <2> SUFFICES ASSUME NEW c \in S
               PROVE  c \in Coms /\ com[c].st = "pending" /\ com[c] \in ComType /\ Own(com[c].ord) \in AgreedRates \cup {NoRate}
    OBVIOUS
  <2>1. c \in Coms /\ com[c].st = "pending" /\ Raised(c)
    BY DEF Pending, Raised
  <2>2. com[c] \in ComType
    BY <2>1, ComTypes DEF ComInv
  <2> QED
    BY <2>1, <2>2, ComTypes DEF ComInv, ComType
<1>2. \A c \in S : PriceOf(c) \in PriceType
  BY <1>1 DEF PriceOf, PriceType, ComType
<1>3. AsRead(S) = {[row |-> c, was |-> PriceOf(c), own |-> OwnOf(c)] : c \in S}
  BY DEF AsRead, OwnOf, Own
<1>4. \A c \in S : OwnOf(c) \in AgreedRates \cup {NoRate}
  BY <1>1 DEF OwnOf, Own
<1>5. AsRead(S) \in SUBSET ReadType
  BY <1>1, <1>2, <1>3, <1>4 DEF ReadType
<1>6. /\ \A q \in AsRead(S) : com[q.row].st # "none"
      /\ \A p, q \in AsRead(S) : p.row = q.row => p = q
      /\ \A q \in AsRead(S) : q.row \in S /\ q.own = OwnOf(q.row)
  <2>1. ASSUME NEW q \in AsRead(S)
        PROVE  q.row \in S /\ q = [row |-> q.row, was |-> PriceOf(q.row), own |-> OwnOf(q.row)]
    <3>1. PICK c \in S : q = [row |-> c, was |-> PriceOf(c), own |-> OwnOf(c)]
      BY <1>3
    <3>2. q.row = c
      BY <3>1
    <3> QED
      BY <3>1, <3>2
  <2>2. \A p, q \in AsRead(S) : p.row = q.row => p = q
    BY <2>1
  <2> QED
    BY <1>1, <2>1, <2>2
<1>7. ASSUME NEW c \in S
      PROVE  \E q \in AsRead(S) : q.row = c /\ q.was = PriceOf(c) /\ q.own = OwnOf(c)
  <2> DEFINE q == [row |-> c, was |-> PriceOf(c), own |-> OwnOf(c)]
  <2>1. q \in AsRead(S) /\ q.row = c /\ q.was = PriceOf(c) /\ q.own = OwnOf(c)
    BY <1>3
  <2> QED
    BY <2>1
<1> QED
  BY <1>5, <1>6, <1>7

LEMMA ReadQueueStep ==
  ASSUME ComInv, NEW h \in Handlers, ReadDepotQueue(h) \/ ReadCustomerQueue(h)
  PROVE  ComInv'
<1>a. task \in [Handlers -> TaskType] /\ loose \subseteq Coms /\ TypeOKCommissions
  BY DEF ComInv, TypeOKCommissions
<1>b. /\ com' = com /\ depotRate' = depotRate /\ agreed' = agreed /\ litres' = litres /\ twice' = twice
      /\ loose' = loose
  BY DEF ReadDepotQueue, ReadCustomerQueue
<1>1. CASE ReadDepotQueue(h)
  <2> DEFINE S == {c \in Pending : ~OwnRate(c) /\ PriceOf(c) # Priced(depotRate, NoRate)}
             s == [NoTask EXCEPT !.at = "repricing", !.rows = AsRead(S), !.depot = depotRate]
  <2>1. task[h].at = "saved" /\ task' = [task EXCEPT ![h] = s]
    BY <1>1 DEF ReadDepotQueue, TaskAt, Becomes
  <2>2. S \in SUBSET Pending
    OBVIOUS
  <2>3. \A c \in Pending : OwnOf(c) = NoRate /\ PriceOf(c) # Resolved(com[c].ord) => c \in S
    BY DEF OwnRate, OwnOf, Own, Resolved
  <2> HIDE DEF S
  <2> DEFINE Q == AsRead(S)
  <2>4. /\ Q \in SUBSET ReadType
        /\ \A q \in Q : com[q.row].st # "none"
        /\ \A p, q \in Q : p.row = q.row => p = q
        /\ \A c \in S : \E q \in Q : q.row = c /\ q.was = PriceOf(c) /\ q.own = OwnOf(c)
    BY <2>2, AsReadRows
  <2>9. \A q \in Q : q.own = NoRate
    <3>1. \A q \in Q : q.row \in S /\ q.own = OwnOf(q.row)
      BY <2>2, AsReadRows
    <3>2. \A c \in S : OwnOf(c) = NoRate
      BY DEF S, OwnRate, OwnOf, Own
    <3> QED
      BY <3>1, <3>2
  <2> HIDE DEF Q
  <2>5. s \in TaskType /\ s.at = "repricing" /\ s.rows = Q /\ s.depot = depotRate
    BY <1>a, <2>4, NoTaskFacts, ComTypes DEF TaskType, Q
  <2> HIDE DEF s
  <2>6. TaskFits(s, com)
    BY <2>4, <2>5, <2>9 DEF TaskFits
  <2>7. ASSUME NEW c \in Pending, Waited(c, task[h]), PriceOf(c) # Resolved(com[c].ord)
        PROVE  Waited(c, s)
    BY <2>1, <2>3, <2>4, <2>5, <2>7 DEF Waited
  <2> QED
    BY <1>a, <1>b, <2>1, <2>5, <2>6, <2>7, TaskStep
<1>2. CASE ReadCustomerQueue(h)
  <2> DEFINE k == task[h].cust
             S == Pending \cap OfCustomer(k)
             s == [NoTask EXCEPT !.at = "sweeping", !.rows = AsRead(S), !.own = agreed[k], !.cust = k]
  <2>1. task[h].at = "agreed" /\ task' = [task EXCEPT ![h] = s]
    BY <1>2 DEF ReadCustomerQueue, TaskAt, Becomes
  <2>2. S \in SUBSET Pending
    OBVIOUS
  <2>3. \A c \in Pending : CustomerOf[com[c].ord] = k => c \in S /\ OwnOf(c) = agreed[k]
    BY DEF OfCustomer, OwnOf, Pending, Raised
  <2> HIDE DEF S
  <2> DEFINE Q == AsRead(S)
  <2>4. /\ Q \in SUBSET ReadType
        /\ \A q \in Q : com[q.row].st # "none"
        /\ \A p, q \in Q : p.row = q.row => p = q
        /\ \A c \in S : \E q \in Q : q.row = c /\ q.was = PriceOf(c) /\ q.own = OwnOf(c)
    BY <2>2, AsReadRows
  <2> HIDE DEF Q
  <2>8. k \in Customers /\ agreed[k] \in AgreedRates \cup {NoRate}
    BY <1>a, <2>1, ComTypes DEF ComInv, TasksFit, TaskFits
  <2>5. s \in TaskType /\ s.at = "sweeping" /\ s.rows = Q /\ s.own = agreed[k]
    BY <2>4, <2>8, NoTaskFacts DEF TaskType, Q
  <2> HIDE DEF s
  <2>6. TaskFits(s, com)
    BY <2>4, <2>5 DEF TaskFits
  <2>7. ASSUME NEW c \in Pending, Waited(c, task[h]), PriceOf(c) # Resolved(com[c].ord)
        PROVE  Waited(c, s)
    BY <2>1, <2>3, <2>4, <2>5, <2>7 DEF Waited
  <2> QED
    BY <1>a, <1>b, <2>1, <2>5, <2>6, <2>7, TaskStep
<1> QED
  BY <1>1, <1>2

(* Handlers that write a row.                                              *)
LEMMA InsertStep ==
  ASSUME ComInv, NEW h \in Handlers, NEW c \in Coms, InsertCommission(h, c)
  PROVE  ComInv'
<1> DEFINE j == task[h]
           price == Priced(j.depot, j.own)
           v == [ord |-> j.ord, qty |-> j.qty, rate |-> price.rate,
                 src |-> IF price = [rate |-> 0, src |-> "depot_product"] THEN "none" ELSE price.src,
                 st |-> IF price.rate > 0 THEN "pending" ELSE "skipped"]
<1>1. /\ j.at = "creating" /\ ~Raised(c) /\ com' = [com EXCEPT ![c] = v] /\ task' = [task EXCEPT ![h] = NoTask]
      /\ twice' = IF Existing(j.ord) = {} THEN twice ELSE twice \cup {j.ord}
      /\ loose' = IF Outdated(h, j.ord) THEN loose \cup {c} ELSE loose \ {c}
      /\ depotRate' = depotRate /\ agreed' = agreed /\ litres' = litres
  BY DEF InsertCommission, TaskAt, Loosened, Leaves, Kept
<1>2. j \in TaskType /\ TaskFits(j, com)
  BY DEF ComInv, TasksFit
<1>3. j.ord \in Orders /\ j.qty \in 1..MaxLitres /\ j.depot \in {0} \cup DepotRates /\ j.own \in AgreedRates \cup {NoRate}
  BY <1>1, <1>2 DEF TaskFits, TaskType
<1>4. price \in PriceType /\ price = [rate |-> price.rate, src |-> price.src]
  BY <1>3, PricedIsPrice
<1>5. j.depot = depotRate /\ j.own = Own(j.ord) => price = Resolved(j.ord)
  BY DEF Resolved
<1>6. \A d : ~Waited(d, j)
  BY <1>1 DEF Waited
<1> HIDE DEF j, price
<1>7. v \in ComType /\ v.ord = j.ord /\ v.rate = price.rate
  BY <1>3, <1>4 DEF ComType, PriceType
<1>8. v.st = "pending" => price.rate > 0 /\ v.src = price.src
  BY <1>4
<1> HIDE DEF v
<1>9. v.st = "pending" /\ c \notin loose' => [rate |-> v.rate, src |-> v.src] = Resolved(v.ord)
  BY <1>1, <1>4, <1>5, <1>7, <1>8 DEF Outdated, j
<1> QED
  BY <1>1, <1>6, <1>7, <1>9, RowStep, NoTaskFacts DEF j

LEMMA UpdateStep ==
  ASSUME ComInv, NEW h \in Handlers, UpdateCommission(h)
  PROVE  ComInv'
<1> DEFINE j == task[h]
           c == j.row
           price == Priced(j.depot, j.own)
           v == [com[c] EXCEPT !.rate = price.rate, !.src = price.src, !.qty = j.qty]
<1>1. /\ j.at = "creating" /\ c # "none" /\ task' = [task EXCEPT ![h] = NoTask] /\ twice' = twice
      /\ com' = [[com EXCEPT ![c].rate = price.rate, ![c].src = price.src] EXCEPT ![c].qty = j.qty]
      /\ loose' = IF Outdated(h, j.ord) THEN loose \cup {c} ELSE loose \ {c}
      /\ depotRate' = depotRate /\ agreed' = agreed /\ litres' = litres
  BY DEF UpdateCommission, TaskAt, Loosened, Leaves, Kept, Reprices
<1>2. j \in TaskType /\ TaskFits(j, com) /\ com \in [Coms -> {NoCom} \cup ComType]
  BY ComTypes DEF ComInv, TasksFit
<1>3. /\ j.ord \in Orders /\ j.qty \in 1..MaxLitres /\ j.depot \in {0} \cup DepotRates /\ j.own \in AgreedRates \cup {NoRate}
      /\ c \in Coms /\ com[c].st # "none" /\ com[c].ord = j.ord
  BY <1>1, <1>2 DEF TaskFits, TaskType
<1>4. price \in PriceType /\ price = [rate |-> price.rate, src |-> price.src]
  BY <1>3, PricedIsPrice
<1>5. c \notin loose' => price = Resolved(j.ord)
  BY <1>1 DEF Outdated, Resolved
<1>6. \A d : ~Waited(d, j)
  BY <1>1 DEF Waited
<1>a. com[c] \in ComType
  BY <1>3, ComTypes DEF Raised, ComInv
<1> HIDE DEF j, price, c
<1>7. v \in ComType /\ v.ord = j.ord /\ v.rate = price.rate /\ v.src = price.src
  BY <1>3, <1>4, <1>a DEF ComType, PriceType
<1>8. com' = [com EXCEPT ![c] = v]
  BY <1>1, <1>2, <1>3, <1>a DEF ComType
<1> HIDE DEF v
<1>9. v.st = "pending" /\ c \notin loose' => [rate |-> v.rate, src |-> v.src] = Resolved(v.ord)
  BY <1>4, <1>5, <1>7
<1>10. Raised(c) /\ v.ord = com[c].ord /\ c \in Coms /\ v \in ComType
  BY <1>3, <1>7 DEF Raised
<1>11. \A d \in Coms \ {c} : Waited(d, task[h]) => Waited(d, NoTask)
  BY <1>6 DEF j
<1>12. loose' \in {loose \cup {c}, loose \ {c}, loose}
  BY <1>1
<1> QED
  BY <1>1, <1>8, <1>9, <1>10, <1>11, <1>12, RowStep, NoTaskFacts

LEMMA WriteStatusStep ==
  ASSUME ComInv, NEW h \in Handlers, WriteStatus(h)
  PROVE  ComInv'
<1> DEFINE j == task[h]
           c == j.row
           v == [com[c] EXCEPT !.st = j.at]
<1>1. /\ j.at \in {"paid", "skipped", "pending"} /\ task' = [task EXCEPT ![h] = NoTask] /\ twice' = twice
      /\ com' = [com EXCEPT ![c].st = j.at]
      /\ loose' = IF j.at = "pending" THEN loose \cup {c} ELSE loose
      /\ depotRate' = depotRate /\ agreed' = agreed /\ litres' = litres
  BY DEF WriteStatus, Leaves, Kept
<1>2. j \in TaskType /\ TaskFits(j, com) /\ com \in [Coms -> {NoCom} \cup ComType]
  BY ComTypes DEF ComInv, TasksFit
<1>3. c \in Coms /\ com[c].st # "none"
  BY <1>1, <1>2 DEF TaskFits
<1>4. com[c] \in ComType
  BY <1>3, ComTypes DEF Raised, ComInv
<1>6. \A d : ~Waited(d, j)
  BY <1>1 DEF Waited
<1> HIDE DEF j, c
<1>7. v \in ComType /\ v.ord = com[c].ord /\ v.st = j.at
  BY <1>1, <1>4 DEF ComType
<1>8. com' = [com EXCEPT ![c] = v]
  BY <1>1, <1>2, <1>3, <1>4 DEF ComType
<1> HIDE DEF v
<1> QED
  BY <1>1, <1>3, <1>6, <1>7, <1>8, RowStep, NoTaskFacts DEF Raised, j


(* A sweep reprices one row, at the rate it knows of.                      *)
LEMMA DoneFacts ==
  ASSUME NEW j \in TaskType, NEW c
  PROVE  /\ Done(j, c) \in TaskType
         /\ Done(j, c).rows = {q \in j.rows : q.row # c}
         /\ Done(j, c).at = j.at /\ Done(j, c).ord = j.ord /\ Done(j, c).qty = j.qty /\ Done(j, c).row = j.row
         /\ Done(j, c).saw = j.saw /\ Done(j, c).depot = j.depot /\ Done(j, c).own = j.own
         /\ Done(j, c).cust = j.cust
BY DEF Done, TaskType

LEMMA DoneFits ==
  ASSUME NEW j \in TaskType, NEW c, TaskFits(j, com)
  PROVE  /\ Done(j, c) \in TaskType /\ TaskFits(Done(j, c), com)
         /\ \A d \in Coms \ {c} : Waited(d, j) => Waited(d, Done(j, c))
<1> DEFINE s == Done(j, c)
<1>1. /\ s \in TaskType /\ s.rows = {q \in j.rows : q.row # c} /\ s.at = j.at /\ s.ord = j.ord /\ s.qty = j.qty
      /\ s.row = j.row /\ s.saw = j.saw /\ s.depot = j.depot /\ s.own = j.own /\ s.cust = j.cust
  BY DoneFacts
<1> HIDE DEF s
<1>2. TaskFits(s, com)
  BY <1>1 DEF TaskFits
<1>3. ASSUME NEW d \in Coms \ {c}, Waited(d, j) PROVE Waited(d, s)
  BY <1>1, <1>3 DEF Waited
<1> QED
  BY <1>1, <1>2, <1>3 DEF s

LEMMA QueuedRead ==
  ASSUME ComInv, NEW h \in Handlers, NEW c \in Queued(h)
  PROVE  /\ c \in Coms /\ Raised(c) /\ com[c] \in ComType
         /\ \E q \in task[h].rows : q.row = c /\ q.was = WasRead(h, c) /\ q.own = OwnRead(h, c)
         /\ \A q \in task[h].rows : q.row = c => q.was = WasRead(h, c) /\ q.own = OwnRead(h, c)
<1>1. task[h] \in TaskType /\ TaskFits(task[h], com)
  BY DEF ComInv, TasksFit
<1>2. \E q \in task[h].rows : q.row = c
  BY DEF Queued
<1> DEFINE p == CHOOSE q \in task[h].rows : q.row = c
<1>3. p \in task[h].rows /\ p.row = c
  BY <1>2
<1>4. p.was = WasRead(h, c) /\ p.own = OwnRead(h, c)
  BY DEF WasRead, OwnRead
<1> HIDE DEF p
<1>5. \A q \in task[h].rows : q.row = c => q = p
  BY <1>1, <1>3 DEF TaskFits
<1>6. p \in ReadType
  BY <1>1, <1>3 DEF TaskType
<1>7. c \in Coms /\ Raised(c)
  BY <1>1, <1>3, <1>6 DEF TaskFits, ReadType, Raised
<1>8. com[c] \in ComType
  BY <1>7, ComTypes DEF ComInv
<1> QED
  BY <1>3, <1>4, <1>5, <1>7, <1>8

LEMMA RepriceRow ==
  ASSUME ComInv, NEW h \in Handlers, NEW c \in Queued(h), NEW price \in PriceType,
         price = [rate |-> price.rate, src |-> price.src],
         com' = Reprices(c, price), loose' \in {loose \cup {c}, loose \ {c}},
         c \notin loose' => price = Resolved(com[c].ord),
         task' = [task EXCEPT ![h] = Done(task[h], c)],
         depotRate' = depotRate, agreed' = agreed, litres' = litres, twice' = twice
  PROVE  ComInv'
<1> DEFINE v == [com[c] EXCEPT !.rate = price.rate, !.src = price.src]
           s == Done(task[h], c)
<1>1. c \in Coms /\ Raised(c) /\ com[c] \in ComType
  BY QueuedRead
<1>2. task[h] \in TaskType /\ TaskFits(task[h], com) /\ com \in [Coms -> {NoCom} \cup ComType]
  BY ComTypes DEF ComInv, TasksFit
<1>3. v \in ComType /\ v.ord = com[c].ord /\ v.rate = price.rate /\ v.src = price.src
  BY <1>1 DEF ComType, PriceType
<1>4. com' = [com EXCEPT ![c] = v]
  BY <1>1, <1>2 DEF Reprices, ComType
<1>5. s \in TaskType /\ TaskFits(s, com) /\ \A d \in Coms \ {c} : Waited(d, task[h]) => Waited(d, s)
  BY <1>2, DoneFits
<1>6. task' = [task EXCEPT ![h] = s]
  OBVIOUS
<1> HIDE DEF v, s
<1>7. v.st = "pending" /\ c \notin loose' => [rate |-> v.rate, src |-> v.src] = Resolved(v.ord)
  BY <1>3
<1>8. loose' \in {loose \cup {c}, loose \ {c}, loose}
  OBVIOUS
<1> QED
  BY <1>1, <1>3, <1>4, <1>5, <1>6, <1>7, <1>8, RowStep

LEMMA RepriceForDepotStep ==
  ASSUME ComInv, NEW h \in Handlers, NEW c \in Coms, RepriceForDepot(h, c)
  PROVE  ComInv'
<1> DEFINE price == Priced(task[h].depot, NoRate)
<1>1. /\ c \in Queued(h) /\ com' = Reprices(c, price) /\ task' = [task EXCEPT ![h] = Done(task[h], c)]
      /\ loose' = IF task[h].depot # depotRate \/ OwnRead(h, c) # Own(com[c].ord) THEN loose \cup {c} ELSE loose \ {c}
      /\ depotRate' = depotRate /\ agreed' = agreed /\ litres' = litres /\ twice' = twice
      /\ task[h].at = "repricing"
  BY DEF RepriceForDepot, TaskAt, Becomes, Kept
<1>2. task[h] \in TaskType /\ TaskFits(task[h], com)
  BY DEF ComInv, TasksFit
<1>3. task[h].depot \in {0} \cup DepotRates
  BY <1>2 DEF TaskType
<1>4. price \in PriceType /\ price = [rate |-> price.rate, src |-> price.src]
  BY <1>3, PricedIsPrice
<1>5. OwnRead(h, c) = NoRate
  BY <1>1, <1>2, QueuedRead DEF TaskFits
<1>6. c \notin loose' => price = Resolved(com[c].ord)
  BY <1>1, <1>5 DEF Resolved
<1> HIDE DEF price
<1> QED
  BY <1>1, <1>4, <1>6, RepriceRow

LEMMA RepriceForCustomerStep ==
  ASSUME ComInv, NEW h \in Handlers, NEW c \in Coms, RepriceForCustomer(h, c)
  PROVE  ComInv'
<1> DEFINE price == Priced(depotRate, task[h].own)
           s == Done(task[h], c)
<1>1. /\ c \in Queued(h) /\ task' = [task EXCEPT ![h] = s] /\ task[h].at = "sweeping"
      /\ depotRate' = depotRate /\ agreed' = agreed /\ litres' = litres /\ twice' = twice
  BY DEF RepriceForCustomer, TaskAt, Becomes, Kept
<1>2. task[h] \in TaskType /\ TaskFits(task[h], com) /\ loose \subseteq Coms
  BY DEF ComInv, TasksFit, TypeOKCommissions
<1>3. task[h].own \in AgreedRates \cup {NoRate} /\ depotRate \in {0} \cup DepotRates
  BY <1>2, ComTypes DEF TaskType, ComInv
<1>4. price \in PriceType /\ price = [rate |-> price.rate, src |-> price.src]
  BY <1>3, PricedIsPrice
<1>5. task[h].own = Own(com[c].ord) => price = Resolved(com[c].ord)
  BY DEF Resolved
<1>6. CASE WasRead(h, c) = price
  <2>1. com' = com /\ loose' = loose
    BY <1>6 DEF RepriceForCustomer
  <2>2. s \in TaskType /\ TaskFits(s, com) /\ \A d \in Coms \ {c} : Waited(d, task[h]) => Waited(d, s)
    BY <1>2, DoneFits
  <2>3. Waited(c, task[h]) => PriceOf(c) = Resolved(com[c].ord)
    <3>1. \A q \in task[h].rows : q.row = c => q.was = price
      BY <1>1, <1>6, QueuedRead
    <3>2. Waited(c, task[h]) => task[h].own = Own(com[c].ord) /\ PriceOf(c) = price
      BY <1>1, <3>1 DEF Waited, OwnOf, Own
    <3> QED
      BY <1>5, <3>2
  <2> HIDE DEF s
  <2>4. ASSUME NEW d \in Pending \ loose', Waited(d, task[h]), PriceOf(d) # Resolved(com[d].ord)
        PROVE  Waited(d, s)
    BY <2>2, <2>3, <2>4 DEF Pending
  <2> QED
    BY <1>1, <1>2, <2>1, <2>2, <2>4, TaskStep
<1>7. CASE WasRead(h, c) # price
  <2>1. /\ com' = Reprices(c, price)
        /\ loose' = IF task[h].own # Own(com[c].ord) THEN loose \cup {c} ELSE loose \ {c}
    BY <1>7 DEF RepriceForCustomer
  <2>2. c \notin loose' => price = Resolved(com[c].ord)
    BY <1>5, <2>1
  <2> HIDE DEF price
  <2> QED
    BY <1>1, <1>4, <2>1, <2>2, RepriceRow
<1> QED
  BY <1>6, <1>7

LEMMA LeavingStep ==
  ASSUME ComInv, NEW h \in Handlers, EndReprice(h) \/ StopTask(h)
  PROVE  ComInv'
<1>1. /\ task' = [task EXCEPT ![h] = NoTask] /\ com' = com /\ depotRate' = depotRate /\ agreed' = agreed
      /\ litres' = litres /\ twice' = twice
  BY DEF EndReprice, StopTask, Leaves
<1>2. loose \subseteq Coms
  BY DEF ComInv, TypeOKCommissions
<1>3. CASE EndReprice(h)
  <2>1. loose' = loose /\ \A c : ~Waited(c, task[h])
    BY <1>3 DEF EndReprice, Waited
  <2> QED
    BY <1>1, <1>2, <2>1, TaskStep, NoTaskFacts
<1>4. CASE StopTask(h)
  <2>1. loose' = loose \cup {c \in Unreached(h) : Raised(c)}
    BY <1>4 DEF StopTask
  <2>2. Unreached(h) \subseteq Coms
    <3>1. \A c \in Queued(h) : c \in Coms
      BY QueuedRead
    <3> QED
      BY <3>1 DEF Unreached
  <2>3. ASSUME NEW c \in Pending \ loose' PROVE ~Waited(c, task[h])
    <3>1. c \in Coms /\ Raised(c) /\ c \notin Unreached(h)
      BY <2>1 DEF Pending, Raised
    <3> QED
      BY <3>1 DEF Unreached, Queued, Waited
  <2>4. loose \subseteq loose' /\ loose' \subseteq Coms
    BY <1>2, <2>1, <2>2
  <2> QED
    BY <1>1, <2>3, <2>4, TaskStep, NoTaskFacts
<1> QED
  BY <1>3, <1>4

LEMMA ComPay ==
  ASSUME ComInv, NEW o \in Orders, Pay(o)
  PROVE  ComInv'
<1>1. /\ litres' = [litres EXCEPT ![o] = @ + 1] /\ litres[o] < MaxLitres
      /\ com' = com /\ depotRate' = depotRate /\ agreed' = agreed /\ task' = task /\ twice' = twice /\ loose' = loose
  BY DEF Pay
<1>2. litres' \in [Orders -> 0..MaxLitres]
  BY <1>1, CommissionsAssumption DEF ComInv, TypeOKCommissions
<1>3. TypeOKCommissions'
  BY <1>1, <1>2 DEF ComInv, TypeOKCommissions
<1>4. TasksFit' /\ OneOfAnOrder' /\ PricedOrWaiting'
  BY <1>1 DEF ComInv, TasksFit, OneOfAnOrder, PricedOrWaiting, Pending, PriceOf, Resolved, Own, Waited, OwnOf
<1> QED
  BY <1>1, <1>3, <1>4 DEF ComInv

LEMMA ComStep == ComInv /\ [NextCommissions]_comVars => ComInv'
<1> SUFFICES ASSUME ComInv, [NextCommissions]_comVars PROVE ComInv'
  OBVIOUS
<1>1. CASE UNCHANGED comVars
  BY <1>1 DEF comVars, ComInv, TypeOKCommissions, TasksFit, OneOfAnOrder, PricedOrWaiting, Pending, PriceOf,
              Resolved, Own, Waited, OwnOf
<1>2. ASSUME NEW h \in Handlers, NEW o \in Orders, ReadForOrder(h, o) PROVE ComInv'
  BY <1>2, ReadForOrderStep
<1>3. ASSUME NEW h \in Handlers, NEW c \in Coms,
             \/ InsertCommission(h, c) \/ RepriceForDepot(h, c) \/ RepriceForCustomer(h, c)
             \/ \E st \in {"paid", "skipped", "pending"} : ReadToSettle(h, c, st)
      PROVE  ComInv'
  BY <1>3, InsertStep, RepriceForDepotStep, RepriceForCustomerStep, ReadToSettleStep
<1>4. ASSUME NEW h \in Handlers, NEW r \in DepotRates, SetDepotRate(h, r) PROVE ComInv'
  BY <1>4, DepotRateStep
<1>5. ASSUME NEW h \in Handlers, NEW k \in Customers, NEW r \in AgreedRates \cup {NoRate}, SetCustomerRate(h, k, r)
      PROVE  ComInv'
  BY <1>5, CustomerRateStep
<1>6. ASSUME NEW h \in Handlers,
             UpdateCommission(h) \/ WriteStatus(h) \/ ReadDepotQueue(h) \/ ReadCustomerQueue(h)
               \/ EndReprice(h) \/ StopTask(h)
      PROVE  ComInv'
  BY <1>6, UpdateStep, WriteStatusStep, ReadQueueStep, LeavingStep
<1> QED
  BY <1>1, <1>2, <1>3, <1>4, <1>5, <1>6, ComPay DEF NextCommissions

LEMMA ComInvHolds == ComInv => CommissionsHold
<1> SUFFICES ASSUME ComInv PROVE CommissionsHold
  OBVIOUS
<1>1. OneCommission
  <2> SUFFICES ASSUME NEW o \in Orders \ twice PROVE Cardinality({c \in Coms : com[c].ord = o}) <= 1
    BY DEF OneCommission
  <2> DEFINE S == {c \in Coms : com[c].ord = o}
  <2>1. S = {} \/ \E c \in S : S = {c}
    BY DEF ComInv, OneOfAnOrder
  <2> HIDE DEF S
  <2>2. Cardinality(S) \in {0, 1}
    BY <2>1, FS_EmptySet, FS_Singleton
  <2> QED
    BY <2>2 DEF S
<1>2. QueueIsPriced
  <2> SUFFICES ASSUME Idle, NEW c \in Pending \ loose PROVE PriceOf(c) = Resolved(com[c].ord)
    BY DEF QueueIsPriced
  <2>1. \A h \in Handlers : ~Waited(c, task[h])
    BY NoTaskFacts DEF Idle
  <2> QED
    BY <2>1 DEF ComInv, PricedOrWaiting
<1> QED
  BY <1>1, <1>2 DEF ComInv, CommissionsHold

(* "It no-ops if it already exists", and "sharing the resolver is what     *)
(* stops the sweep and the create path ever disagreeing about a price": an *)
(* order that no two handlers created a commission of at once has one, and *)
(* once nobody works on the queue a row waits at today's price, but for    *)
(* those that are loose.                                                   *)
THEOREM CommissionsDoHold == SpecCommissions => []CommissionsHold
<1>1. SpecCommissions => []ComInv
  BY ComInit, ComStep, PTL DEF SpecCommissions
<1> QED
  BY <1>1, ComInvHolds, PTL

(* What was paid changes only when the desk reverts it, or by a handler    *)
(* that read it before it was paid.                                        *)
PaidKept == \A c \in Coms : com[c].st = "paid" /\ com'[c] # com[c] =>
  \E h \in Handlers : \/ task[h].row = c /\ (task[h].at = "pending" \/ task[h].saw # "paid")
                      \/ c \in Queued(h)
THEOREM PaidStays == SpecCommissions => PaidIsHistory
<1>1. ASSUME ComInv, NextCommissions PROVE PaidKept
  <2> SUFFICES ASSUME NEW c \in Coms, com[c].st = "paid", com'[c] # com[c]
               PROVE  \E h \in Handlers : \/ task[h].row = c /\ (task[h].at = "pending" \/ task[h].saw # "paid")
                                          \/ c \in Queued(h)
    BY DEF PaidKept
  <2>0. com \in [Coms -> {NoCom} \cup ComType] /\ \A h \in Handlers : TaskFits(task[h], com)
    BY <1>1, ComTypes DEF ComInv, TasksFit
  <2>1. \/ \E h \in Handlers, d \in Coms : InsertCommission(h, d)
        \/ \E h \in Handlers : UpdateCommission(h) \/ WriteStatus(h)
        \/ \E h \in Handlers, d \in Coms : RepriceForDepot(h, d) \/ RepriceForCustomer(h, d)
    BY <1>1 DEF NextCommissions, Pay, ReadForOrder, ReadToSettle, SetDepotRate, SetCustomerRate, ReadDepotQueue,
                ReadCustomerQueue, EndReprice, StopTask
  <2>2. ASSUME NEW h \in Handlers, NEW d \in Coms, InsertCommission(h, d) PROVE FALSE
    BY <2>0, <2>2 DEF InsertCommission, Raised
  <2>3. ASSUME NEW h \in Handlers, UpdateCommission(h)
        PROVE  task[h].row = c /\ task[h].saw # "paid"
    BY <2>0, <2>3 DEF UpdateCommission, Reprices, TaskAt, TaskFits
  <2>4. ASSUME NEW h \in Handlers, WriteStatus(h)
        PROVE  task[h].row = c /\ (task[h].at = "pending" \/ task[h].saw # "paid")
    BY <2>0, <2>4 DEF WriteStatus, TaskFits
  <2>5. ASSUME NEW h \in Handlers, NEW d \in Coms, RepriceForDepot(h, d) \/ RepriceForCustomer(h, d)
        PROVE  c \in Queued(h)
    BY <2>0, <2>5 DEF RepriceForDepot, RepriceForCustomer, Reprices
  <2> QED
    BY <2>1, <2>2, <2>3, <2>4, <2>5
<1>2. SpecCommissions => []ComInv
  BY ComInit, ComStep, PTL DEF SpecCommissions
<1>3. ComInv /\ [NextCommissions]_comVars => [PaidKept]_comVars
  BY <1>1
<1>4. SpecCommissions => [][PaidKept]_comVars
  BY <1>2, <1>3, PTL DEF SpecCommissions
<1> QED
  BY <1>4 DEF PaidIsHistory, PaidKept

-----------------------------------------------------------------------------
(* Truck sales.  A line that is matched is the line of one payment; what an *)
(* upload found new has no reference that was on record then; and a move   *)
(* that has begun is of money the truck can spare, unless its payments     *)
(* changed by hand or under another move.                                  *)
LineType == [of: Uploads, st: {"unmatched", "matched", "matched_to_order"}]
UploadType == [at: {"idle", "partitioned", "inserting"}, fresh: SUBSET Rows, seen: SUBSET Rows]
SaleType == [truck: Trucks, amount: Int, line: Rows \cup {NoRow}, group: Moves \cup {"none"}]

SpentOn(L, S) ==
  /\ \A s \in Payments : S[s].line \in Rows => L[S[s].line].st = "matched"
  /\ \A k \in Rows : L[k].st = "matched" => \E s \in Payments : S[s].line = k
  /\ \A r, s \in Payments : S[r].line \in Rows /\ S[r].line = S[s].line => r = s
FreshIsNew == \A u \in Uploads : \A k \in upload[u].fresh, q \in upload[u].seen :
  k.credit \in Referenced => q.credit # k.credit
RecordedOnce == \A k, q \in OnRecord :
  k.credit \in Referenced \ double /\ q.credit = k.credit => q = k

(* What a truck has taken by given payments, and the moves from it.        *)
TakenBy(S, t) == SumFunctionOnSet([s \in Payments |-> S[s].amount], {s \in Payments : S[s].truck = t})
TakenWith(B, N, t) == SumFunctionOnSet([s \in Payments |-> B[s].amount], {s \in N : B[s].truck = t})
GaveAway(S, t) == \E s \in Payments : S[s].truck = t /\ S[s].amount < 0
MoneyIn(S, v, sh) ==
  /\ \A t \in Trucks \ sh : GaveAway(S, t) => TakenBy(S, t) >= Expected
  /\ \A m \in Moves : v[m].at = "moving" =>
       v[m].from # v[m].to /\ (v[m].from \notin sh => TakenBy(S, v[m].from) >= Expected + v[m].amount)
TruckInv == /\ TypeOKTruckSales /\ SpentOn(line, sale) /\ FreshIsNew /\ RecordedOnce
            /\ MoneyIn(sale, move, shaken)

-----------------------------------------------------------------------------
LEMMA SaleTypes ==
  /\ NoRow \notin Rows /\ NoSale.line = NoRow /\ NoSale.truck \notin Trucks /\ NoSale.amount = 0
  /\ NoLine.st = "none" /\ NoLine \notin LineType /\ NoSale.truck = "none" /\ NoSale.group = "none"
  /\ \A s \in {NoSale} \cup SaleType : s.amount \in Int
BY TruckSalesAssumption DEF NoRow, NoSale, NoLine, Rows, LineType, SaleType

LEMMA TruckTypes ==
  ASSUME TypeOKTruckSales
  PROVE  /\ line \in [Rows -> {NoLine} \cup LineType] /\ sale \in [Payments -> {NoSale} \cup SaleType]
         /\ \A k \in Rows : k \in OnRecord => line[k] \in LineType
BY DEF TypeOKTruckSales, LineType, SaleType, OnRecord

LEMMA SumOne ==
  ASSUME NEW f, NEW x, f[x] \in Int
  PROVE  SumFunctionOnSet(f, {x}) = f[x]
<1> DEFINE S == {x}
<1>1. IsFiniteSet(S) /\ x \in S /\ \A y \in S : f[y] \in Int
  BY FS_Singleton
<1>2. S \ {x} = {}
  OBVIOUS
<1> HIDE DEF S
<1>3. SumFunctionOnSet(f, S) = f[x] + SumFunctionOnSet(f, S \ {x})
  BY <1>1, SumWithout
<1>4. SumFunctionOnSet(f, S \ {x}) = 0
  BY <1>2, SumEmpty
<1> QED
  BY <1>3, <1>4 DEF S

(* Rows are found for as many things as there is room for.                 *)
LEMMA NewForFits ==
  ASSUME NEW things, IsFiniteSet(things), RoomFor(Cardinality(things))
  PROVE  /\ NewFor(things) \in [things -> Free]
         /\ \A i, j \in things : i # j => NewFor(things)[i] # NewFor(things)[j]
<1>1. IsFiniteSet(Free) /\ Free \subseteq Payments
  <2>1. Free \subseteq Payments
    BY DEF Free
  <2> QED
    BY <2>1, TruckSalesAssumption, FS_Subset
<1> DEFINE n == Cardinality(things)
           m == Cardinality(Free)
<1>2. n \in Nat /\ m \in Nat /\ n <= m
  BY <1>1, FS_CardinalityType DEF RoomFor
<1>3. PICK f : f \in Bijection(1..n, things)
  BY FS_CardinalityType DEF ExistsBijection
<1>4. PICK g : g \in Bijection(1..m, Free)
  BY <1>1, FS_CardinalityType DEF ExistsBijection
<1>5. f \in [1..n -> things] /\ \A x \in things : \E i \in 1..n : f[i] = x
  BY <1>3 DEF Bijection, Surjection, Injection
<1>6. g \in [1..m -> Free] /\ \A i, j \in 1..m : g[i] = g[j] => i = j
  BY <1>4 DEF Bijection, Surjection, Injection, IsInjective
<1> HIDE DEF n, m
<1> DEFINE at(x) == CHOOSE i \in 1..n : f[i] = x
           h == [x \in things |-> g[at(x)]]
<1>7. \A x \in things : at(x) \in 1..n /\ f[at(x)] = x
  BY <1>5
<1>8. \A x \in things : at(x) \in 1..m
  BY <1>2, <1>7
<1> HIDE DEF at
<1>9. h \in [things -> Free] /\ \A x, y \in things : x # y => h[x] # h[y]
  BY <1>6, <1>7, <1>8
<1> HIDE DEF h
<1>10. \E e \in [things -> Free] : \A i, j \in things : i # j => e[i] # e[j]
  BY <1>9
<1> QED
  BY <1>10 DEF NewFor

-----------------------------------------------------------------------------
(* What new payments add to a truck.                                       *)
LEMMA TakenMore ==
  ASSUME NEW A \in [Payments -> {NoSale} \cup SaleType], NEW B \in [Payments -> {NoSale} \cup SaleType],
         NEW N \in SUBSET Payments, \A s \in N : A[s] = NoSale, \A s \in Payments \ N : B[s] = A[s],
         NEW t \in Trucks
  PROVE  /\ TakenBy(A, t) \in Int
         /\ TakenBy(B, t) = TakenBy(A, t) + TakenWith(B, N, t)
<1> DEFINE S == {s \in Payments : A[s].truck = t}
           M == {s \in N : B[s].truck = t}
           f == [s \in Payments |-> A[s].amount]
           e == [s \in Payments |-> B[s].amount]
<1>1. /\ \A s \in Payments : f[s] \in Int /\ e[s] \in Int
      /\ \A s \in S : e[s] = f[s]
      /\ {s \in Payments : B[s].truck = t} = S \cup M /\ S \cap M = {} /\ S \cap N = {}
      /\ S \subseteq Payments /\ M \subseteq Payments
  <2>1. \A s \in Payments : f[s] \in Int /\ e[s] \in Int
    BY SaleTypes
  <2>2. S \cap N = {}
    BY SaleTypes
  <2>3. \A s \in S : B[s] = A[s]
    BY <2>2
  <2>4. {s \in Payments : B[s].truck = t} = S \cup M
    BY <2>3
  <2> QED
    BY <2>1, <2>2, <2>3, <2>4
<1>2. TakenBy(A, t) = SumFunctionOnSet(f, S) /\ TakenBy(B, t) = SumFunctionOnSet(e, S \cup M)
  BY <1>1 DEF TakenBy
<1> HIDE DEF S, M, f, e
<1>3. IsFiniteSet(S) /\ IsFiniteSet(M)
  BY <1>1, TruckSalesAssumption, FS_Subset
<1>4. SumFunctionOnSet(e, S \cup M) = SumFunctionOnSet(e, S) + SumFunctionOnSet(e, M)
  <2>1. \A s \in S \cup M : e[s] \in Int
    BY <1>1
  <2> QED
    BY <1>1, <1>3, <2>1, SumUnion
<1>5. SumFunctionOnSet(e, S) = SumFunctionOnSet(f, S) /\ SumFunctionOnSet(f, S) \in Int
  <2>1. \A s \in S : f[s] \in Int /\ e[s] = f[s]
    BY <1>1
  <2> QED
    BY <1>3, <2>1, SumSame, SumType
<1>6. TakenWith(B, N, t) = SumFunctionOnSet(e, M)
  BY DEF e, M, TakenWith
<1> QED
  BY <1>2, <1>4, <1>5, <1>6

LEMMA TakenOfNats ==
  ASSUME NEW B \in [Payments -> {NoSale} \cup SaleType], NEW N \in SUBSET Payments,
         \A s \in N : B[s].amount \in Nat, NEW t
  PROVE  TakenWith(B, N, t) \in Nat
<1> DEFINE M == {s \in N : B[s].truck = t}
           e == [s \in Payments |-> B[s].amount]
<1>1. M \subseteq Payments /\ \A s \in M : e[s] \in Nat
  OBVIOUS
<1> HIDE DEF M, e
<1>2. IsFiniteSet(M)
  BY <1>1, TruckSalesAssumption, FS_Subset
<1>3. SumFunctionOnSet(e, M) \in Nat
  BY <1>1, <1>2, SumNat
<1> QED
  BY <1>3 DEF M, e, TakenWith

(* Payments that are added, none of them a debit, and payments of other    *)
(* trucks leave a truck no poorer.                                         *)
LEMMA MoneyGrows ==
  ASSUME NEW A \in [Payments -> {NoSale} \cup SaleType], NEW B \in [Payments -> {NoSale} \cup SaleType],
         NEW N \in SUBSET Payments, \A s \in N : A[s] = NoSale /\ B[s].amount \in Nat,
         \A s \in Payments \ N : B[s] = A[s],
         NEW v \in [Moves -> {NoMove} \cup [at: {"moving"}, from: Trucks, to: Trucks, amount: Nat]],
         NEW sh, MoneyIn(A, v, sh)
  PROVE  MoneyIn(B, v, sh)
<1>1. \A t \in Trucks : TakenBy(A, t) \in Int /\ TakenBy(B, t) \in Int /\ TakenBy(B, t) >= TakenBy(A, t)
  <2> SUFFICES ASSUME NEW t \in Trucks
               PROVE  TakenBy(A, t) \in Int /\ TakenBy(B, t) \in Int /\ TakenBy(B, t) >= TakenBy(A, t)
    OBVIOUS
  <2>0. (\A s \in N : A[s] = NoSale) /\ (\A s \in N : B[s].amount \in Nat)
    OBVIOUS
  <2>1. TakenWith(B, N, t) \in Nat
    BY <2>0, TakenOfNats
  <2>2. TakenBy(A, t) \in Int /\ TakenBy(B, t) = TakenBy(A, t) + TakenWith(B, N, t)
    BY <2>0, TakenMore
  <2> QED
    BY <2>1, <2>2
<1>2. \A t \in Trucks : GaveAway(B, t) => GaveAway(A, t)
  <2> SUFFICES ASSUME NEW t \in Trucks, NEW s \in Payments, B[s].truck = t, B[s].amount < 0
               PROVE  GaveAway(A, t)
    BY DEF GaveAway
  <2>1. s \notin N
    OBVIOUS
  <2> QED
    BY <2>1 DEF GaveAway
<1>3. Expected \in Nat
  BY TruckSalesAssumption
<1>4. ASSUME NEW t \in Trucks \ sh, GaveAway(B, t) PROVE TakenBy(B, t) >= Expected
  <2>1. TakenBy(A, t) >= Expected
    BY <1>2, <1>4 DEF MoneyIn
  <2> QED
    BY <1>1, <1>3, <2>1
<1>5. ASSUME NEW m \in Moves, v[m].at = "moving"
      PROVE  v[m].from # v[m].to /\ (v[m].from \notin sh => TakenBy(B, v[m].from) >= Expected + v[m].amount)
  <2>1. v[m].from \in Trucks /\ v[m].amount \in Nat
    BY <1>5 DEF NoMove
  <2>2. v[m].from # v[m].to /\ (v[m].from \notin sh => TakenBy(A, v[m].from) >= Expected + v[m].amount)
    BY <1>5 DEF MoneyIn
  <2> QED
    BY <1>1, <1>3, <2>1, <2>2
<1> QED
  BY <1>4, <1>5 DEF MoneyIn

(* A payment that is corrected or deleted shakes its truck, and no other.  *)
LEMMA MoneyShaken ==
  ASSUME NEW A \in [Payments -> {NoSale} \cup SaleType], NEW B \in [Payments -> {NoSale} \cup SaleType],
         NEW p \in Payments, A[p] # NoSale, B[p].truck \in {A[p].truck, "none"},
         \A s \in Payments \ {p} : B[s] = A[s],
         NEW v \in [Moves -> {NoMove} \cup [at: {"moving"}, from: Trucks, to: Trucks, amount: Nat]],
         NEW sh, MoneyIn(A, v, sh)
  PROVE  MoneyIn(B, v, sh \cup {A[p].truck})
<1> DEFINE u == A[p].truck
<1>1. ASSUME NEW t \in Trucks, t # u
      PROVE  TakenBy(B, t) = TakenBy(A, t) /\ (GaveAway(B, t) => GaveAway(A, t))
  <2> DEFINE S == {s \in Payments : A[s].truck = t}
             f == [s \in Payments |-> A[s].amount]
             e == [s \in Payments |-> B[s].amount]
  <2>1. {s \in Payments : B[s].truck = t} = S /\ S \subseteq Payments \ {p}
    BY <1>1, TruckSalesAssumption
  <2>2. \A s \in S : f[s] \in Int /\ e[s] = f[s]
    BY <2>1, SaleTypes
  <2>3. TakenBy(A, t) = SumFunctionOnSet(f, S) /\ TakenBy(B, t) = SumFunctionOnSet(e, S)
    BY <2>1 DEF TakenBy
  <2>4. GaveAway(B, t) => GaveAway(A, t)
    BY <2>1 DEF GaveAway
  <2> HIDE DEF S, f, e
  <2>5. IsFiniteSet(S)
    BY <2>1, TruckSalesAssumption, FS_Subset
  <2> QED
    BY <2>2, <2>3, <2>4, <2>5, SumSame
<1>2. \A m \in Moves : v[m].at = "moving" => v[m].from \in Trucks
  BY DEF NoMove
<1> HIDE DEF u
<1>3. MoneyIn(B, v, sh \cup {u})
  BY <1>1, <1>2 DEF MoneyIn
<1> QED
  BY <1>3 DEF u


-----------------------------------------------------------------------------
LEMMA TruckInit == InitTruckSales => TruckInv
<1> SUFFICES ASSUME InitTruckSales PROVE TruckInv
  OBVIOUS
<1>1. /\ line = [k \in Rows |-> NoLine] /\ upload = [u \in Uploads |-> NoUpload] /\ sale = [s \in Payments |-> NoSale]
      /\ move = [m \in Moves |-> NoMove] /\ double = {} /\ shaken = {}
      /\ NoUpload.at = "idle" /\ NoUpload.fresh = {} /\ NoUpload.seen = {} /\ NoMove.at = "idle"
  BY DEF InitTruckSales, NoUpload, NoMove
<1>2. TypeOKTruckSales
  BY DEF InitTruckSales, TypeOKTruckSales, NoUpload
<1>3. SpentOn(line, sale) /\ FreshIsNew /\ RecordedOnce
  BY <1>1, SaleTypes DEF SpentOn, FreshIsNew, RecordedOnce, OnRecord
<1>4. MoneyIn(sale, move, shaken)
  BY <1>1, SaleTypes DEF MoneyIn, GaveAway
<1> QED
  BY <1>2, <1>3, <1>4 DEF TruckInv

(* Uploads.                                                                *)
LEMMA UploadStep ==
  ASSUME TruckInv, NEW u \in Uploads, (\E f \in DOMAIN Files : Partition(u, f)) \/ InsertStatement(u) \/ EndUpload(u)
  PROVE  TruckInv'
<1>0. TypeOKTruckSales /\ FreshIsNew
  BY DEF TruckInv
<1>1. line' = line /\ sale' = sale /\ move' = move /\ double' = double /\ shaken' = shaken
  BY DEF Partition, InsertStatement, EndUpload
<1>2. SpentOn(line', sale') /\ RecordedOnce' /\ MoneyIn(sale', move', shaken')
  BY <1>1 DEF TruckInv, RecordedOnce, OnRecord
<1>3. TypeOKTruckSales' /\ FreshIsNew'
  <2>1. ASSUME NEW f \in DOMAIN Files, Partition(u, f) PROVE TypeOKTruckSales' /\ FreshIsNew'
    <3> DEFINE S == {k \in Files[f] : IsNew(k)}
               r == [at |-> "partitioned", fresh |-> S, seen |-> OnRecord]
    <3>1. S \subseteq Rows /\ OnRecord \subseteq Rows
      BY TruckSalesAssumption DEF OnRecord
    <3>2. \A k \in S, q \in OnRecord : k.credit \in Referenced => q.credit # k.credit
      BY DEF IsNew
    <3>3. upload' = [upload EXCEPT ![u] = r] /\ statement' = statement
      BY <2>1 DEF Partition
    <3> HIDE DEF S
    <3>4. r \in [at: {"idle", "partitioned", "inserting"}, fresh: SUBSET Rows, seen: SUBSET Rows]
      BY <3>1
    <3>5. r.fresh = S /\ r.seen = OnRecord
      OBVIOUS
    <3> HIDE DEF r
    <3>6. TypeOKTruckSales'
      BY <1>0, <1>1, <3>3, <3>4 DEF TypeOKTruckSales
    <3>7. FreshIsNew'
      BY <1>0, <3>2, <3>3, <3>5 DEF FreshIsNew, TypeOKTruckSales
    <3> QED
      BY <3>6, <3>7
  <2>2. CASE InsertStatement(u)
    <3>1. /\ upload' = [upload EXCEPT ![u].at = "inserting"] /\ statement' = [statement EXCEPT ![u] = "kept"]
      BY <2>2 DEF InsertStatement
    <3>2. TypeOKTruckSales'
      BY <1>0, <1>1, <3>1 DEF TypeOKTruckSales
    <3>3. FreshIsNew'
      BY <1>0, <3>1 DEF FreshIsNew, TypeOKTruckSales
    <3> QED
      BY <3>2, <3>3
  <2>3. CASE EndUpload(u)
    <3>1. upload' = [upload EXCEPT ![u] = NoUpload] /\ statement' = statement
      BY <2>3 DEF EndUpload
    <3>2. TypeOKTruckSales'
      BY <1>0, <1>1, <3>1 DEF TypeOKTruckSales, NoUpload
    <3>3. FreshIsNew'
      BY <1>0, <3>1 DEF FreshIsNew, TypeOKTruckSales, NoUpload
    <3> QED
      BY <3>2, <3>3
  <2> QED
    BY <2>1, <2>2, <2>3
<1> QED
  BY <1>2, <1>3 DEF TruckInv

(* A line goes in: one that is there with its reference went in after the  *)
(* upload looked.                                                          *)
LEMMA InsertLineStep ==
  ASSUME TruckInv, NEW u \in Uploads, NEW k \in Rows, InsertLine(u, k)
  PROVE  TruckInv'
<1> DEFINE new == [of |-> u, st |-> "unmatched"]
<1>0. TypeOKTruckSales /\ FreshIsNew /\ RecordedOnce /\ SpentOn(line, sale) /\ k.credit \in Credits
  BY DEF TruckInv, Rows
<1>1. /\ line' = IF k \in OnRecord THEN line ELSE [line EXCEPT ![k] = new]
      /\ double' = IF \E q \in OnRecord \ upload[u].seen : q.credit = k.credit THEN double \cup {k.credit} ELSE double
      /\ upload' = [upload EXCEPT ![u] = IF Left(u, k).fresh = {} THEN NoUpload ELSE Left(u, k)]
      /\ k \in upload[u].fresh
      /\ statement' = statement /\ sale' = sale /\ move' = move /\ shaken' = shaken
  BY DEF InsertLine
<1>2. new \in LineType /\ new.st = "unmatched" /\ new # NoLine
  BY SaleTypes DEF LineType
<1> HIDE DEF new
<1> DEFINE left == IF Left(u, k).fresh = {} THEN NoUpload ELSE Left(u, k)
<1>a. /\ left \in UploadType /\ left.fresh \subseteq upload[u].fresh /\ (left.fresh = {} \/ left.seen = upload[u].seen)
      /\ upload' = [upload EXCEPT ![u] = left]
  <2>1. upload[u] \in UploadType /\ upload \in [Uploads -> UploadType]
    BY <1>0 DEF TypeOKTruckSales, UploadType
  <2>2. NoUpload \in UploadType /\ NoUpload.fresh = {}
    BY DEF NoUpload, UploadType
  <2>3. Left(u, k) \in UploadType /\ Left(u, k).fresh \subseteq upload[u].fresh /\ Left(u, k).seen = upload[u].seen
    BY <2>1 DEF Left, UploadType
  <2>4. upload' = [upload EXCEPT ![u] = left]
    BY <1>1
  <2> QED
    BY <2>2, <2>3, <2>4
<1> HIDE DEF left
<1>3. \A q \in Rows : q # k => line'[q] = line[q]
  BY <1>0, <1>1 DEF TypeOKTruckSales
<1>4. k \notin OnRecord => line'[k] = new /\ line[k].st = "none"
  BY <1>0, <1>1, SaleTypes DEF TypeOKTruckSales, OnRecord
<1>5. TypeOKTruckSales'
  <2>1. line' \in [Rows -> {NoLine} \cup LineType]
    BY <1>0, <1>1, <1>2, TruckTypes
  <2>2. upload' \in [Uploads -> UploadType]
    BY <1>0, <1>1, <1>a DEF TypeOKTruckSales, UploadType
  <2>3. double' \subseteq Credits
    BY <1>0, <1>1 DEF TypeOKTruckSales
  <2> QED
    BY <1>0, <1>1, <2>1, <2>2, <2>3 DEF TypeOKTruckSales, LineType, UploadType
<1>6. FreshIsNew'
  <2>1. \A w \in Uploads : upload'[w].fresh \subseteq upload[w].fresh /\ (upload'[w].fresh = {} \/ upload'[w].seen = upload[w].seen)
    BY <1>0, <1>1, <1>a DEF TypeOKTruckSales
  <2> QED
    BY <1>0, <2>1 DEF FreshIsNew
<1>7. SpentOn(line', sale')
  BY <1>0, <1>1, <1>2, <1>3, <1>4 DEF SpentOn
<1>8. RecordedOnce'
  <2>1. CASE k \in OnRecord
    BY <1>0, <1>1, <2>1 DEF RecordedOnce, OnRecord
  <2>2. CASE k \notin OnRecord
    <3>1. OnRecord' = OnRecord \cup {k}
      BY <1>2, <1>3, <1>4, <2>2 DEF OnRecord
    <3>2. \A q \in OnRecord : k.credit \in Referenced \ double' => q.credit # k.credit
      <4> SUFFICES ASSUME NEW q \in OnRecord, k.credit \in Referenced, k.credit \notin double', q.credit = k.credit
                   PROVE  FALSE
        OBVIOUS
      <4>1. q \in upload[u].seen
        BY <1>1
      <4> QED
        BY <1>0, <1>1, <4>1 DEF FreshIsNew
    <3>3. double \subseteq double'
      BY <1>1
    <3> QED
      BY <1>0, <3>1, <3>2, <3>3 DEF RecordedOnce
  <2> QED
    BY <2>1, <2>2
<1>9. MoneyIn(sale', move', shaken')
  BY <1>1 DEF TruckInv
<1> QED
  BY <1>5, <1>6, <1>7, <1>8, <1>9 DEF TruckInv

(* Lines that nobody spent are deleted, or given to an order and back.     *)
LEMMA LinesStep ==
  ASSUME TruckInv, NEW L, line' = L, L \in [Rows -> {NoLine} \cup LineType],
         \A k \in Rows : L[k] # NoLine => line[k] # NoLine,
         \A k \in Rows : L[k].st = "matched" <=> line[k].st = "matched",
         statement' \in [Uploads -> {"none", "kept", "deleted"}],
         upload' = upload, sale' = sale, move' = move, double' = double, shaken' = shaken
  PROVE  TruckInv'
<1>0. TypeOKTruckSales /\ FreshIsNew /\ RecordedOnce /\ SpentOn(line, sale)
  BY DEF TruckInv
<1>1. TypeOKTruckSales'
  BY <1>0 DEF TypeOKTruckSales, LineType
<1>2. FreshIsNew'
  BY <1>0 DEF FreshIsNew
<1>3. OnRecord' \subseteq OnRecord
  BY DEF OnRecord
<1>4. RecordedOnce'
  BY <1>0, <1>3 DEF RecordedOnce
<1>5. SpentOn(line', sale')
  BY <1>0 DEF SpentOn
<1>6. MoneyIn(sale', move', shaken')
  BY DEF TruckInv
<1> QED
  BY <1>1, <1>2, <1>4, <1>5, <1>6 DEF TruckInv

LEMMA DeleteStatementStep ==
  ASSUME TruckInv, NEW u \in Uploads, DeleteStatement(u)
  PROVE  TruckInv'
<1>0. TypeOKTruckSales /\ SpentOn(line, sale) /\ line \in [Rows -> {NoLine} \cup LineType]
  BY TruckTypes DEF TruckInv
<1> DEFINE L == [k \in Rows |-> IF k \in LinesOf(u) THEN NoLine ELSE line[k]]
<1>1. /\ line' = L /\ statement' = [statement EXCEPT ![u] = "deleted"]
      /\ upload' = upload /\ sale' = sale /\ move' = move /\ double' = double /\ shaken' = shaken
      /\ \A k \in LinesOf(u) : line[k].st = "unmatched"
  BY DEF DeleteStatement, UsedAtAll
<1>2. /\ L \in [Rows -> {NoLine} \cup LineType]
      /\ \A k \in Rows : L[k] # NoLine => line[k] # NoLine
      /\ \A k \in Rows : L[k].st = "matched" <=> line[k].st = "matched"
  BY <1>0, <1>1, SaleTypes
<1>3. statement' \in [Uploads -> {"none", "kept", "deleted"}]
  BY <1>0, <1>1 DEF TypeOKTruckSales
<1> HIDE DEF L
<1> QED
  BY <1>1, <1>2, <1>3, LinesStep

LEMMA OrderLineStep ==
  ASSUME TruckInv, NEW k \in Rows, MatchToOrder(k) \/ ReleaseFromOrder(k)
  PROVE  TruckInv'
<1>0. TypeOKTruckSales /\ line \in [Rows -> {NoLine} \cup LineType]
  BY TruckTypes DEF TruckInv
<1>1. /\ statement' = statement /\ upload' = upload /\ sale' = sale /\ move' = move /\ double' = double /\ shaken' = shaken
      /\ line[k].st \in {"unmatched", "matched_to_order"}
      /\ line' = [line EXCEPT ![k].st = "matched_to_order"] \/ line' = [line EXCEPT ![k].st = "unmatched"]
  BY DEF MatchToOrder, ReleaseFromOrder
<1>2. line[k] \in LineType
  BY <1>0, <1>1, SaleTypes
<1>3. PICK st \in {"unmatched", "matched_to_order"} : line' = [line EXCEPT ![k].st = st]
  BY <1>1
<1> DEFINE L == [line EXCEPT ![k].st = st]
<1>4. L \in [Rows -> {NoLine} \cup LineType] /\ \A q \in Rows \ {k} : L[q] = line[q]
  BY <1>0, <1>2 DEF LineType
<1>5. L[k].st = st /\ line[k] # NoLine
  BY <1>0, <1>2, SaleTypes DEF LineType
<1>6. statement' \in [Uploads -> {"none", "kept", "deleted"}] /\ line' = L
  BY <1>0, <1>1, <1>3 DEF TypeOKTruckSales
<1> HIDE DEF L
<1>7. /\ \A q \in Rows : L[q] # NoLine => line[q] # NoLine
      /\ \A q \in Rows : L[q].st = "matched" <=> line[q].st = "matched"
  BY <1>1, <1>4, <1>5
<1> QED
  BY <1>1, <1>4, <1>6, <1>7, LinesStep


-----------------------------------------------------------------------------
(* Payments that go in, of lines or typed by hand.                         *)
LEMMA SalesTyped ==
  ASSUME TypeOKTruckSales, NEW L \in [Rows -> {NoLine} \cup LineType], NEW S \in [Payments -> {NoSale} \cup SaleType],
         NEW V \in [Moves -> {NoMove} \cup [at: {"moving"}, from: Trucks, to: Trucks, amount: Nat]],
         line' = L, sale' = S, move' = V, shaken' \subseteq Trucks,
         statement' = statement, upload' = upload, double' = double
  PROVE  TypeOKTruckSales'
BY DEF TypeOKTruckSales, LineType, SaleType

LEMMA ClaimStep ==
  ASSUME TruckInv, NEW t \in Trucks, NEW keys \in SUBSET OnRecord, Claim(t, keys)
  PROVE  TruckInv'
<1>0. /\ TypeOKTruckSales /\ FreshIsNew /\ RecordedOnce /\ SpentOn(line, sale) /\ MoneyIn(sale, move, shaken)
      /\ line \in [Rows -> {NoLine} \cup LineType] /\ sale \in [Payments -> {NoSale} \cup SaleType]
      /\ keys \subseteq Rows
  BY TruckTypes DEF TruckInv, OnRecord
<1> DEFINE P == NewFor(keys)
           L == [k \in Rows |-> IF k \in keys THEN [line[k] EXCEPT !.st = "matched"] ELSE line[k]]
           S == [s \in Payments |->
                  IF \E k \in keys : P[k] = s
                  THEN LET k == CHOOSE q \in keys : P[q] = s
                       IN [truck |-> t, amount |-> Worth[k.credit], line |-> k, group |-> "none"]
                  ELSE sale[s]]
           N == {P[k] : k \in keys}
<1>1. /\ line' = L /\ sale' = S /\ \A k \in keys : line[k].st = "unmatched"
      /\ RoomFor(Cardinality(keys))
      /\ statement' = statement /\ upload' = upload /\ move' = move /\ double' = double /\ shaken' = shaken
  BY DEF Claim
<1>2. P \in [keys -> Free] /\ \A i, j \in keys : i # j => P[i] # P[j]
  <2>1. IsFiniteSet(keys)
    BY <1>0, TruckSalesAssumption, FS_Subset
  <2> QED
    BY <1>1, <2>1, NewForFits
<1> HIDE DEF P
<1>3. N \in SUBSET Payments /\ \A s \in N : sale[s] = NoSale
  BY <1>2 DEF Free
<1>4. \A k \in keys : S[P[k]] = [truck |-> t, amount |-> Worth[k.credit], line |-> k, group |-> "none"]
  <2> SUFFICES ASSUME NEW k \in keys
               PROVE  S[P[k]] = [truck |-> t, amount |-> Worth[k.credit], line |-> k, group |-> "none"]
    OBVIOUS
  <2>1. (CHOOSE q \in keys : P[q] = P[k]) = k
    BY <1>2
  <2>2. P[k] \in Payments
    BY <1>3
  <2> QED
    BY <2>1, <2>2
<1>5. \A s \in Payments \ N : S[s] = sale[s]
  OBVIOUS
<1>6. \A k \in keys : Worth[k.credit] \in Nat
  <2>1. \A k \in keys : k.credit \in Credits
    BY <1>0 DEF Rows
  <2> QED
    BY <2>1, TruckSalesAssumption
<1>7. \A k \in keys : [truck |-> t, amount |-> Worth[k.credit], line |-> k, group |-> "none"] \in SaleType
  BY <1>0, <1>6 DEF SaleType
<1>a. ASSUME NEW k \in keys
      PROVE  S[P[k]] \in SaleType /\ S[P[k]].amount \in Nat /\ S[P[k]].line = k
  <2> DEFINE r == S[P[k]]
  <2>1. r = [truck |-> t, amount |-> Worth[k.credit], line |-> k, group |-> "none"]
    BY <1>4
  <2> HIDE DEF r
  <2>2. r \in SaleType /\ r.amount \in Nat /\ r.line = k
    BY <1>6, <1>7, <2>1
  <2> QED
    BY <2>2 DEF r
<1>8. S \in [Payments -> {NoSale} \cup SaleType] /\ \A s \in N : S[s].amount \in Nat
  <2>1. \A s \in N : S[s] \in SaleType /\ S[s].amount \in Nat
    <3> SUFFICES ASSUME NEW s \in N PROVE S[s] \in SaleType /\ S[s].amount \in Nat
      OBVIOUS
    <3>1. PICK k \in keys : s = P[k]
      OBVIOUS
    <3> QED
      BY <1>a, <3>1
  <2>2. \A s \in Payments : S[s] \in {NoSale} \cup SaleType
    BY <1>0, <1>5, <2>1
  <2>3. S = [s \in Payments |-> S[s]]
    OBVIOUS
  <2> HIDE DEF S
  <2> QED
    BY <2>1, <2>2, <2>3
<1>9. /\ L \in [Rows -> {NoLine} \cup LineType] /\ \A k \in Rows \ keys : L[k] = line[k]
      /\ \A k \in keys : L[k].st = "matched" /\ line[k] \in LineType
  <2>1. \A k \in keys : line[k] \in LineType
    BY <1>0, TruckTypes
  <2>2. \A k \in keys : [line[k] EXCEPT !.st = "matched"] \in LineType /\ [line[k] EXCEPT !.st = "matched"].st = "matched"
    BY <2>1 DEF LineType
  <2>3. \A k \in keys : k \in Rows
    BY <1>0
  <2> QED
    BY <1>0, <2>1, <2>2, <2>3
<1> HIDE DEF L, S, N
<1>10. SpentOn(L, S)
  <2>1. \A s \in Payments : s \in N => \E k \in keys : s = P[k] /\ S[s].line = k
    BY <1>a DEF N
  <2>2. \A k \in keys : P[k] \in N /\ P[k] \in Payments /\ S[P[k]].line = k
    BY <1>3, <1>a DEF N
  <2>3. \A s \in Payments : s \notin N => S[s].line \notin keys /\ S[s].line = sale[s].line
    BY <1>0, <1>1, <1>5 DEF SpentOn
  <2>4. \A s \in Payments : S[s].line \in Rows => L[S[s].line].st = "matched"
    BY <1>0, <1>9, <2>1, <2>3 DEF SpentOn
  <2>5. \A k \in Rows : L[k].st = "matched" => \E s \in Payments : S[s].line = k
    <3> SUFFICES ASSUME NEW k \in Rows, L[k].st = "matched" PROVE \E s \in Payments : S[s].line = k
      OBVIOUS
    <3>1. CASE k \in keys
      BY <2>2, <3>1
    <3>2. CASE k \notin keys
      <4>1. PICK s \in Payments : sale[s].line = k
        BY <1>0, <1>9, <3>2 DEF SpentOn
      <4>2. s \notin N
        BY <1>3, <4>1, SaleTypes
      <4> QED
        BY <2>3, <4>1, <4>2
    <3> QED
      BY <3>1, <3>2
  <2>6. \A r, s \in Payments : S[r].line \in Rows /\ S[r].line = S[s].line => r = s
    BY <1>0, <2>1, <2>3 DEF SpentOn
  <2> QED
    BY <2>4, <2>5, <2>6 DEF SpentOn
<1>11. TypeOKTruckSales'
  BY <1>0, <1>1, <1>8, <1>9, SalesTyped DEF TypeOKTruckSales
<1>12. FreshIsNew' /\ RecordedOnce'
  <2>1. OnRecord' \subseteq OnRecord
    BY <1>0, <1>1, <1>9, TruckTypes DEF OnRecord
  <2> QED
    BY <1>0, <1>1, <2>1 DEF FreshIsNew, RecordedOnce
<1>13. MoneyIn(S, move, shaken)
  <2>1. \A s \in N : sale[s] = NoSale /\ S[s].amount \in Nat
    BY <1>3, <1>8
  <2> QED
    BY <1>0, <1>3, <1>5, <1>8, <2>1, MoneyGrows DEF TypeOKTruckSales
<1> QED
  BY <1>1, <1>10, <1>11, <1>12, <1>13 DEF TruckInv

LEMMA TypeStep ==
  ASSUME TruckInv, NEW t \in Trucks, Type(t, Expected)
  PROVE  TruckInv'
<1>0. /\ TypeOKTruckSales /\ FreshIsNew /\ RecordedOnce /\ SpentOn(line, sale) /\ MoneyIn(sale, move, shaken)
      /\ line \in [Rows -> {NoLine} \cup LineType] /\ sale \in [Payments -> {NoSale} \cup SaleType]
  BY TruckTypes DEF TruckInv
<1> DEFINE p == NewFor({1})[1]
           v == [truck |-> t, amount |-> Expected, line |-> NoRow, group |-> "none"]
           S == [sale EXCEPT ![p] = v]
<1>1. /\ sale' = S /\ RoomFor(1)
      /\ line' = line /\ statement' = statement /\ upload' = upload /\ move' = move /\ double' = double /\ shaken' = shaken
  BY DEF Type
<1>2. p \in Payments /\ sale[p] = NoSale
  <2> DEFINE things == {1}
  <2>1. IsFiniteSet(things) /\ Cardinality(things) = 1 /\ 1 \in things
    BY FS_Singleton
  <2> HIDE DEF things
  <2>2. NewFor(things) \in [things -> Free]
    BY <1>1, <2>1, NewForFits
  <2>3. NewFor(things)[1] \in Free
    BY <2>1, <2>2
  <2> QED
    BY <2>3 DEF Free, things
<1>3. v \in SaleType /\ v.amount \in Nat /\ v.line = NoRow
  BY TruckSalesAssumption DEF SaleType
<1> HIDE DEF p, v
<1>4. /\ S \in [Payments -> {NoSale} \cup SaleType] /\ S[p] = v /\ \A s \in Payments \ {p} : S[s] = sale[s]
  BY <1>0, <1>2, <1>3
<1> HIDE DEF S
<1>5. SpentOn(line, S)
  BY <1>0, <1>2, <1>3, <1>4, SaleTypes DEF SpentOn
<1>6. TypeOKTruckSales'
  BY <1>0, <1>1, <1>4, SalesTyped DEF TypeOKTruckSales
<1>7. FreshIsNew' /\ RecordedOnce'
  BY <1>0, <1>1 DEF FreshIsNew, RecordedOnce, OnRecord
<1>8. MoneyIn(S, move, shaken)
  <2> DEFINE N == {p}
  <2>1. N \in SUBSET Payments /\ (\A s \in N : sale[s] = NoSale /\ S[s].amount \in Nat) /\ \A s \in Payments \ N : S[s] = sale[s]
    BY <1>2, <1>3, <1>4
  <2> HIDE DEF N
  <2> QED
    BY <1>0, <1>4, <2>1, MoneyGrows DEF TypeOKTruckSales
<1> QED
  BY <1>1, <1>5, <1>6, <1>7, <1>8 DEF TruckInv


(* A payment corrected or deleted by hand shakes its truck.                *)
LEMMA CorrectStep ==
  ASSUME TruckInv, NEW p \in Payments, Correct(p, Expected)
  PROVE  TruckInv'
<1>0. /\ TypeOKTruckSales /\ FreshIsNew /\ RecordedOnce /\ SpentOn(line, sale) /\ MoneyIn(sale, move, shaken)
      /\ line \in [Rows -> {NoLine} \cup LineType] /\ sale \in [Payments -> {NoSale} \cup SaleType]
  BY TruckTypes DEF TruckInv
<1> DEFINE v == [sale[p] EXCEPT !.amount = Expected]
           S == [sale EXCEPT ![p] = v]
<1>1. /\ sale' = S /\ sale[p] # NoSale /\ shaken' = shaken \cup {sale[p].truck}
      /\ line' = line /\ statement' = statement /\ upload' = upload /\ move' = move /\ double' = double
  BY DEF Correct
<1>2. sale[p] \in SaleType
  BY <1>0, <1>1
<1>3. v \in SaleType /\ v.line = sale[p].line /\ v.truck = sale[p].truck /\ sale[p].truck \in Trucks
  BY <1>2, TruckSalesAssumption DEF SaleType
<1> HIDE DEF v
<1>4. /\ S \in [Payments -> {NoSale} \cup SaleType] /\ S[p] = v /\ \A s \in Payments \ {p} : S[s] = sale[s]
  BY <1>0, <1>3
<1> HIDE DEF S
<1>5. SpentOn(line, S)
  <2>1. \A s \in Payments : S[s].line = sale[s].line
    BY <1>3, <1>4
  <2> QED
    BY <1>0, <2>1 DEF SpentOn
<1>6. TypeOKTruckSales'
  <2>1. shaken' \subseteq Trucks
    BY <1>0, <1>1, <1>3 DEF TypeOKTruckSales
  <2> QED
    BY <1>0, <1>1, <1>4, <2>1, SalesTyped DEF TypeOKTruckSales
<1>7. FreshIsNew' /\ RecordedOnce'
  BY <1>0, <1>1 DEF FreshIsNew, RecordedOnce, OnRecord
<1>8. MoneyIn(S, move, shaken \cup {sale[p].truck})
  <2>1. S[p].truck \in {sale[p].truck, "none"}
    BY <1>3, <1>4
  <2> QED
    BY <1>0, <1>1, <1>4, <2>1, MoneyShaken DEF TypeOKTruckSales
<1> QED
  BY <1>1, <1>5, <1>6, <1>7, <1>8 DEF TruckInv

LEMMA DeleteSaleStep ==
  ASSUME TruckInv, NEW p \in Payments, DeleteSale(p)
  PROVE  TruckInv'
<1>0. /\ TypeOKTruckSales /\ FreshIsNew /\ RecordedOnce /\ SpentOn(line, sale) /\ MoneyIn(sale, move, shaken)
      /\ line \in [Rows -> {NoLine} \cup LineType] /\ sale \in [Payments -> {NoSale} \cup SaleType]
  BY TruckTypes DEF TruckInv
<1> DEFINE S == [sale EXCEPT ![p] = NoSale]
           L == [k \in Rows |-> IF k \in ClaimedBy(p) THEN [line[k] EXCEPT !.st = "unmatched"] ELSE line[k]]
<1>1. /\ sale' = S /\ line' = L /\ sale[p] # NoSale /\ shaken' = shaken \cup {sale[p].truck}
      /\ statement' = statement /\ upload' = upload /\ move' = move /\ double' = double
  BY DEF DeleteSale
<1>2. sale[p] \in SaleType /\ sale[p].truck \in Trucks
  <2>1. sale[p] \in SaleType
    BY <1>0, <1>1
  <2> QED
    BY <2>1 DEF SaleType
<1>4. /\ S \in [Payments -> {NoSale} \cup SaleType] /\ S[p] = NoSale /\ \A s \in Payments \ {p} : S[s] = sale[s]
  BY <1>0
<1>9. /\ L \in [Rows -> {NoLine} \cup LineType]
      /\ \A k \in Rows : k # sale[p].line => L[k] = line[k]
      /\ \A k \in Rows : k = sale[p].line => L[k].st = "unmatched" /\ line[k] # NoLine
  <2>1. \A k \in Rows : k \in ClaimedBy(p) <=> k = sale[p].line
    BY DEF ClaimedBy
  <2>2. \A k \in Rows : k = sale[p].line => line[k].st = "matched" /\ line[k] \in LineType
    BY <1>0, SaleTypes DEF SpentOn
  <2>3. \A k \in Rows : k = sale[p].line =>
          [line[k] EXCEPT !.st = "unmatched"] \in LineType /\ [line[k] EXCEPT !.st = "unmatched"].st = "unmatched"
    BY <2>2 DEF LineType
  <2>4. \A k \in Rows : L[k] = IF k = sale[p].line THEN [line[k] EXCEPT !.st = "unmatched"] ELSE line[k]
    BY <2>1
  <2>5. L = [k \in Rows |-> L[k]]
    OBVIOUS
  <2> HIDE DEF L
  <2>6. \A k \in Rows : L[k] \in {NoLine} \cup LineType
    BY <1>0, <2>3, <2>4
  <2> QED
    BY <2>2, <2>3, <2>4, <2>5, <2>6, SaleTypes
<1> HIDE DEF S, L
<1>5. SpentOn(L, S)
  <2>1. \A s \in Payments \ {p} : S[s].line \in Rows => S[s].line # sale[p].line
    BY <1>0, <1>4 DEF SpentOn
  <2>2. \A s \in Payments : S[s].line \in Rows => s # p
    BY <1>4, SaleTypes
  <2>3. \A s \in Payments : S[s].line \in Rows => L[S[s].line].st = "matched"
    BY <1>0, <1>4, <1>9, <2>1, <2>2 DEF SpentOn
  <2>4. \A k \in Rows : L[k].st = "matched" => \E s \in Payments : S[s].line = k
    BY <1>0, <1>4, <1>9 DEF SpentOn
  <2>5. \A r, s \in Payments : S[r].line \in Rows /\ S[r].line = S[s].line => r = s
    BY <1>0, <1>4, <2>2 DEF SpentOn
  <2> QED
    BY <2>3, <2>4, <2>5 DEF SpentOn
<1>6. TypeOKTruckSales'
  <2>1. shaken' \subseteq Trucks
    BY <1>0, <1>1, <1>2 DEF TypeOKTruckSales
  <2> QED
    BY <1>0, <1>1, <1>4, <1>9, <2>1, SalesTyped DEF TypeOKTruckSales
<1>7. FreshIsNew' /\ RecordedOnce'
  <2>1. OnRecord' \subseteq OnRecord
    BY <1>1, <1>9 DEF OnRecord
  <2> QED
    BY <1>0, <1>1, <2>1 DEF FreshIsNew, RecordedOnce
<1>8. MoneyIn(S, move, shaken \cup {sale[p].truck})
  <2>1. S[p].truck \in {sale[p].truck, "none"}
    BY <1>4, SaleTypes
  <2> QED
    BY <1>0, <1>1, <1>4, <2>1, MoneyShaken DEF TypeOKTruckSales
<1> QED
  BY <1>1, <1>5, <1>6, <1>7, <1>8 DEF TruckInv

-----------------------------------------------------------------------------
(* Moves.                                                                  *)
MoveType == {NoMove} \cup [at: {"moving"}, from: Trucks, to: Trucks, amount: Nat]

LEMMA TakingsAre ==
  ASSUME NEW t \in Trucks
  PROVE  Takings(t) = TakenBy(sale, t) /\ (\E s \in SalesOn(t) : sale[s].amount < 0) = GaveAway(sale, t)
BY DEF Takings, Added, SalesOn, TakenBy, GaveAway

LEMMA BeginMoveStep ==
  ASSUME TruckInv, NEW m \in Moves, NEW from \in Trucks, NEW to \in Trucks, NEW amount \in 1..Surplus(from),
         BeginMove(m, from, to, amount)
  PROVE  TruckInv'
<1>0. /\ TypeOKTruckSales /\ FreshIsNew /\ RecordedOnce /\ SpentOn(line, sale) /\ MoneyIn(sale, move, shaken)
      /\ line \in [Rows -> {NoLine} \cup LineType] /\ sale \in [Payments -> {NoSale} \cup SaleType]
      /\ move \in [Moves -> MoveType]
  BY TruckTypes DEF TruckInv, TypeOKTruckSales, MoveType
<1> DEFINE v == [at |-> "moving", from |-> from, to |-> to, amount |-> amount]
           V == [move EXCEPT ![m] = v]
<1>1. /\ move' = V /\ from # to /\ amount > 0 /\ amount <= Surplus(from)
      /\ line' = line /\ statement' = statement /\ upload' = upload /\ sale' = sale /\ double' = double /\ shaken' = shaken
  BY DEF BeginMove
<1>2. TakenBy(sale, from) \in Int
  <2>1. {} \in SUBSET Payments
    OBVIOUS
  <2> QED
    BY <1>0, <2>1, TakenMore
<1>3. amount \in Nat /\ TakenBy(sale, from) >= Expected + amount
  <2>1. Surplus(from) = TakenBy(sale, from) - Expected
    BY TakingsAre DEF Surplus
  <2> QED
    BY <1>1, <1>2, <2>1, TruckSalesAssumption
<1>4. v \in MoveType /\ v.at = "moving" /\ v.from = from /\ v.to = to /\ v.amount = amount
  BY <1>3 DEF MoveType
<1> HIDE DEF v
<1>5. V \in [Moves -> MoveType] /\ V[m] = v /\ \A n \in Moves \ {m} : V[n] = move[n]
  BY <1>0, <1>4
<1> HIDE DEF V
<1>6. MoneyIn(sale, V, shaken)
  BY <1>0, <1>1, <1>3, <1>4, <1>5 DEF MoneyIn
<1>7. TypeOKTruckSales'
  <2>1. shaken' \subseteq Trucks
    BY <1>0, <1>1 DEF TypeOKTruckSales
  <2> QED
    BY <1>0, <1>1, <1>5, <2>1, SalesTyped DEF MoveType
<1>8. FreshIsNew' /\ RecordedOnce' /\ SpentOn(line', sale')
  BY <1>0, <1>1 DEF FreshIsNew, RecordedOnce, OnRecord
<1> QED
  BY <1>1, <1>6, <1>7, <1>8 DEF TruckInv


(* A move ends: its truck gives what it was found to spare, and another    *)
(* move from that truck leaves it shaken.                                  *)
LEMMA TwoLegs ==
  ASSUME NEW A \in [Payments -> {NoSale} \cup SaleType], NEW B \in [Payments -> {NoSale} \cup SaleType],
         NEW d \in Payments, NEW c \in Payments, d # c, A[d] = NoSale, A[c] = NoSale,
         NEW from \in Trucks, NEW to \in Trucks, from # to, NEW amount \in Nat,
         B[d].truck = from, B[d].amount = -amount, B[c].truck = to, B[c].amount = amount,
         \A s \in Payments \ {d, c} : B[s] = A[s],
         NEW t \in Trucks
  PROVE  /\ TakenBy(A, t) \in Int /\ TakenBy(B, t) \in Int
         /\ TakenBy(B, t) >= IF t = from THEN TakenBy(A, t) - amount ELSE TakenBy(A, t)
         /\ t # from /\ GaveAway(B, t) => GaveAway(A, t)
<1> DEFINE N == {d, c}
           M == {s \in N : B[s].truck = t}
           e == [s \in Payments |-> B[s].amount]
<1>1. N \in SUBSET Payments /\ (\A s \in N : A[s] = NoSale) /\ \A s \in Payments \ N : B[s] = A[s]
  OBVIOUS
<1>2. TakenBy(A, t) \in Int /\ TakenBy(B, t) = TakenBy(A, t) + TakenWith(B, N, t)
  BY <1>1, TakenMore
<1>3. TakenWith(B, N, t) = SumFunctionOnSet(e, M)
  BY DEF TakenWith
<1>4. M = IF t = from THEN {d} ELSE IF t = to THEN {c} ELSE {}
  OBVIOUS
<1>5. e[d] = -amount /\ e[c] = amount /\ e[d] \in Int /\ e[c] \in Int
  OBVIOUS
<1>6. t # from /\ GaveAway(B, t) => GaveAway(A, t)
  <2> SUFFICES ASSUME t # from, NEW s \in Payments, B[s].truck = t, B[s].amount < 0 PROVE GaveAway(A, t)
    BY DEF GaveAway
  <2>1. s # d /\ s # c
    OBVIOUS
  <2> QED
    BY <2>1 DEF GaveAway
<1> HIDE DEF N, M, e
<1>7. SumFunctionOnSet(e, {d}) = -amount /\ SumFunctionOnSet(e, {c}) = amount /\ SumFunctionOnSet(e, {}) = 0
  BY <1>5, SumOne, SumEmpty
<1>8. TakenWith(B, N, t) = IF t = from THEN -amount ELSE IF t = to THEN amount ELSE 0
  BY <1>3, <1>4, <1>7
<1> QED
  BY <1>2, <1>6, <1>8

LEMMA FinishMoveStep ==
  ASSUME TruckInv, NEW m \in Moves, FinishMove(m)
  PROVE  TruckInv'
<1>0. /\ TypeOKTruckSales /\ FreshIsNew /\ RecordedOnce /\ SpentOn(line, sale) /\ MoneyIn(sale, move, shaken)
      /\ line \in [Rows -> {NoLine} \cup LineType] /\ sale \in [Payments -> {NoSale} \cup SaleType]
      /\ move \in [Moves -> MoveType] /\ shaken \subseteq Trucks
  BY TruckTypes DEF TruckInv, TypeOKTruckSales, MoveType
<1> DEFINE r == move[m]
           pair == NewFor({"debit", "credit"})
           d == pair["debit"]
           c == pair["credit"]
           out == [truck |-> r.from, amount |-> -r.amount, line |-> NoRow, group |-> m]
           in == [truck |-> r.to, amount |-> r.amount, line |-> NoRow, group |-> m]
           S == [sale EXCEPT ![d] = out, ![c] = in]
           V == [move EXCEPT ![m] = NoMove]
           sh == IF \E n \in Moves \ {m} : move[n].from = r.from THEN shaken \cup {r.from} ELSE shaken
<1>1. /\ r.at = "moving" /\ RoomFor(2) /\ sale' = S /\ shaken' = sh /\ move' = V
      /\ line' = line /\ statement' = statement /\ upload' = upload /\ double' = double
  BY DEF FinishMove
<1>2. /\ r.from \in Trucks /\ r.to \in Trucks /\ r.amount \in Nat /\ r.from # r.to
      /\ r.from \notin shaken => TakenBy(sale, r.from) >= Expected + r.amount
  <2>1. r \in [at: {"moving"}, from: Trucks, to: Trucks, amount: Nat]
    BY <1>0, <1>1 DEF MoveType, NoMove
  <2>2. r.from # r.to /\ (r.from \notin shaken => TakenBy(sale, r.from) >= Expected + r.amount)
    BY <1>0, <1>1 DEF MoneyIn
  <2> QED
    BY <2>1, <2>2
<1>3. d \in Payments /\ c \in Payments /\ d # c /\ sale[d] = NoSale /\ sale[c] = NoSale
  <2> DEFINE things == {"debit", "credit"}
  <2>1. IsFiniteSet(things) /\ Cardinality(things) = 2 /\ "debit" \in things /\ "credit" \in things
    <3>1. IsFiniteSet({"debit"}) /\ Cardinality({"debit"}) = 1 /\ "credit" \notin {"debit"}
      BY FS_Singleton
    <3>2. IsFiniteSet({"debit"} \cup {"credit"}) /\ Cardinality({"debit"} \cup {"credit"}) = 1 + 1
      BY <3>1, FS_AddElement
    <3>3. {"debit"} \cup {"credit"} = things
      OBVIOUS
    <3> QED
      BY <3>2, <3>3
  <2> HIDE DEF things
  <2>2. NewFor(things) \in [things -> Free] /\ \A i, j \in things : i # j => NewFor(things)[i] # NewFor(things)[j]
    BY <1>1, <2>1, NewForFits
  <2>3. NewFor(things)["debit"] \in Free /\ NewFor(things)["credit"] \in Free
        /\ NewFor(things)["debit"] # NewFor(things)["credit"]
    BY <2>1, <2>2
  <2> QED
    BY <2>3 DEF Free, things
<1> HIDE DEF r, pair, d, c
<1>4. /\ out \in SaleType /\ out.truck = r.from /\ out.amount = -r.amount /\ out.line = NoRow
      /\ in \in SaleType /\ in.truck = r.to /\ in.amount = r.amount /\ in.line = NoRow
  BY <1>2 DEF SaleType
<1> HIDE DEF out, in
<1>5. /\ S \in [Payments -> {NoSale} \cup SaleType] /\ S[d] = out /\ S[c] = in
      /\ \A s \in Payments \ {d, c} : S[s] = sale[s]
  BY <1>0, <1>3, <1>4
<1>6. V \in [Moves -> MoveType] /\ V[m].at = "idle" /\ \A n \in Moves \ {m} : V[n] = move[n]
  BY <1>0 DEF MoveType, NoMove
<1>7. shaken \subseteq sh /\ sh \subseteq Trucks /\ \A n \in Moves \ {m} : move[n].from = r.from => r.from \in sh
  BY <1>0, <1>2
<1> HIDE DEF S, V, sh
<1>8. \A t \in Trucks :
        /\ TakenBy(sale, t) \in Int /\ TakenBy(S, t) \in Int
        /\ TakenBy(S, t) >= IF t = r.from THEN TakenBy(sale, t) - r.amount ELSE TakenBy(sale, t)
        /\ t # r.from /\ GaveAway(S, t) => GaveAway(sale, t)
  <2> DEFINE f == r.from
             g == r.to
             a == r.amount
  <2>1. /\ S[d].truck = f /\ S[d].amount = -a /\ S[c].truck = g /\ S[c].amount = a
        /\ f \in Trucks /\ g \in Trucks /\ f # g /\ a \in Nat
    BY <1>2, <1>4, <1>5
  <2> HIDE DEF f, g, a
  <2>2. ASSUME NEW t \in Trucks
        PROVE  /\ TakenBy(sale, t) \in Int /\ TakenBy(S, t) \in Int
               /\ TakenBy(S, t) >= IF t = f THEN TakenBy(sale, t) - a ELSE TakenBy(sale, t)
               /\ t # f /\ GaveAway(S, t) => GaveAway(sale, t)
    BY <1>0, <1>3, <1>5, <2>1, TwoLegs
  <2> QED
    BY <2>2 DEF f, a
<1>9. MoneyIn(S, V, sh)
  <2>1. Expected \in Nat
    BY TruckSalesAssumption
  <2>2. ASSUME NEW t \in Trucks \ sh, GaveAway(S, t) PROVE TakenBy(S, t) >= Expected
    <3>1. CASE t = r.from
      BY <1>2, <1>7, <1>8, <2>1, <3>1
    <3>2. CASE t # r.from
      <4>1. TakenBy(sale, t) >= Expected
        BY <1>0, <1>7, <1>8, <2>2, <3>2 DEF MoneyIn
      <4> QED
        BY <1>8, <2>1, <3>2, <4>1
    <3> QED
      BY <3>1, <3>2
  <2>3. ASSUME NEW n \in Moves, V[n].at = "moving"
        PROVE  V[n].from # V[n].to /\ (V[n].from \notin sh => TakenBy(S, V[n].from) >= Expected + V[n].amount)
    <3>1. n # m /\ V[n] = move[n]
      BY <1>6, <2>3
    <3>2. move[n].from \in Trucks /\ move[n].amount \in Nat
      BY <1>0, <2>3, <3>1 DEF MoveType, NoMove
    <3>3. /\ move[n].from # move[n].to
          /\ move[n].from \notin shaken => TakenBy(sale, move[n].from) >= Expected + move[n].amount
      BY <1>0, <2>3, <3>1 DEF MoneyIn
    <3>4. move[n].from \notin sh => move[n].from # r.from /\ move[n].from \notin shaken
      BY <1>7, <3>1
    <3>5. move[n].from \notin sh => TakenBy(S, move[n].from) >= Expected + move[n].amount
      BY <1>8, <2>1, <3>2, <3>3, <3>4
    <3> QED
      BY <3>1, <3>3, <3>5
  <2> QED
    BY <2>2, <2>3 DEF MoneyIn
<1>10. SpentOn(line, S)
  <2>1. \A s \in Payments : S[s].line \in Rows => s # d /\ s # c
    BY <1>4, <1>5, SaleTypes
  <2>2. \A k \in Rows : \A s \in Payments : sale[s].line = k => s # d /\ s # c
    BY <1>3, SaleTypes
  <2> QED
    BY <1>0, <1>5, <2>1, <2>2 DEF SpentOn
<1>11. TypeOKTruckSales'
  BY <1>0, <1>1, <1>5, <1>6, <1>7, SalesTyped DEF MoveType
<1>12. FreshIsNew' /\ RecordedOnce'
  BY <1>0, <1>1 DEF FreshIsNew, RecordedOnce, OnRecord
<1> QED
  BY <1>1, <1>9, <1>10, <1>11, <1>12 DEF TruckInv

LEMMA TruckStep == TruckInv /\ [NextTruckSales]_truckVars => TruckInv'
<1> SUFFICES ASSUME TruckInv, [NextTruckSales]_truckVars PROVE TruckInv'
  OBVIOUS
<1>1. CASE UNCHANGED truckVars
  <2>1. /\ line' = line /\ sale' = sale /\ move' = move /\ shaken' = shaken /\ upload' = upload /\ double' = double
        /\ statement' = statement
    BY <1>1 DEF truckVars
  <2> QED
    BY <2>1 DEF TruckInv, TypeOKTruckSales, FreshIsNew, RecordedOnce, OnRecord
<1>2. ASSUME NEW u \in Uploads,
             \/ \E f \in DOMAIN Files : Partition(u, f)
             \/ \E k \in Rows : InsertLine(u, k)
             \/ InsertStatement(u) \/ EndUpload(u) \/ DeleteStatement(u)
      PROVE  TruckInv'
  BY <1>2, UploadStep, InsertLineStep, DeleteStatementStep
<1>3. ASSUME NEW t \in Trucks, Type(t, Expected) \/ \E keys \in SUBSET OnRecord : Claim(t, keys) PROVE TruckInv'
  BY <1>3, TypeStep, ClaimStep
<1>4. ASSUME NEW m \in Moves, NEW t \in Trucks, NEW o \in Trucks, NEW amount \in 1..Surplus(t), BeginMove(m, t, o, amount)
      PROVE  TruckInv'
  BY <1>4, BeginMoveStep
<1> QED
  BY <1>1, <1>2, <1>3, <1>4, OrderLineStep, CorrectStep, DeleteSaleStep, FinishMoveStep DEF NextTruckSales

LEMMA TruckInvHolds == TruckInv => SalesHold
<1> SUFFICES ASSUME TruckInv PROVE SalesHold
  OBVIOUS
<1>1. LineSpentOnce
  <2> SUFFICES ASSUME NEW k \in Rows
               PROVE  Cardinality({s \in Payments : sale[s].line = k}) = (IF line[k].st = "matched" THEN 1 ELSE 0)
    BY DEF LineSpentOnce
  <2> DEFINE S == {s \in Payments : sale[s].line = k}
  <2>1. IF line[k].st = "matched" THEN \E s \in S : S = {s} ELSE S = {}
    BY DEF TruckInv, SpentOn
  <2> HIDE DEF S
  <2>2. Cardinality(S) = IF line[k].st = "matched" THEN 1 ELSE 0
    BY <2>1, FS_EmptySet, FS_Singleton
  <2> QED
    BY <2>2 DEF S
<1>2. CreditOnRecordOnce
  <2> SUFFICES ASSUME NEW c \in Referenced \ double
               PROVE  Cardinality({k \in Rows : line[k] # NoLine /\ k.credit = c}) <= 1
    BY DEF CreditOnRecordOnce
  <2> DEFINE S == {k \in Rows : line[k] # NoLine /\ k.credit = c}
  <2>1. S = {} \/ \E k \in S : S = {k}
    BY DEF TruckInv, RecordedOnce, OnRecord
  <2> HIDE DEF S
  <2>2. Cardinality(S) \in {0, 1}
    BY <2>1, FS_EmptySet, FS_Singleton
  <2> QED
    BY <2>2 DEF S
<1>3. MovesAreFunded
  BY TakingsAre DEF TruckInv, MoneyIn, MovesAreFunded
<1> QED
  BY <1>1, <1>2, <1>3 DEF TruckInv, SalesHold

(* A line is spent by one payment exactly while it is matched, a credit    *)
(* with a reference goes on record once unless two uploads overlapped, and *)
(* a truck gives only what it can spare, unless its payments are changed   *)
(* by hand or under another move: for any exports, trucks and uploads.     *)
THEOREM SalesDoHold == SpecTruckSales => []SalesHold
<1>1. SpecTruckSales => []TruckInv
  BY TruckInit, TruckStep, PTL DEF SpecTruckSales
<1> QED
  BY <1>1, TruckInvHolds, PTL
================================================================================
