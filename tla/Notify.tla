--------------------------------- MODULE Notify ---------------------------------
(***************************************************************************)
(* Notifications: from notify() through the queue to the inbox, the        *)
(* outbound channels and the delivery log.  A run is one dispatch, inline  *)
(* or of a job; it serves its recipients concurrently, and each of them on *)
(* all channels concurrently.                                              *)
(***************************************************************************)
EXTENDS Integers, FiniteSets

CONSTANTS
  Events,          \* calls of notify()
  Keyed,           \* events whose type has a dedupe key
  Boxed,           \* events whose type goes to the inbox too
  Mandatory,       \* events nobody can mute
  People,          \* the recipients
  Channels,        \* the outbound channels
  Noisy,           \* those that quiet hours silence
  Reported,        \* those whose carrier sends receipts
  Retries          \* retryLimit of the queue

InApp == "in_app"
ASSUME NotifyAssumption ==
  /\ Keyed \subseteq Events /\ Boxed \subseteq Events /\ Mandatory \subseteq Events
  /\ Noisy \subseteq Channels /\ Reported \subseteq Channels /\ InApp \notin Channels
  /\ Retries \in Nat

VARIABLES
  job,             \* the pg-boss job of an event; "inline" when there is none
  tries,           \* how often it was fetched
  run,             \* how far a dispatch has come
  leg,             \* ... and how far with one recipient
  answer,          \* what the provider made of one message
  row,             \* notification_deliveries.status of that message
  muted            \* channels a recipient has muted

vars == <<job, tries, run, leg, answer, row, muted>>

-----------------------------------------------------------------------------
(* Dispatch n of an event: 0 is the inline one, the others are the job's.  *)
Runs     == Events \X (0..(Retries + 1))
Messages == Runs \X People \X Channels
Legs     == Runs \X People
NoLeg == [at |-> "off", box |-> "no", to |-> {}]

Live(w)    == run[w] \in {"resolving", "delivering"}
Of(e)      == {w \in Runs : w[1] = e}
Current(w) == w[2] # 0 /\ w[2] = tries[w[1]] /\ job[w[1]] = "active"

TypeOK ==
  /\ job \in [Events -> {"none", "inline", "queued", "active", "done", "dead"}]
  /\ tries \in [Events -> 0..(Retries + 1)]
  /\ run \in [Runs -> {"none", "resolving", "delivering", "unresolved", "killed", "over"}]
  /\ leg \in [Legs -> [at: {"off", "due", "logging", "sending", "stopped", "failed"},
                       box: {"no", "there", "gone"}, to: SUBSET Channels]]
  /\ answer \in [Messages -> {"none", "accepted", "refused", "skipped"}]
  /\ row \in [Messages -> {"none", "unlogged", "pending", "unmarked", "sent", "failed", "skipped",
                           "suppressed", "delivered", "gone"}]
  /\ muted \subseteq People \X (Channels \cup {InApp})

Init ==
  /\ job = [e \in Events |-> "none"]
  /\ tries = [e \in Events |-> 0]
  /\ run = [w \in Runs |-> "none"]
  /\ leg = [x \in Legs |-> NoLeg]
  /\ answer = [m \in Messages |-> "none"]
  /\ row = [m \in Messages |-> "none"]
  /\ muted = {}

-----------------------------------------------------------------------------
(* notify: a job is queued.  Inline when the queue is off, the caller      *)
(* waits for the outcome, or enqueue throws; the last may have queued the  *)
(* job all the same when it is the answer of the database that was lost.   *)
Enqueue(e) ==
  /\ job[e] = "none"
  /\ job' = [job EXCEPT ![e] = "queued"]
  /\ UNCHANGED <<tries, run, leg, answer, row, muted>>
DispatchInline(e) ==
  /\ job[e] = "none"
  /\ run' = [run EXCEPT ![<<e, 0>>] = "resolving"]
  /\ job' \in {[job EXCEPT ![e] = s] : s \in {"inline", "queued"}}
  /\ UNCHANGED <<tries, leg, answer, row, muted>>

(* The worker takes one job at a time.                                     *)
TakenForGood(e) == [job EXCEPT ![e] = "done"]
TakenToDo(e)    == [job EXCEPT ![e] = "active"]
Fetch(e) ==
  /\ job[e] = "queued" /\ \A w \in Runs : Current(w) => ~Live(w)
  /\ job' = TakenToDo(e)
  /\ tries' = [tries EXCEPT ![e] = @ + 1]
  /\ run' = [run EXCEPT ![<<e, tries[e] + 1>>] = "resolving"]
  /\ UNCHANGED <<leg, answer, row, muted>>

(* A job that takes longer than expireInSeconds, or whose process is gone, *)
(* is retried or given up; a run that is still at it goes on.              *)
Retried(e) == IF tries[e] <= Retries THEN "queued" ELSE "dead"
Expire(e) ==
  /\ job[e] = "active"
  /\ job' = [job EXCEPT ![e] = Retried(e)]
  /\ UNCHANGED <<tries, run, leg, answer, row, muted>>

(* The process stops, and starts again.                                    *)
Crash ==
  /\ \E w \in Runs : Live(w)
  /\ run' = [w \in Runs |-> IF Live(w) THEN "killed" ELSE run[w]]
  /\ UNCHANGED <<job, tries, leg, answer, row, muted>>

-----------------------------------------------------------------------------
(* dispatch returns, whatever became of the recipients: the job is done.   *)
JobAfter(w) == IF Current(w) THEN [job EXCEPT ![w[1]] = "done"] ELSE job
EndRun(w, at) ==
  /\ job' = JobAfter(w)
  /\ run' = [run EXCEPT ![w] = at]

Resolve(w) ==
  /\ run[w] = "resolving"
  /\ run' = [run EXCEPT ![w] = "delivering"]
  /\ leg' = [x \in Legs |-> IF x[1] = w THEN [leg[x] EXCEPT !.at = "due"] ELSE leg[x]]
  /\ UNCHANGED <<job, tries, answer, row, muted>>
ResolveFails(w) ==
  /\ run[w] = "resolving" /\ EndRun(w, "unresolved")
  /\ UNCHANGED <<tries, leg, answer, row, muted>>
Settled(m) == row[m] \notin {"none", "pending"}
Over(w, p) ==
  \/ leg[<<w, p>>].at \in {"stopped", "failed"}
  \/ leg[<<w, p>>].at = "sending" /\ \A c \in leg[<<w, p>>].to : Settled(<<w, p, c>>)
FinishRun(w) ==
  /\ run[w] = "delivering" /\ \A p \in People : Over(w, p)
  /\ EndRun(w, "over")
  /\ UNCHANGED <<tries, leg, answer, row, muted>>

At(w, p, at) == run[w] = "delivering" /\ leg[<<w, p>>].at = at
Goes(w, p, l) == leg' = [leg EXCEPT ![<<w, p>>] = l]

(* gateChannels: preferences and settings, and quiet hours.  A read that   *)
(* fails counts as no preference at all.                                   *)
Wants(e, p, c, quiet) ==
  e \in Mandatory \/ (<<p, c>> \notin muted /\ ~(quiet /\ c \in Noisy))
Gates(w, p) ==
  LET e == w[1]
      gate(read, quiet) ==
        [box |-> e \in Boxed /\ (read => Wants(e, p, InApp, quiet)),
         to  |-> {c \in Channels : read => Wants(e, p, c, quiet)}]
  IN {gate(read, quiet) : read \in BOOLEAN, quiet \in BOOLEAN}

(* The inbox row comes first; its dedupe key, of this event and recipient, *)
(* admits one.  A duplicate stops everything for the recipient, and so     *)
(* does an error, which dispatch catches.                                  *)
HasKey(e, p)       == \E w \in Of(e) : leg[<<w, p>>].box = "there"
NeverTaken(w, p)   == FALSE
Taken(w, p)        == w[1] \in Keyed /\ HasKey(w[1], p)
Post(w, p, g) ==
  /\ At(w, p, "due") /\ (g.box => ~Taken(w, p))
  /\ Goes(w, p, [at |-> "logging", box |-> IF g.box THEN "there" ELSE "no", to |-> g.to])
  /\ UNCHANGED <<job, tries, run, answer, row, muted>>
Refuse(w, p, at) == Goes(w, p, [leg[<<w, p>>] EXCEPT !.at = at])
Duplicate(w, p, g) ==
  /\ At(w, p, "due") /\ g.box /\ Taken(w, p) /\ Refuse(w, p, "stopped")
  /\ UNCHANGED <<job, tries, run, answer, row, muted>>
PostFails(w, p, g) ==
  /\ At(w, p, "due") /\ g.box /\ Refuse(w, p, "failed")
  /\ UNCHANGED <<job, tries, run, answer, row, muted>>

(* What was suppressed is on record before anything is sent, if the log    *)
(* can be written: a row that points to a deleted inbox row cannot.        *)
Writes(w, p, s) == s = "unlogged" \/ leg[<<w, p>>].box # "gone"
Suppressed(w, p) == {<<w, p, c>> : c \in Channels \ leg[<<w, p>>].to}
LogSuppressed(w, p) ==
  /\ At(w, p, "logging")
  /\ Goes(w, p, [leg[<<w, p>>] EXCEPT !.at = "sending"])
  /\ \E s \in {"suppressed", "unlogged"} :
       /\ Writes(w, p, s)
       /\ row' = [m \in Messages |-> IF m \in Suppressed(w, p) THEN s ELSE row[m]]
  /\ UNCHANGED <<job, tries, run, answer, muted>>

-----------------------------------------------------------------------------
(* One message: the provider is called, then the row is opened, then       *)
(* closed with the outcome.  A write that fails is swallowed: no row       *)
(* (unlogged), or a row that stays pending (unmarked).                     *)
Sending(m) == At(m[1], m[2], "sending") /\ m[3] \in leg[<<m[1], m[2]>>].to
Send(m, a) ==
  /\ Sending(m) /\ answer[m] = "none"
  /\ answer' = [answer EXCEPT ![m] = a]
  /\ UNCHANGED <<job, tries, run, leg, row, muted>>
OpenRow(m) ==
  /\ Sending(m) /\ answer[m] # "none" /\ row[m] = "none"
  /\ \E s \in {"pending", "unlogged"} : Writes(m[1], m[2], s) /\ row' = [row EXCEPT ![m] = s]
  /\ UNCHANGED <<job, tries, run, leg, answer, muted>>
Outcome(a) == CASE a = "accepted" -> "sent" [] a = "refused" -> "failed" [] OTHER -> "skipped"
CloseRow(m) ==
  /\ Sending(m) /\ row[m] = "pending"
  /\ \E s \in {Outcome(answer[m]), "unmarked"} : row' = [row EXCEPT ![m] = s]
  /\ UNCHANGED <<job, tries, run, leg, answer, muted>>
(* The carrier reports on a message as often and in whatever order it      *)
(* likes.  A report is matched on the provider's id, which a row has once  *)
(* it was marked sent.                                                     *)
OpenAlways(m) == row[m] \in {"sent", "failed", "delivered"}
OpenToReport(m) == row[m] = "sent"
Report(m, s) ==
  /\ m[3] \in Reported /\ answer[m] = "accepted" /\ OpenToReport(m)
  /\ row' = [row EXCEPT ![m] = s]
  /\ UNCHANGED <<job, tries, run, leg, answer, muted>>

-----------------------------------------------------------------------------
(* The recipient deletes the inbox row, and its deliveries with it; or     *)
(* changes a preference.                                                   *)
Remove(w, p) ==
  /\ leg[<<w, p>>].box = "there"
  /\ Goes(w, p, [leg[<<w, p>>] EXCEPT !.box = "gone"])
  /\ row' = [m \in Messages |-> IF m[1] = w /\ m[2] = p /\ row[m] \notin {"none", "unlogged"}
                                THEN "gone" ELSE row[m]]
  /\ UNCHANGED <<job, tries, run, answer, muted>>
UpdatePreferences(p, c) ==
  /\ muted' = (muted \ {<<p, c>>}) \cup ({<<p, c>>} \ muted)
  /\ UNCHANGED <<job, tries, run, leg, answer, row>>

Works(w) ==
  \/ Resolve(w) \/ ResolveFails(w) \/ FinishRun(w)
  \/ \E p \in People : \E g \in Gates(w, p) : Post(w, p, g) \/ Duplicate(w, p, g) \/ PostFails(w, p, g)
  \/ \E p \in People : LogSuppressed(w, p)
  \/ \E p \in People, c \in Channels, a \in {"accepted", "refused", "skipped"} : Send(<<w, p, c>>, a)
  \/ \E p \in People, c \in Channels : OpenRow(<<w, p, c>>) \/ CloseRow(<<w, p, c>>)

Next ==
  \/ \E e \in Events : Enqueue(e) \/ DispatchInline(e) \/ Fetch(e) \/ Expire(e)
  \/ \E w \in Runs : Works(w)
  \/ Crash
  \/ \E m \in Messages, s \in {"failed", "delivered"} : Report(m, s)
  \/ \E w \in Runs, p \in People : Remove(w, p)
  \/ \E p \in People, c \in Channels \cup {InApp} : UpdatePreferences(p, c)

Spec == Init /\ [][Next]_vars

(* pg-boss polls, expires and retries; a run that is alive goes on.        *)
Fairness ==
  /\ \A e \in Events : WF_vars(Fetch(e)) /\ WF_vars(Expire(e))
  /\ \A w \in Runs : WF_vars(Works(w))
LiveSpec == Spec /\ Fairness

-----------------------------------------------------------------------------
(* Properties.                                                             *)

(* The dedupe key keeps a retry, a second run of an expired job and an     *)
(* inline dispatch beside a queued job from messaging anyone twice: two    *)
(* runs that both went through the inbox reach a person on the same        *)
(* channel only if the inbox row was deleted in between.                   *)
Through(w, p) == leg[<<w, p>>].box # "no"
Twice(w, v, p, c) == w # v /\ answer[<<w, p, c>>] = "accepted" /\ answer[<<v, p, c>>] = "accepted"
TwiceOnlyIfDeleted ==
  \A e \in Keyed, p \in People, c \in Channels : \A w, v \in Of(e) :
    Twice(w, v, p, c) /\ Through(w, p) /\ Through(v, p) => "gone" \in {leg[<<w, p>>].box, leg[<<v, p>>].box}

(* Whoever is passed over as a duplicate is someone another run got to,    *)
(* not the neighbour of someone it got to.                                 *)
StoppedWasReached ==
  \A w \in Runs, p \in People :
    leg[<<w, p>>].at = "stopped" => \E v \in Of(w[1]) \ {w} : Through(v, p)

(* The dedupe key stops the second message and no first one.               *)
ReachedOnce == TwiceOnlyIfDeleted /\ StoppedWasReached

(* "A receipt must never resurrect a send we already know was refused",    *)
(* and the first receipt stands, whatever the carrier says later.          *)
Final == {"failed", "delivered", "skipped", "suppressed"}
AnswersStand == [][\A m \in Messages : row[m] \in Final => row'[m] \in {row[m], "gone"}]_vars

(* A queued notification is heard of by everyone it is for, through        *)
(* restarts, expiries and retries, unless its retries run out, its         *)
(* recipients cannot be read or their own delivery fails.                  *)
Heard(e, p) ==
  \/ \E w \in Of(e) : Through(w, p)
  \/ \E w \in Of(e) : Over(w, p) /\ leg[<<w, p>>].at # "stopped"
QueuedIsHeard ==
  \A e \in Events : job[e] = "queued" ~>
    \/ job[e] = "dead" \/ \E w \in Of(e) : run[w] = "unresolved"
    \/ \A p \in People : Heard(e, p)

(* config/queue.js: "the inbox row's dedupe key means a retried job        *)
(* re-sends nothing".  A recipient who muted the inbox has no such row.    *)
RedeliveryResendsNothing ==
  \A e \in Keyed \cap Boxed, p \in People, c \in Channels : \A w, v \in Of(e) :
    Twice(w, v, p, c) => "gone" \in {leg[<<w, p>>].box, leg[<<v, p>>].box}

(* notifications/index.js: the queue "survives a deploy or a crash         *)
(* mid-send".  The retry stops at the inbox row the killed run left.       *)
SurvivesCrash ==
  \A e \in Events, p \in People, c \in Channels :
    /\ job[e] = "done" /\ run[<<e, 0>>] = "none" /\ muted = {}
    /\ \A w \in Of(e) : run[w] \in {"none", "killed", "over"}
    =>
      \E w \in Of(e) : row[<<w, p, c>>] # "none" \/ leg[<<w, p>>].at = "failed"

(* notificationDelivery.repository.js, start: "Open a delivery record      *)
(* before the provider is called".  It is opened with the answer.          *)
SentIsOnRecord == \A m \in Messages : answer[m] = "accepted" => row[m] # "none"
===============================================================================
