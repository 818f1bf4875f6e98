------------------------------- MODULE WaPipeline -------------------------------
(***************************************************************************)
(* The inbound half of the WhatsApp pipeline for one phone: the webhook    *)
(* records a message and then queues it, a worker runs one turn of the     *)
(* conversation, saves the session, records the replies and closes the     *)
(* message; failed jobs come back after a delay, the janitor queues what   *)
(* was lost, and a payment event enters the same session from another      *)
(* queue.  Nothing here is a transaction but the single statements, so a   *)
(* step is one statement and everything runs between any two.              *)
(***************************************************************************)
EXTENDS Integers, Sequences, FiniteSets, SequencesExt

CONSTANTS
  LastMsg,         \* messages are 1 .. LastMsg, in the order of their rows
  Confirms,        \* the messages that tap Confirm; the others say something else
  Slot,            \* handlers of WA_INBOUND that can be alive at once
  NoSlot,          \* no handler holds the job
  Instances,       \* workers polling WA_INBOUND, one job each
  RetryLimit,      \* retries of a job before it is dead
  Payable,         \* bound: the orders whose payment may be confirmed
  MaxAge,          \* bound: how old a row may get before it is closed
  MaxFaults,       \* bound: handlers and requests that fail, expire or die
  MaxJobs          \* bound: jobs of one message in the queue at once

Msg == 1..LastMsg

ASSUME PipelineAssumption ==
  /\ LastMsg \in Nat /\ Confirms \subseteq Msg /\ Payable \subseteq Msg
  /\ Instances \in Nat /\ RetryLimit \in Nat
  /\ MaxAge \in 0..2 /\ MaxFaults \in Nat /\ MaxJobs \in Nat
  /\ IsFiniteSet(Slot) /\ NoSlot \notin Slot

VARIABLES
  status,          \* status of the inbound row in wa_messages
  age,             \* how long an open row has waited
  hook,            \* what the webhook still owes the row it recorded
  jobs,            \* live jobs of WA_INBOUND
  handler,         \* what each handler is doing, with its local variables
  session,         \* the row of wa_sessions
  orders,          \* orders placed under the message's wamid
  recent,          \* orders placed less than 90 seconds ago
  paid,            \* orders whose payment is confirmed
  outbox,          \* outbound rows of wa_messages
  event,           \* the payment_confirmed job of each order
  applied,         \* history: sessions saved with this message applied
  crossed,         \* history: messages and orders whose handler was not alone
  unchecked,       \* history: messages placed after the duplicate check threw
  faults           \* faults so far

(* An order is named by the message it was placed under: the idempotency   *)
(* key is the wamid.                                                       *)
vars == <<status, age, hook, jobs, handler, session, orders, recent, paid,
          outbox, event, applied, crossed, unchecked, faults>>

-----------------------------------------------------------------------------
(* The conversation, from a complete cart to the paid order;               *)
(* EXPECTED_PAYMENT stands for AWAIT_PAYMENT, which follows it, as well.   *)
State   == {"CONFIRM", "DEPOT", "EXPECTED_PAYMENT", "MENU"}
NoOrder == 0
Session == [state: State, lastOrder: Msg \cup {NoOrder}]
Fresh   == [state |-> "CONFIRM", lastOrder |-> NoOrder]

(* Replies of a turn that has more than one; two stand for any number.     *)
Several == 2

(* What reduce may return: the session, the replies, whether an order is   *)
(* to be created.  A cart the catalogue has moved under is sent back.  A   *)
(* message that is no Confirm is a question the conversation answers where *)
(* it stands, the command `menu', or the depot that was asked for; a       *)
(* Confirm is out of place anywhere but at CONFIRM.                        *)
Turn(s, state, due, create) == [s |-> [s EXCEPT !.state = state], due |-> due, create |-> create]

Moves(s, m) == IF m \in Confirms THEN {}
               ELSE {"MENU"} \cup {state \in {"CONFIRM"} : s.state = "DEPOT"}

Reduce(s, m) ==
  IF s.state = "CONFIRM" /\ m \in Confirms
  THEN {Turn(s, "CONFIRM", 1, TRUE), Turn(s, "DEPOT", Several, FALSE)}
  ELSE {Turn(s, state, 1, FALSE) : state \in {s.state} \cup Moves(s, m)}

(* The outcomes of CREATE_ORDER re-enter reduce: an order that is already  *)
(* paid leaves nothing to await, a refusal keeps the cart or drops its     *)
(* depot; PAYMENT_CONFIRMED drops whatever the session was at.              *)
Created(s, o) ==
  [s EXCEPT !.state = IF paid[o] THEN "MENU" ELSE "EXPECTED_PAYMENT", !.lastOrder = o]
Failed(s)        == {[s EXCEPT !.state = st] : st \in {"CONFIRM", "DEPOT"}}
PaidSession(s)   == [s EXCEPT !.state = "MENU"]

-----------------------------------------------------------------------------
(* The queue in the order its jobs were created: a job that comes back     *)
(* from a retry keeps its place.                                           *)
JobState == {"ready", "active", "backoff"}
Job      == [msg: Msg, tries: 0..RetryLimit, state: JobState, by: Slot \cup {NoSlot}]
Queued(m)  == {i \in DOMAIN jobs : jobs[i].msg = m}
Enqueue(m) == jobs' = Append(jobs, [msg |-> m, tries |-> 0, state |-> "ready", by |-> NoSlot])
Ready      == {i \in DOMAIN jobs : jobs[i].state = "ready"}
Oldest     == Min(Ready)

HeldBy(h)  == {i \in DOMAIN jobs : jobs[i].by = h}
JobOf(h)   == CHOOSE i \in HeldBy(h) : TRUE
Later(j)   == [j EXCEPT !.state = "backoff", !.tries = @ + 1, !.by = NoSlot]
Return(i)  == [jobs EXCEPT ![i] = Later(jobs[i])]

(* The job of a handler when the handler ends, and when it fails: back     *)
(* after a delay, or dead when its retries are used up.  An orphan has no  *)
(* job any more.                                                           *)
DropJob(h)   == jobs' = IF HeldBy(h) = {} THEN jobs ELSE RemoveAt(jobs, JobOf(h))
ReturnJob(h) ==
  jobs' = IF HeldBy(h) = {} THEN jobs
          ELSE IF jobs[JobOf(h)].tries = RetryLimit THEN RemoveAt(jobs, JobOf(h)) ELSE Return(JobOf(h))

Step    == {"idle", "find", "guard", "rearm", "load", "place", "insert",
            "save", "reply", "send", "close"}
NoMsg   == 0
Handler == [at: Step, msg: Msg \cup {NoMsg}, s: Session, due: 0..Several, rows: Seq(Nat)]
Idle    == [at |-> "idle", msg |-> NoMsg, s |-> Fresh, due |-> 0, rows |-> <<>>]
At(h, step) == handler[h].at = step
Live        == {h \in Slot : ~At(h, "idle")}
Holding     == {h \in Live : HeldBy(h) # {}}
Goes(h, step) == handler' = [handler EXCEPT ![h].at = step]

RepliesFirst == <<"reply", "save", "send", "close">>

(* The order in which a turn is made durable.                              *)
Bookkeeping == <<"save", "reply", "send", "close">>
Then(step)  == LET i == CHOOSE k \in DOMAIN Bookkeeping : Bookkeeping[k] = step
               IN Bookkeeping[i + 1]

(* The outbound rows by in_reply_to, NoMsg for event pushes: `part' is the *)
(* reply's place in its turn, `armed' says that a WA_SEND job names it.    *)
Row          == [part: Nat \ {0}, armed: BOOLEAN]
Record(m, n) == outbox' = [outbox EXCEPT ![m] = Append(@, [part |-> n, armed |-> FALSE])]
Arm(m, rows) == outbox' = [outbox EXCEPT ![m] =
                  [i \in DOMAIN @ |-> IF i \in Range(rows) THEN [@[i] EXCEPT !.armed = TRUE] ELSE @[i]]]

EventStep  == {"none", "ready", "save", "reply", "send", "done"}
Event      == [at: EventStep, s: Session, row: Nat]
NoEvent    == [at |-> "none", s |-> Fresh, row |-> 0]
EventsLive == {o \in Msg : event[o].at \in {"save", "reply", "send"}}

(* How long an inbound row has waited: the janitor looks at rows older     *)
(* than two minutes, and from ten minutes on a row is not answered.        *)
Young == 0
Stuck == 1
Stale == 2

-----------------------------------------------------------------------------
Init ==
  /\ status = [m \in Msg |-> "absent"]
  /\ age = [m \in Msg |-> Young]
  /\ hook = [m \in Msg |-> "none"]
  /\ jobs = <<>>
  /\ handler = [h \in Slot |-> Idle]
  /\ session = Fresh
  /\ orders = [m \in Msg |-> 0]
  /\ recent = [m \in Msg |-> FALSE]
  /\ paid = [m \in Msg |-> FALSE]
  /\ outbox = [m \in Msg \cup {NoMsg} |-> <<>>]
  /\ event = [m \in Msg |-> NoEvent]
  /\ applied = [m \in Msg |-> 0]
  /\ crossed = {} /\ unchecked = {} /\ faults = 0

(* A row is closed; the age of a closed row means nothing.                 *)
CloseAs(m, st) == status' = [status EXCEPT ![m] = st] /\ age' = [age EXCEPT ![m] = Young]

queueVars == <<jobs, handler>>
turnVars  == <<session, orders, recent, outbox, applied, unchecked>>
payVars   == <<paid, event>>

RecordAgain(m) ==
  /\ status[m] \in {"absent", "processed"}
  /\ \A k \in 1..(m - 1) : status[k] # "absent"
  /\ status' = [status EXCEPT ![m] = "received"]
  /\ \E owed \in {"queue", "skip"} : hook' = [hook EXCEPT ![m] = owed]
  /\ UNCHANGED <<age, queueVars, turnVars, payVars, crossed, faults>>

(* The webhook: the row is written, and only then queued, or skipped when  *)
(* Meta has held the message for too long.  It may die in between, and     *)
(* Meta's retry finds the row and leaves it.                               *)
RecordInbound(m) ==
  /\ status[m] = "absent"
  /\ \A k \in 1..(m - 1) : status[k] # "absent"
  /\ status' = [status EXCEPT ![m] = "received"]
  /\ \E owed \in {"queue", "skip"} : hook' = [hook EXCEPT ![m] = owed]
  /\ UNCHANGED <<age, queueVars, turnVars, payVars, crossed, faults>>

HookQueues(m) ==
  /\ hook[m] = "queue" /\ hook' = [hook EXCEPT ![m] = "none"]
  /\ Enqueue(m)
  /\ UNCHANGED <<status, age, handler, turnVars, payVars, crossed, faults>>

HookSkips(m) ==
  /\ hook[m] = "skip" /\ hook' = [hook EXCEPT ![m] = "none"]
  /\ CloseAs(m, "skipped")
  /\ UNCHANGED <<queueVars, turnVars, payVars, crossed, faults>>

HookDies(m) ==
  /\ hook[m] # "none" /\ hook' = [hook EXCEPT ![m] = "none"]
  /\ faults < MaxFaults /\ faults' = faults + 1
  /\ UNCHANGED <<status, age, queueVars, turnVars, payVars, crossed>>

JanitorOfYoung(m) ==
  /\ status[m] = "received" /\ age[m] = Young
  /\ Cardinality(Queued(m)) < MaxJobs
  /\ Enqueue(m)
  /\ UNCHANGED <<status, age, hook, handler, turnVars, payVars, crossed, faults>>

(* The janitor queues a row that is still open after two minutes, whether  *)
(* or not it has a job.                                                    *)
Janitor(m) ==
  /\ status[m] = "received" /\ age[m] # Young
  /\ Cardinality(Queued(m)) < MaxJobs
  /\ Enqueue(m)
  /\ UNCHANGED <<status, age, hook, handler, turnVars, payVars, crossed, faults>>

Ages(m) ==
  /\ status[m] = "received" /\ age[m] < MaxAge
  /\ age' = [age EXCEPT ![m] = @ + 1]
  /\ UNCHANGED <<status, hook, queueVars, turnVars, payVars, crossed, faults>>

-----------------------------------------------------------------------------
(* A worker takes the oldest job that is due.  Handlers that lost their    *)
(* job to the expiry may still be running.                                 *)
Fetch(h) ==
  /\ At(h, "idle")
  /\ Cardinality(Holding) < Instances
  /\ Ready # {}
  /\ LET m == jobs[Oldest].msg
         company == {handler[g].msg : g \in Live} \cup EventsLive
     IN /\ jobs' = [jobs EXCEPT ![Oldest].state = "active", ![Oldest].by = h]
        /\ handler' = [handler EXCEPT ![h] = [Idle EXCEPT !.at = "find", !.msg = m]]
        /\ crossed' = IF company = {} THEN crossed ELSE crossed \cup company \cup {m}
  /\ UNCHANGED <<status, age, hook, turnVars, payVars, faults>>

Finish(h) == handler' = [handler EXCEPT ![h] = Idle] /\ DropJob(h)

Find(h) ==
  LET m == handler[h].msg
  IN /\ At(h, "find")
     /\ \/ /\ status[m] # "received"
           /\ Finish(h) /\ UNCHANGED <<status, age>>
        \/ /\ status[m] = "received" /\ age[m] = Stale
           /\ Finish(h) /\ CloseAs(m, "skipped")
        \/ /\ status[m] = "received" /\ age[m] # Stale
           /\ Goes(h, "guard") /\ UNCHANGED <<status, age, jobs>>
     /\ UNCHANGED <<hook, turnVars, payVars, crossed, faults>>

(* The turn-retry guard: a turn with replies on record is not run again.   *)
Guard(h) ==
  LET prior == [i \in DOMAIN outbox[handler[h].msg] |-> i]
  IN /\ At(h, "guard")
     /\ handler' = [handler EXCEPT ![h].at = IF prior = <<>> THEN "load" ELSE "rearm",
                                   ![h].rows = prior]
     /\ UNCHANGED <<status, age, hook, jobs, turnVars, payVars, crossed, faults>>

ForgetRows(h, step) == handler' = [handler EXCEPT ![h].at = step, ![h].rows = <<>>]

CloseUnarmed(h) ==
  /\ At(h, "rearm") /\ ForgetRows(h, "close")
  /\ UNCHANGED <<status, age, hook, jobs, turnVars, payVars, crossed, faults>>

Rearm(h) ==
  /\ At(h, "rearm")
  /\ Arm(handler[h].msg, handler[h].rows) /\ ForgetRows(h, "close")
  /\ UNCHANGED <<status, age, hook, jobs, session, orders, recent, applied, unchecked, payVars, crossed, faults>>

Load(h) ==
  /\ At(h, "load")
  /\ \E t \in Reduce(session, handler[h].msg) :
       handler' = [handler EXCEPT ![h].at = IF t.create THEN "place" ELSE Head(Bookkeeping),
                                  ![h].s = t.s, ![h].due = t.due]
  /\ UNCHANGED <<status, age, hook, jobs, turnVars, payVars, crossed, faults>>

-----------------------------------------------------------------------------
(* placeOrder: the order under this key, or an equal order of the last 90  *)
(* seconds, is the answer; else the insert, where the unique key decides.  *)
(* A duplicate check that throws is passed over: the order is placed.      *)
Answered(h, o) ==
  handler' = [handler EXCEPT ![h].at = Head(Bookkeeping), ![h].due = Several, ![h].s = Created(@, o)]

PlaceAnyTime(h) ==
  LET m == handler[h].msg
  IN /\ At(h, "place")
     /\ IF orders[m] > 0 THEN Answered(h, m) ELSE Goes(h, "insert")
     /\ UNCHANGED <<status, age, hook, jobs, turnVars, payVars, crossed, faults>>

Place(h) ==
  LET m == handler[h].msg
  IN /\ At(h, "place")
     /\ \/ /\ orders[m] > 0 /\ Answered(h, m)
           /\ UNCHANGED <<unchecked, faults>>
        \/ /\ orders[m] = 0
           /\ \E o \in Msg : recent[o] /\ Answered(h, o)
           /\ UNCHANGED <<unchecked, faults>>
        \/ /\ orders[m] = 0 /\ ~ \E o \in Msg : recent[o]
           /\ Goes(h, "insert")
           /\ UNCHANGED <<unchecked, faults>>
        \/ /\ orders[m] = 0 /\ Goes(h, "insert")
           /\ unchecked' = unchecked \cup {m}
           /\ faults < MaxFaults /\ faults' = faults + 1
     /\ UNCHANGED <<status, age, hook, jobs, session, orders, recent, outbox, applied, payVars, crossed>>

Insert(h) ==
  LET m == handler[h].msg
  IN /\ At(h, "insert")
     /\ IF orders[m] > 0 THEN UNCHANGED <<orders, recent>>
        ELSE orders' = [orders EXCEPT ![m] = @ + 1] /\ recent' = [recent EXCEPT ![m] = TRUE]
     /\ Answered(h, m)
     /\ UNCHANGED <<status, age, hook, jobs, session, outbox, applied, unchecked, payVars, crossed, faults>>

(* placeOrder throws: nothing was placed, the customer is told.            *)
Refuse(h) ==
  /\ At(h, "place") \/ At(h, "insert")
  /\ \E s \in Failed(handler[h].s) :
       handler' = [handler EXCEPT ![h].at = Head(Bookkeeping), ![h].due = Several, ![h].s = s]
  /\ UNCHANGED <<status, age, hook, jobs, turnVars, payVars, crossed, faults>>

-----------------------------------------------------------------------------
Save(h) ==
  /\ At(h, "save")
  /\ session' = handler[h].s
  /\ applied' = [applied EXCEPT ![handler[h].msg] = @ + 1]
  /\ handler' = [handler EXCEPT ![h].at = Then("save"), ![h].s = Fresh]
  /\ UNCHANGED <<status, age, hook, jobs, orders, recent, outbox, unchecked, payVars, crossed, faults>>

Reply(h) ==
  LET m    == handler[h].msg
      said == Len(handler[h].rows) + 1
      all  == said = handler[h].due
  IN /\ At(h, "reply")
     /\ Record(m, said)
     /\ handler' = [handler EXCEPT ![h].rows = Append(@, Len(outbox[m]) + 1),
                                   ![h].at = IF all THEN Then("reply") ELSE "reply",
                                   ![h].due = IF all THEN 0 ELSE @]
     /\ UNCHANGED <<status, age, hook, jobs, session, orders, recent, applied, unchecked, payVars, crossed, faults>>

Send(h) ==
  /\ At(h, "send")
  /\ Arm(handler[h].msg, handler[h].rows) /\ ForgetRows(h, Then("send"))
  /\ UNCHANGED <<status, age, hook, jobs, session, orders, recent, applied, unchecked, payVars, crossed, faults>>

(* markProcessed asks nothing of the row's status.                         *)
Close(h) ==
  /\ At(h, "close")
  /\ CloseAs(handler[h].msg, "processed")
  /\ Finish(h)
  /\ UNCHANGED <<hook, turnVars, payVars, crossed, faults>>

-----------------------------------------------------------------------------
(* A handler throws, or its process dies: its job is retried later.        *)
Fail(h) ==
  /\ h \in Live
  /\ handler' = [handler EXCEPT ![h] = Idle]
  /\ ReturnJob(h)
  /\ faults < MaxFaults /\ faults' = faults + 1
  /\ UNCHANGED <<status, age, hook, turnVars, payVars, crossed>>

(* Sixty seconds are over: the queue takes the job back, and the handler,  *)
(* which is not told, runs on.                                             *)
Expire(h) ==
  /\ h \in Holding
  /\ ReturnJob(h)
  /\ faults < MaxFaults /\ faults' = faults + 1
  /\ UNCHANGED <<status, age, hook, handler, turnVars, payVars, crossed>>

DelayOver(i) ==
  /\ jobs[i].state = "backoff"
  /\ jobs' = [jobs EXCEPT ![i].state = "ready"]
  /\ UNCHANGED <<status, age, hook, handler, turnVars, payVars, crossed, faults>>

WindowPasses(o) ==
  /\ recent[o] /\ recent' = [recent EXCEPT ![o] = FALSE]
  /\ UNCHANGED <<status, age, hook, queueVars, session, orders, outbox, applied, unchecked, payVars, crossed, faults>>

-----------------------------------------------------------------------------
(* The settlement confirms the payment of an order and queues the event;   *)
(* an enqueue that fails is logged and forgotten.                          *)
PaymentConfirmed(o) ==
  /\ orders[o] > 0 /\ ~paid[o] /\ o \in Payable
  /\ paid' = [paid EXCEPT ![o] = TRUE]
  /\ \/ event' = [event EXCEPT ![o].at = "ready"] /\ UNCHANGED faults
     \/ faults < MaxFaults /\ faults' = faults + 1 /\ UNCHANGED event
  /\ UNCHANGED <<status, age, hook, queueVars, turnVars, crossed>>

EventLoads(o) ==
  LET company == {handler[g].msg : g \in Live}
  IN /\ event[o].at = "ready" /\ EventsLive = {}
     /\ event' = [event EXCEPT ![o].at = "save", ![o].s = PaidSession(session)]
     /\ crossed' = IF company = {} THEN crossed ELSE crossed \cup company \cup {o}
     /\ UNCHANGED <<status, age, hook, queueVars, turnVars, paid, faults>>

EventSaves(o) ==
  /\ event[o].at = "save"
  /\ session' = event[o].s
  /\ event' = [event EXCEPT ![o].at = "reply", ![o].s = Fresh]
  /\ UNCHANGED <<status, age, hook, queueVars, orders, recent, outbox, applied, unchecked, paid, crossed, faults>>

EventReplies(o) ==
  /\ event[o].at = "reply"
  /\ Record(NoMsg, 1)
  /\ event' = [event EXCEPT ![o].at = "send", ![o].row = Len(outbox[NoMsg]) + 1]
  /\ UNCHANGED <<status, age, hook, queueVars, session, orders, recent, applied, unchecked, paid, crossed, faults>>

EventSends(o) ==
  /\ event[o].at = "send"
  /\ Arm(NoMsg, <<event[o].row>>)
  /\ event' = [event EXCEPT ![o].at = "done"]
  /\ UNCHANGED <<status, age, hook, queueVars, session, orders, recent, applied, unchecked, paid, crossed, faults>>

EventFails(o) ==
  /\ o \in EventsLive
  /\ faults < MaxFaults /\ faults' = faults + 1
  /\ event' = [event EXCEPT ![o] = [NoEvent EXCEPT !.at = "ready"]]
  /\ UNCHANGED <<status, age, hook, queueVars, turnVars, paid, crossed>>

-----------------------------------------------------------------------------
Webhook(m)    == RecordInbound(m) \/ HookQueues(m) \/ HookSkips(m) \/ HookDies(m)
HandlerStep(h) == \/ Find(h) \/ Guard(h) \/ Rearm(h) \/ Load(h) \/ Place(h) \/ Insert(h)
                  \/ Refuse(h) \/ Save(h) \/ Reply(h) \/ Send(h) \/ Close(h)
EventStepOf(o) == EventLoads(o) \/ EventSaves(o) \/ EventReplies(o) \/ EventSends(o)

Next ==
  \/ \E m \in Msg : Webhook(m) \/ Janitor(m) \/ Ages(m)
  \/ \E h \in Slot : Fetch(h) \/ HandlerStep(h) \/ Fail(h) \/ Expire(h)
  \/ \E i \in DOMAIN jobs : DelayOver(i)
  \/ \E o \in Msg : WindowPasses(o) \/ PaymentConfirmed(o) \/ EventStepOf(o) \/ EventFails(o)

(* Time passes, the cron runs, a worker that is up polls, and a handler    *)
(* that does not fail goes on.  Nothing is assumed of the customer, of the *)
(* payment, of the faults, or of the second half of the webhook.           *)
Fairness ==
  /\ \A m \in Msg : WF_vars(Janitor(m)) /\ WF_vars(Ages(m))
  /\ \A h \in Slot : WF_vars(Fetch(h)) /\ WF_vars(HandlerStep(h))
  /\ WF_vars(\E i \in DOMAIN jobs : DelayOver(i))

Spec == Init /\ [][Next]_vars /\ Fairness
-----------------------------------------------------------------------------
(* Types of the pipeline's rows, jobs, handlers and histories.             *)
TypeOK ==
  /\ status \in [Msg -> {"absent", "received", "processed", "skipped"}]
  /\ age \in [Msg -> {Young, Stuck, Stale}]
  /\ hook \in [Msg -> {"none", "queue", "skip"}]
  /\ jobs \in Seq(Job)
  /\ handler \in [Slot -> Handler]
  /\ session \in Session
  /\ orders \in [Msg -> Nat] /\ recent \in [Msg -> BOOLEAN] /\ paid \in [Msg -> BOOLEAN]
  /\ outbox \in [Msg \cup {NoMsg} -> Seq(Row)]
  /\ event \in [Msg -> Event]
  /\ applied \in [Msg -> Nat] /\ crossed \subseteq Msg /\ unchecked \subseteq Msg
  /\ faults \in 0..MaxFaults

(* However often a message is run, by however many handlers at once, one   *)
(* order is placed under its wamid (placeOrder's key).                     *)
OneOrderPerMessage == \A m \in Msg : orders[m] <= 1

(* A message is closed as processed only when the session has taken it and *)
(* a reply to it is on record: the guard's short cut skips neither.        *)
ProcessedTookEffect ==
  \A m \in Msg : status[m] = "processed" => applied[m] > 0 /\ outbox[m] # <<>>

(* Nothing is ordered twice by one message and nothing is closed that did  *)
(* not happen.                                                             *)
TurnsTakeEffect == OneOrderPerMessage /\ ProcessedTookEffect

(* A processed message leaves no reply of its own outside every WA_SEND    *)
(* job, whichever run wrote it, unless two handlers crossed on it.         *)
RowsArmed ==
  \A m \in Msg \ crossed : status[m] = "processed" => \A i \in DOMAIN outbox[m] : outbox[m][i].armed

(* No message is answered twice by runs of its turn that follow each other *)
(* (the turn-retry guard).                                                 *)
AnsweredOnce ==
  \A m \in Msg \ crossed : \A i, k \in DOMAIN outbox[m] :
    outbox[m][i].part = outbox[m][k].part => i = k

(* A customer whose payment event has run is not left being asked for the  *)
(* payment of that order: a turn that comes after the event sees the order  *)
(* paid.                                                                   *)
PaidNotAwaited ==
  \A o \in Msg \ crossed :
    event[o].at = "done" => ~(session.state = "EXPECTED_PAYMENT" /\ session.lastOrder = o)

(* The customer hears each reply, hears it once, and is not asked for what *)
(* is paid.                                                                *)
RepliesSound == RowsArmed /\ AnsweredOnce /\ PaidNotAwaited

(* A turn is applied again only if its earlier run has not put one reply   *)
(* on record: that is all a half-finished turn can repeat.                 *)
ReappliedOnlyUnanswered ==
  [][\A m \in Msg \ crossed : applied[m] > 0 /\ applied'[m] > applied[m] => outbox[m] = <<>>]_vars

(* A second order is placed from the cart only when the conversation never *)
(* learnt of the first and the first is past the duplicate window, or when *)
(* the duplicate check itself failed.                                      *)
SecondOrderOnlyUnknown ==
  [][\A m \in Msg \ (crossed \cup unchecked) : orders'[m] > orders[m] =>
       \A o \in Msg \ {m} : orders[o] > 0 => ~recent[o] /\ session.lastOrder # o]_vars

(* What a repeated or a second turn may do again, no more.                 *)
NothingTwice == ReappliedOnlyUnanswered /\ SecondOrderOnlyUnknown

(* Every message that is recorded is processed or skipped, whatever fails  *)
(* on the way: the janitor finds what the webhook or a dead job left.      *)
EverythingSettles ==
  \A m \in Msg : status[m] = "received" ~> status[m] \in {"processed", "skipped"}

(* The pipeline keeps what it promises of each message (WaInbox).          *)
Inbox == INSTANCE WaInbox WITH
  open     <- {m \in Msg : status[m] = "received"},
  closed   <- {m \in Msg : status[m] \in {"processed", "skipped"}},
  ordered  <- {m \in Msg : orders[m] > 0},
  answered <- {m \in Msg : outbox[m] # <<>>}
KeepsPromise == Inbox!Spec

(* The messages reach the session in the order in which they were queued   *)
(* (config/queue.js:21).                                                   *)
MessagesApplyInOrder ==
  [][\A h \in Slot : applied' # applied /\ At(h, "save") /\ handler'[h].at # "save" =>
       \A i \in HeldBy(h), k \in DOMAIN jobs :
         k < i /\ status[jobs[k].msg] = "received" => jobs[k].msg = handler[h].msg]_vars
================================================================================
