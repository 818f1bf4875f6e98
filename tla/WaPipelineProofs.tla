--------------------------- MODULE WaPipelineProofs ---------------------------
(* Theorems about WaPipeline, for any number of messages, handlers and     *)
(* workers, whatever the bounds on faults and jobs.                        *)
EXTENDS WaPipeline, SumLemmas, SequenceTheorems, TLAPS

-----------------------------------------------------------------------------
(* The conversation and the order of a turn's bookkeeping.                 *)

LEMMA BookkeepingSteps ==
  /\ Head(Bookkeeping) = "save"
  /\ Then("save") = "reply" /\ Then("reply") = "send" /\ Then("send") = "close"
<1>1. DOMAIN Bookkeeping = 1..4
  BY DEF Bookkeeping
<1>2. \A k \in 1..4 : /\ Bookkeeping[k] = "save" <=> k = 1
                      /\ Bookkeeping[k] = "reply" <=> k = 2
                      /\ Bookkeeping[k] = "send" <=> k = 3
  BY DEF Bookkeeping
<1>3. /\ (CHOOSE k \in DOMAIN Bookkeeping : Bookkeeping[k] = "save") = 1
      /\ (CHOOSE k \in DOMAIN Bookkeeping : Bookkeeping[k] = "reply") = 2
      /\ (CHOOSE k \in DOMAIN Bookkeeping : Bookkeeping[k] = "send") = 3
  BY <1>1, <1>2
<1> QED
  BY <1>3 DEF Then, Bookkeeping

LEMMA SessionType ==
  ASSUME NEW s \in Session
  PROVE  /\ \A m \in Msg : \A t \in Reduce(s, m) : t.s \in Session /\ t.due \in 0..Several
         /\ \A o \in Msg : Created(s, o) \in Session
         /\ \A r \in Failed(s) : r \in Session
         /\ PaidSession(s) \in Session
<1>1. s.state \in State /\ s.lastOrder \in Msg \cup {NoOrder}
  BY DEF Session
<1>2. \A st \in State : [s EXCEPT !.state = st] \in Session
  BY DEF Session
<1>3. ASSUME NEW m \in Msg, NEW t \in Reduce(s, m)
      PROVE  t.s \in Session /\ t.due \in 0..Several
  <2>1. \/ t = Turn(s, "CONFIRM", 1, TRUE)
        \/ t = Turn(s, "DEPOT", Several, FALSE)
        \/ \E state \in State : t = Turn(s, state, 1, FALSE)
    BY <1>1 DEF Reduce, Moves, State
  <2>2. "CONFIRM" \in State /\ "DEPOT" \in State /\ 1 \in 0..Several /\ Several \in 0..Several
    BY DEF State, Several
  <2> QED
    BY <2>1, <2>2, <1>1, <1>2 DEF Turn
<1>4. ASSUME NEW o \in Msg PROVE Created(s, o) \in Session
  <2>1. \A st \in State : [s EXCEPT !.state = st, !.lastOrder = o] \in Session
    BY DEF Session
  <2> QED
    BY <2>1 DEF Created, State
<1> QED
  BY <1>2, <1>3, <1>4 DEF Failed, PaidSession, State

LEMMA FreshType == Fresh \in Session /\ Idle \in Handler /\ NoEvent \in Event
<1>1. <<>> \in Seq(Nat)
  OBVIOUS
<1> QED
  BY <1>1 DEF Fresh, Session, State, NoOrder, Idle, Handler, Step, NoMsg, Several, NoEvent, Event, EventStep

-----------------------------------------------------------------------------
(* The queue.                                                              *)

LEMMA EarliestExists ==
  ASSUME NEW n \in Nat, NEW T \in SUBSET (1..n), T # {}
  PROVE  Min(T) \in T
<1> DEFINE f == [i \in T |-> 0 - i]
           N == {f[i] : i \in T}
<1>1. IsFiniteSet(T)
  <2>1. IsFiniteSet(1..n)
    BY FS_Interval
  <2> QED
    BY <2>1, FS_Subset
<1>2. N # {} /\ \A x \in N : x \in Int
  <2>1. \A i \in T : f[i] \in Int
    OBVIOUS
  <2>2. PICK i \in T : TRUE
    OBVIOUS
  <2>3. f[i] \in N
    OBVIOUS
  <2> HIDE DEF f
  <2> QED
    BY <2>1, <2>3
<1>6. IsFiniteSet(N)
  <2> HIDE DEF f
  <2> QED
    BY <1>1, FiniteImage
<1>3. PICK x \in N : \A y \in N : y <= x
  <2> HIDE DEF N
  <2> QED
    BY <1>2, <1>6, LargestExists
<1>4. PICK i \in T : x = 0 - i
  BY <1>3
<1>5. \A j \in T : i <= j
  BY <1>3, <1>4
<1> QED
  BY <1>5 DEF Min

LEMMA HeldJob ==
  ASSUME jobs \in Seq(Job), NEW h \in Slot, HeldBy(h) # {}
  PROVE  JobOf(h) \in 1..Len(jobs) /\ jobs[JobOf(h)] \in Job
<1>1. JobOf(h) \in HeldBy(h)
  BY DEF JobOf
<1> QED
  BY <1>1, ElementOfSeq, LenProperties DEF HeldBy

LEMMA ShorterQueue ==
  ASSUME jobs \in Seq(Job), NEW i \in 1..Len(jobs)
  PROVE  RemoveAt(jobs, i) \in Seq(Job)
<1>1. SubSeq(jobs, 1, i - 1) \in Seq(Job)
  BY SubSeqProperties, ElementOfSeq, LenProperties
<1>2. SubSeq(jobs, i + 1, Len(jobs)) \in Seq(Job)
  BY SubSeqProperties, ElementOfSeq, LenProperties
<1> QED
  BY <1>1, <1>2, ConcatProperties DEF RemoveAt

LEMMA ChangedQueue ==
  ASSUME jobs \in Seq(Job), NEW i \in 1..Len(jobs), NEW j \in Job
  PROVE  [jobs EXCEPT ![i] = j] \in Seq(Job)
BY ExceptSeq

LEMMA QueueType ==
  ASSUME PipelineAssumption, jobs \in Seq(Job)
  PROVE  /\ \A m \in Msg : Enqueue(m) => jobs' \in Seq(Job)
         /\ \A h \in Slot : DropJob(h) => jobs' \in Seq(Job)
         /\ \A h \in Slot : ReturnJob(h) => jobs' \in Seq(Job)
<1>1. ASSUME NEW m \in Msg, Enqueue(m) PROVE jobs' \in Seq(Job)
  <2>1. [msg |-> m, tries |-> 0, state |-> "ready", by |-> NoSlot] \in Job
    BY PipelineAssumption DEF Job, JobState
  <2> QED
    BY <1>1, <2>1, AppendProperties DEF Enqueue
<1>2. ASSUME NEW h \in Slot, DropJob(h) PROVE jobs' \in Seq(Job)
  BY <1>2, HeldJob, ShorterQueue DEF DropJob
<1>3. ASSUME NEW h \in Slot, ReturnJob(h) PROVE jobs' \in Seq(Job)
  <2>1. CASE HeldBy(h) = {}
    BY <1>3, <2>1 DEF ReturnJob
  <2>2. CASE HeldBy(h) # {} /\ jobs[JobOf(h)].tries = RetryLimit
    BY <1>3, <2>2, HeldJob, ShorterQueue DEF ReturnJob
  <2>3. CASE HeldBy(h) # {} /\ jobs[JobOf(h)].tries # RetryLimit
    <3>1. JobOf(h) \in 1..Len(jobs) /\ jobs[JobOf(h)] \in Job
      BY <2>3, HeldJob
    <3>2. jobs[JobOf(h)].tries + 1 \in 0..RetryLimit
      BY <3>1, <2>3, PipelineAssumption DEF Job
    <3>3. Later(jobs[JobOf(h)]) \in Job
      BY <3>1, <3>2 DEF Job, JobState, Later
    <3> QED
      BY <1>3, <2>3, <3>1, <3>3, ChangedQueue DEF ReturnJob, Return
  <2> QED
    BY <2>1, <2>2, <2>3
<1> QED
  BY <1>1, <1>2, <1>3
-----------------------------------------------------------------------------
(* Types.  A handler that is doing something has a message: the message of *)
(* the job it fetched.                                                     *)

LiveHasMsg == \A h \in Slot : handler[h].at # "idle" => handler[h].msg \in Msg
TypeInv    == TypeOK /\ LiveHasMsg

LEMMA InitType == PipelineAssumption /\ Init => TypeInv
<1> SUFFICES ASSUME PipelineAssumption, Init PROVE TypeInv
  OBVIOUS
<1>1. Fresh \in Session /\ Idle \in Handler /\ NoEvent \in Event
  BY FreshType
<1>2. jobs \in Seq(Job) /\ outbox \in [Msg \cup {NoMsg} -> Seq(Row)]
  BY DEF Init
<1>3. LiveHasMsg
  BY DEF Init, LiveHasMsg, Idle
<1> QED
  BY <1>1, <1>2, <1>3, PipelineAssumption DEF Init, TypeInv, TypeOK, Young, Stuck, Stale

LEMMA RecordType ==
  ASSUME TypeOK, NEW m \in Msg \cup {NoMsg}, NEW n \in Nat \ {0}, Record(m, n)
  PROVE  outbox' \in [Msg \cup {NoMsg} -> Seq(Row)]
<1>1. [part |-> n, armed |-> FALSE] \in Row
  BY DEF Row
<1>2. Append(outbox[m], [part |-> n, armed |-> FALSE]) \in Seq(Row)
  BY <1>1, AppendProperties DEF TypeOK
<1> QED
  BY <1>2 DEF Record, TypeOK

LEMMA ArmType ==
  ASSUME TypeOK, NEW m \in Msg \cup {NoMsg}, NEW rows, Arm(m, rows)
  PROVE  outbox' \in [Msg \cup {NoMsg} -> Seq(Row)]
<1> DEFINE after == [i \in DOMAIN outbox[m] |->
              IF i \in Range(rows) THEN [outbox[m][i] EXCEPT !.armed = TRUE] ELSE outbox[m][i]]
<1>1. outbox[m] \in Seq(Row)
  BY DEF TypeOK
<1>2. DOMAIN outbox[m] = 1..Len(outbox[m]) /\ Len(outbox[m]) \in Nat
      /\ \A i \in DOMAIN outbox[m] : outbox[m][i] \in Row
  BY <1>1, LenProperties, ElementOfSeq
<1>3. \A r \in Row : [r EXCEPT !.armed = TRUE] \in Row
  BY DEF Row
<1>4. after \in [1..Len(outbox[m]) -> Row]
  BY <1>2, <1>3
<1>5. after \in Seq(Row)
  <2> HIDE DEF after
  <2> QED
    BY <1>2, <1>4, IsASeq
<1>6. outbox' = [outbox EXCEPT ![m] = after]
  BY DEF Arm
<1> QED
  <2> HIDE DEF after
  <2> QED
    BY <1>5, <1>6 DEF TypeOK

LEMMA HandlerEdits ==
  ASSUME TypeOK, LiveHasMsg, NEW h \in Slot, handler[h].msg \in Msg,
         NEW at \in Step, NEW due \in 0..Several, NEW s \in Session, NEW rows \in Seq(Nat),
         \/ handler' = [handler EXCEPT ![h].at = at]
         \/ handler' = [handler EXCEPT ![h].at = at, ![h].s = s]
         \/ handler' = [handler EXCEPT ![h].at = at, ![h].rows = rows]
         \/ handler' = [handler EXCEPT ![h].at = at, ![h].s = s, ![h].due = due]
         \/ handler' = [handler EXCEPT ![h].at = at, ![h].due = due, ![h].s = s]
         \/ handler' = [handler EXCEPT ![h].rows = rows, ![h].at = at, ![h].due = due]
  PROVE  handler' \in [Slot -> Handler] /\ LiveHasMsg'
<1>1. handler[h] \in Handler
  BY DEF TypeOK
<1>2. ASSUME NEW r \in Handler, r.msg \in Msg, handler' = [handler EXCEPT ![h] = r]
      PROVE  handler' \in [Slot -> Handler] /\ LiveHasMsg'
  BY <1>2 DEF TypeOK, LiveHasMsg
<1>3. CASE handler' = [handler EXCEPT ![h].at = at]
  <2>1. [handler[h] EXCEPT !.at = at] \in Handler
    BY <1>1 DEF Handler
  <2>2. [handler[h] EXCEPT !.at = at].msg \in Msg
    BY <1>1 DEF Handler
  <2>3. handler' = [handler EXCEPT ![h] = [handler[h] EXCEPT !.at = at]]
    BY <1>3 DEF TypeOK
  <2> QED
    BY <1>2, <2>1, <2>2, <2>3
<1>4. CASE handler' = [handler EXCEPT ![h].at = at, ![h].s = s]
  <2>1. [handler[h] EXCEPT !.at = at, !.s = s] \in Handler
    BY <1>1 DEF Handler
  <2>2. [handler[h] EXCEPT !.at = at, !.s = s].msg \in Msg
    BY <1>1 DEF Handler
  <2>3. handler' = [handler EXCEPT ![h] = [handler[h] EXCEPT !.at = at, !.s = s]]
    BY <1>4 DEF TypeOK
  <2> QED
    BY <1>2, <2>1, <2>2, <2>3
<1>5. CASE handler' = [handler EXCEPT ![h].at = at, ![h].rows = rows]
  <2>1. [handler[h] EXCEPT !.at = at, !.rows = rows] \in Handler
    BY <1>1 DEF Handler
  <2>2. [handler[h] EXCEPT !.at = at, !.rows = rows].msg \in Msg
    BY <1>1 DEF Handler
  <2>3. handler' = [handler EXCEPT ![h] = [handler[h] EXCEPT !.at = at, !.rows = rows]]
    BY <1>5 DEF TypeOK
  <2> QED
    BY <1>2, <2>1, <2>2, <2>3
<1>6. CASE handler' = [handler EXCEPT ![h].at = at, ![h].s = s, ![h].due = due]
  <2>1. [handler[h] EXCEPT !.at = at, !.s = s, !.due = due] \in Handler
    BY <1>1 DEF Handler
  <2>2. [handler[h] EXCEPT !.at = at, !.s = s, !.due = due].msg \in Msg
    BY <1>1 DEF Handler
  <2>3. handler' = [handler EXCEPT ![h] = [handler[h] EXCEPT !.at = at, !.s = s, !.due = due]]
    BY <1>6 DEF TypeOK
  <2> QED
    BY <1>2, <2>1, <2>2, <2>3
<1>7. CASE handler' = [handler EXCEPT ![h].at = at, ![h].due = due, ![h].s = s]
  <2>1. [handler[h] EXCEPT !.at = at, !.due = due, !.s = s] \in Handler
    BY <1>1 DEF Handler
  <2>2. [handler[h] EXCEPT !.at = at, !.due = due, !.s = s].msg \in Msg
    BY <1>1 DEF Handler
  <2>3. handler' = [handler EXCEPT ![h] = [handler[h] EXCEPT !.at = at, !.due = due, !.s = s]]
    BY <1>7 DEF TypeOK
  <2> QED
    BY <1>2, <2>1, <2>2, <2>3
<1>8. CASE handler' = [handler EXCEPT ![h].rows = rows, ![h].at = at, ![h].due = due]
  <2>1. [handler[h] EXCEPT !.rows = rows, !.at = at, !.due = due] \in Handler
    BY <1>1 DEF Handler
  <2>2. [handler[h] EXCEPT !.rows = rows, !.at = at, !.due = due].msg \in Msg
    BY <1>1 DEF Handler
  <2>3. handler' = [handler EXCEPT ![h] = [handler[h] EXCEPT !.rows = rows, !.at = at, !.due = due]]
    BY <1>8 DEF TypeOK
  <2> QED
    BY <1>2, <2>1, <2>2, <2>3
<1> QED
  BY <1>3, <1>4, <1>5, <1>6, <1>7, <1>8

LEMMA EventEdits ==
  ASSUME TypeOK, NEW o \in Msg, NEW at \in EventStep, NEW s \in Session, NEW row \in Nat,
         \/ event' = [event EXCEPT ![o].at = at]
         \/ event' = [event EXCEPT ![o].at = at, ![o].s = s]
         \/ event' = [event EXCEPT ![o].at = at, ![o].row = row]
  PROVE  event' \in [Msg -> Event]
<1>1. event[o] \in Event
  BY DEF TypeOK
<1>2. ASSUME NEW r \in Event, event' = [event EXCEPT ![o] = r]
      PROVE  event' \in [Msg -> Event]
  BY <1>2 DEF TypeOK
<1>3. /\ [event[o] EXCEPT !.at = at] \in Event
      /\ [event[o] EXCEPT !.at = at, !.s = s] \in Event
      /\ [event[o] EXCEPT !.at = at, !.row = row] \in Event
  BY <1>1 DEF Event
<1>4. \/ event' = [event EXCEPT ![o] = [event[o] EXCEPT !.at = at]]
      \/ event' = [event EXCEPT ![o] = [event[o] EXCEPT !.at = at, !.s = s]]
      \/ event' = [event EXCEPT ![o] = [event[o] EXCEPT !.at = at, !.row = row]]
  BY DEF TypeOK
<1> QED
  BY <1>2, <1>3, <1>4

LEMMA StepType == PipelineAssumption /\ TypeInv /\ [Next]_vars => TypeInv'
<1> SUFFICES ASSUME PipelineAssumption, TypeOK, LiveHasMsg, [Next]_vars PROVE TypeOK' /\ LiveHasMsg'
  BY DEF TypeInv
<1>1. ASSUME NEW m \in Msg, RecordInbound(m) PROVE TypeOK' /\ LiveHasMsg'
  <2>1. status' \in [Msg -> {"absent", "received", "processed", "skipped"}]
    BY <1>1 DEF RecordInbound, TypeOK
  <2>2. hook' \in [Msg -> {"none", "queue", "skip"}]
    BY <1>1 DEF RecordInbound, TypeOK
  <2>3. UNCHANGED <<age, jobs, handler, session, orders, recent, paid, outbox, event, applied, crossed, unchecked, faults>>
    BY <1>1 DEF RecordInbound, queueVars, turnVars, payVars
  <2> QED
    BY <2>1, <2>2, <2>3 DEF TypeOK, LiveHasMsg
<1>2. ASSUME NEW m \in Msg, HookQueues(m) PROVE TypeOK' /\ LiveHasMsg'
  <2>1. hook' \in [Msg -> {"none", "queue", "skip"}]
    BY <1>2 DEF HookQueues, TypeOK
  <2>2. jobs' \in Seq(Job)
    BY <1>2, QueueType DEF HookQueues, TypeOK
  <2>3. UNCHANGED <<status, age, handler, session, orders, recent, paid, outbox, event, applied, crossed, unchecked, faults>>
    BY <1>2 DEF HookQueues, queueVars, turnVars, payVars
  <2> QED
    BY <2>1, <2>2, <2>3 DEF TypeOK, LiveHasMsg
<1>3. ASSUME NEW m \in Msg, HookSkips(m) PROVE TypeOK' /\ LiveHasMsg'
  <2>1. status' \in [Msg -> {"absent", "received", "processed", "skipped"}]
    BY <1>3 DEF HookSkips, CloseAs, TypeOK
  <2>2. age' \in [Msg -> {Young, Stuck, Stale}]
    BY <1>3 DEF HookSkips, CloseAs, TypeOK
  <2>3. hook' \in [Msg -> {"none", "queue", "skip"}]
    BY <1>3 DEF HookSkips, TypeOK
  <2>4. UNCHANGED <<jobs, handler, session, orders, recent, paid, outbox, event, applied, crossed, unchecked, faults>>
    BY <1>3 DEF HookSkips, queueVars, turnVars, payVars
  <2> QED
    BY <2>1, <2>2, <2>3, <2>4 DEF TypeOK, LiveHasMsg
<1>4. ASSUME NEW m \in Msg, HookDies(m) PROVE TypeOK' /\ LiveHasMsg'
  <2>1. hook' \in [Msg -> {"none", "queue", "skip"}]
    BY <1>4 DEF HookDies, TypeOK
  <2>2. faults' \in 0..MaxFaults
    BY <1>4, PipelineAssumption DEF HookDies, TypeOK
  <2>3. UNCHANGED <<status, age, jobs, handler, session, orders, recent, paid, outbox, event, applied, crossed, unchecked>>
    BY <1>4 DEF HookDies, queueVars, turnVars, payVars
  <2> QED
    BY <2>1, <2>2, <2>3 DEF TypeOK, LiveHasMsg
<1>5. ASSUME NEW m \in Msg, Janitor(m) PROVE TypeOK' /\ LiveHasMsg'
  <2>1. jobs' \in Seq(Job)
    BY <1>5, QueueType DEF Janitor, TypeOK
  <2>2. UNCHANGED <<status, age, hook, handler, session, orders, recent, paid, outbox, event, applied, crossed, unchecked, faults>>
    BY <1>5 DEF Janitor, queueVars, turnVars, payVars
  <2> QED
    BY <2>1, <2>2 DEF TypeOK, LiveHasMsg
<1>6. ASSUME NEW m \in Msg, Ages(m) PROVE TypeOK' /\ LiveHasMsg'
  <2>1. age' \in [Msg -> {Young, Stuck, Stale}]
    <3>1. age[m] \in {Young, Stuck, Stale} /\ age[m] < 2
      BY <1>6, PipelineAssumption DEF TypeOK, Ages, Young, Stuck, Stale
    <3>2. age[m] + 1 \in {Young, Stuck, Stale}
      BY <3>1 DEF Young, Stuck, Stale
    <3> QED
      BY <1>6, <3>2 DEF Ages, TypeOK
  <2>2. UNCHANGED <<status, hook, jobs, handler, session, orders, recent, paid, outbox, event, applied, crossed, unchecked, faults>>
    BY <1>6 DEF Ages, queueVars, turnVars, payVars
  <2> QED
    BY <2>1, <2>2 DEF TypeOK, LiveHasMsg
<1>7. ASSUME NEW h \in Slot, Fetch(h) PROVE TypeOK' /\ LiveHasMsg'
  <2>9. Oldest \in 1..Len(jobs) /\ jobs[Oldest] \in Job
    <3>1. Ready \in SUBSET (1..Len(jobs)) /\ Ready # {} /\ Len(jobs) \in Nat
      BY <1>7, LenProperties DEF Fetch, Ready, TypeOK
    <3>2. Oldest \in Ready
      BY <3>1, EarliestExists DEF Oldest
    <3> QED
      BY <3>1, <3>2, ElementOfSeq DEF TypeOK
  <2>1. jobs' \in Seq(Job)
    <3>1. [jobs[Oldest] EXCEPT !.state = "active", !.by = h] \in Job
      BY <2>9 DEF Job, JobState
    <3>2. jobs' = [jobs EXCEPT ![Oldest] = [jobs[Oldest] EXCEPT !.state = "active", !.by = h]]
      BY <1>7, <2>9 DEF Fetch, TypeOK
    <3> QED
      BY <2>9, <3>1, <3>2, ChangedQueue DEF TypeOK
  <2>2. handler' \in [Slot -> Handler] /\ LiveHasMsg'
    <3>1. jobs[Oldest].msg \in Msg
      BY <2>9 DEF Job
    <3> QED
      BY <1>7, <3>1, FreshType DEF Fetch, TypeOK, LiveHasMsg, Idle, Handler, Step
  <2>3. crossed' \subseteq Msg
    <3>1. jobs[Oldest].msg \in Msg
      BY <2>9 DEF Job
    <3> QED
      BY SMTT(30), <1>7, <3>1 DEF Fetch, TypeOK, LiveHasMsg, Live, At, EventsLive
  <2>4. UNCHANGED <<status, age, hook, session, orders, recent, paid, outbox, event, applied, unchecked, faults>>
    BY <1>7 DEF Fetch, queueVars, turnVars, payVars
  <2> QED
    BY <2>1, <2>2, <2>3, <2>4 DEF TypeOK
<1>8. ASSUME NEW h \in Slot, Find(h) PROVE TypeOK' /\ LiveHasMsg'
  <2>1. status' \in [Msg -> {"absent", "received", "processed", "skipped"}]
    BY <1>8 DEF Find, CloseAs, TypeOK
  <2>2. age' \in [Msg -> {Young, Stuck, Stale}]
    BY <1>8 DEF Find, CloseAs, TypeOK
  <2>3. jobs' \in Seq(Job)
    BY <1>8, QueueType DEF Find, Finish, TypeOK
  <2>4. handler' \in [Slot -> Handler] /\ LiveHasMsg'
    <3>1. CASE Finish(h)
      BY <3>1, FreshType DEF Finish, TypeOK, LiveHasMsg, Idle
    <3>2. CASE Goes(h, "guard")
      <4>1. handler[h].msg \in Msg /\ "guard" \in Step
        BY <1>8 DEF Find, At, LiveHasMsg, Step
      <4>2. <<>> \in Seq(Nat) /\ 0 \in 0..Several
        BY DEF Several
      <4> QED
        BY <3>2, <4>1, <4>2, HandlerEdits, FreshType DEF Goes
    <3> QED
      BY <1>8, <3>1, <3>2 DEF Find
  <2>5. UNCHANGED <<hook, session, orders, recent, paid, outbox, event, applied, crossed, unchecked, faults>>
    BY <1>8 DEF Find, queueVars, turnVars, payVars
  <2> QED
    BY <2>1, <2>2, <2>3, <2>4, <2>5 DEF TypeOK
<1>9. ASSUME NEW h \in Slot, Guard(h) PROVE TypeOK' /\ LiveHasMsg'
  <2>1. handler' \in [Slot -> Handler] /\ LiveHasMsg'
    <3>1. handler[h] \in Handler /\ handler[h].msg \in Msg
      BY <1>9 DEF Guard, At, TypeOK, LiveHasMsg
    <3>2. outbox[handler[h].msg] \in Seq(Row)
      BY <3>1 DEF TypeOK
    <3>3. [i \in DOMAIN outbox[handler[h].msg] |-> i] \in Seq(Nat)
      BY <3>2, LenProperties, IsASeq
    <3> DEFINE prior == [i \in DOMAIN outbox[handler[h].msg] |-> i]
    <3>4. handler' = [handler EXCEPT ![h].at = IF prior = <<>> THEN "load" ELSE "rearm", ![h].rows = prior]
      BY <1>9 DEF Guard
    <3> HIDE DEF prior
    <3> QED
      BY <3>1, <3>3, <3>4 DEF TypeOK, LiveHasMsg, Handler, Step, prior
  <2>2. UNCHANGED <<status, age, hook, jobs, session, orders, recent, paid, outbox, event, applied, crossed, unchecked, faults>>
    BY <1>9 DEF Guard, queueVars, turnVars, payVars
  <2> QED
    BY <2>1, <2>2 DEF TypeOK
<1>10. ASSUME NEW h \in Slot, Rearm(h) PROVE TypeOK' /\ LiveHasMsg'
  <2>1. handler' \in [Slot -> Handler] /\ LiveHasMsg'
    <3>1. handler[h].msg \in Msg
      BY <1>10 DEF Rearm, At, LiveHasMsg
    <3>2. <<>> \in Seq(Nat) /\ "close" \in Step
      BY DEF Step
    <3>3. handler' = [handler EXCEPT ![h].at = "close", ![h].rows = <<>>]
      BY <1>10, BookkeepingSteps DEF Rearm, ForgetRows
    <3>4. 0 \in 0..Several
      BY DEF Several
    <3> QED
      BY <3>1, <3>2, <3>3, <3>4, HandlerEdits, FreshType
  <2>2. outbox' \in [Msg \cup {NoMsg} -> Seq(Row)]
    <3>1. handler[h].msg \in Msg
      BY <1>10 DEF Rearm, At, LiveHasMsg
    <3> QED
      BY <1>10, <3>1, ArmType DEF Rearm
  <2>3. UNCHANGED <<status, age, hook, jobs, session, orders, recent, paid, event, applied, crossed, unchecked, faults>>
    BY <1>10 DEF Rearm, queueVars, turnVars, payVars
  <2> QED
    BY <2>1, <2>2, <2>3 DEF TypeOK
<1>11. ASSUME NEW h \in Slot, Load(h) PROVE TypeOK' /\ LiveHasMsg'
  <2>1. handler' \in [Slot -> Handler] /\ LiveHasMsg'
    <3>1. PICK t \in Reduce(session, handler[h].msg) :
            handler' = [handler EXCEPT ![h].at = IF t.create THEN "place" ELSE Head(Bookkeeping),
                                       ![h].s = t.s, ![h].due = t.due]
      BY <1>11 DEF Load
    <3>2. handler[h].msg \in Msg
      BY <1>11 DEF Load, At, LiveHasMsg
    <3>3. t.s \in Session /\ t.due \in 0..Several
      BY <3>2, SessionType DEF TypeOK
    <3>4. <<>> \in Seq(Nat) /\ "place" \in Step /\ "save" \in Step
      BY DEF Step
    <3> QED
      BY <3>1, <3>2, <3>3, <3>4, BookkeepingSteps, HandlerEdits
  <2>2. UNCHANGED <<status, age, hook, jobs, session, orders, recent, paid, outbox, event, applied, crossed, unchecked, faults>>
    BY <1>11 DEF Load, queueVars, turnVars, payVars
  <2> QED
    BY <2>1, <2>2 DEF TypeOK
<1>12. ASSUME NEW h \in Slot, Place(h) PROVE TypeOK' /\ LiveHasMsg'
  <2>1. handler' \in [Slot -> Handler] /\ LiveHasMsg'
    <3>1. handler[h].msg \in Msg /\ handler[h].s \in Session
      BY <1>12 DEF Place, At, TypeOK, LiveHasMsg, Handler
    <3>2. \A o \in Msg : Created(handler[h].s, o) \in Session
      BY <3>1, SessionType
    <3>5. /\ <<>> \in Seq(Nat) /\ "save" \in Step /\ "insert" \in Step
          /\ Several \in 0..Several
      BY DEF Step, Several
    <3>3. ASSUME NEW o \in Msg, Answered(h, o)
          PROVE  handler' \in [Slot -> Handler] /\ LiveHasMsg'
      BY <3>1, <3>2, <3>3, <3>5, BookkeepingSteps, HandlerEdits DEF Answered
    <3>4. ASSUME Goes(h, "insert")
          PROVE  handler' \in [Slot -> Handler] /\ LiveHasMsg'
      BY <3>1, <3>4, <3>5, HandlerEdits DEF Goes
    <3> QED
      BY <1>12, <3>1, <3>3, <3>4 DEF Place
  <2>2. unchecked' \subseteq Msg
    BY <1>12 DEF Place, TypeOK, LiveHasMsg, At
  <2>3. faults' \in 0..MaxFaults
    BY <1>12, PipelineAssumption DEF Place, TypeOK
  <2>4. UNCHANGED <<status, age, hook, jobs, session, orders, recent, paid, outbox, event, applied, crossed>>
    BY <1>12 DEF Place, queueVars, turnVars, payVars
  <2> QED
    BY <2>1, <2>2, <2>3, <2>4 DEF TypeOK
<1>13. ASSUME NEW h \in Slot, Insert(h) PROVE TypeOK' /\ LiveHasMsg'
  <2>1. handler' \in [Slot -> Handler] /\ LiveHasMsg'
    <3>1. handler[h].msg \in Msg /\ handler[h].s \in Session
      BY <1>13 DEF Insert, At, TypeOK, LiveHasMsg, Handler
    <3>2. \A o \in Msg : Created(handler[h].s, o) \in Session
      BY <3>1, SessionType
    <3>5. /\ <<>> \in Seq(Nat) /\ "save" \in Step /\ "insert" \in Step
          /\ Several \in 0..Several
      BY DEF Step, Several
    <3>3. ASSUME NEW o \in Msg, Answered(h, o)
          PROVE  handler' \in [Slot -> Handler] /\ LiveHasMsg'
      BY <3>1, <3>2, <3>3, <3>5, BookkeepingSteps, HandlerEdits DEF Answered
    <3>4. ASSUME Goes(h, "insert")
          PROVE  handler' \in [Slot -> Handler] /\ LiveHasMsg'
      BY <3>1, <3>4, <3>5, HandlerEdits DEF Goes
    <3> QED
      BY <1>13, <3>1, <3>3, <3>4 DEF Insert
  <2>2. orders' \in [Msg -> Nat]
    BY <1>13 DEF Insert, TypeOK
  <2>3. recent' \in [Msg -> BOOLEAN]
    BY <1>13 DEF Insert, TypeOK
  <2>4. UNCHANGED <<status, age, hook, jobs, session, paid, outbox, event, applied, crossed, unchecked, faults>>
    BY <1>13 DEF Insert, queueVars, turnVars, payVars
  <2> QED
    BY <2>1, <2>2, <2>3, <2>4 DEF TypeOK
<1>14. ASSUME NEW h \in Slot, Refuse(h) PROVE TypeOK' /\ LiveHasMsg'
  <2>1. handler' \in [Slot -> Handler] /\ LiveHasMsg'
    <3>1. handler[h].msg \in Msg /\ handler[h].s \in Session
      BY <1>14 DEF Refuse, At, TypeOK, LiveHasMsg, Handler
    <3>2. PICK s \in Failed(handler[h].s) :
            handler' = [handler EXCEPT ![h].at = Head(Bookkeeping), ![h].due = Several, ![h].s = s]
      BY <1>14 DEF Refuse
    <3>3. s \in Session
      BY <3>1, <3>2, SessionType
    <3>4. <<>> \in Seq(Nat) /\ "save" \in Step /\ Several \in 0..Several
      BY DEF Step, Several
    <3> QED
      BY <3>1, <3>2, <3>3, <3>4, BookkeepingSteps, HandlerEdits
  <2>2. UNCHANGED <<status, age, hook, jobs, session, orders, recent, paid, outbox, event, applied, crossed, unchecked, faults>>
    BY <1>14 DEF Refuse, queueVars, turnVars, payVars
  <2> QED
    BY <2>1, <2>2 DEF TypeOK
<1>15. ASSUME NEW h \in Slot, Save(h) PROVE TypeOK' /\ LiveHasMsg'
  <2>1. handler' \in [Slot -> Handler] /\ LiveHasMsg'
    BY <1>15, BookkeepingSteps, FreshType DEF Save, At, TypeOK, LiveHasMsg, Handler, Step
  <2>2. session' \in Session
    <3>1. handler[h].msg \in Msg /\ handler[h].s \in Session
      BY <1>15 DEF Save, At, TypeOK, LiveHasMsg, Handler
    <3> QED
      BY <1>15, <3>1 DEF Save, TypeOK
  <2>3. applied' \in [Msg -> Nat]
    <3>1. handler[h].msg \in Msg /\ handler[h].s \in Session
      BY <1>15 DEF Save, At, TypeOK, LiveHasMsg, Handler
    <3> QED
      BY <1>15, <3>1 DEF Save, TypeOK
  <2>4. UNCHANGED <<status, age, hook, jobs, orders, recent, paid, outbox, event, crossed, unchecked, faults>>
    BY <1>15 DEF Save, queueVars, turnVars, payVars
  <2> QED
    BY <2>1, <2>2, <2>3, <2>4 DEF TypeOK
<1>16. ASSUME NEW h \in Slot, Reply(h) PROVE TypeOK' /\ LiveHasMsg'
  <2>1. handler' \in [Slot -> Handler] /\ LiveHasMsg'
    <3>1. handler[h].msg \in Msg /\ handler[h].rows \in Seq(Nat)
      BY <1>16 DEF Reply, At, TypeOK, LiveHasMsg, Handler
    <3>2. Len(outbox[handler[h].msg]) + 1 \in Nat
      BY <3>1, LenProperties DEF TypeOK
    <3>3. Append(handler[h].rows, Len(outbox[handler[h].msg]) + 1) \in Seq(Nat)
      BY <3>1, <3>2, AppendProperties
    <3>5. PICK at \in {"send", "reply"}, due \in {0, handler[h].due} :
            handler' = [handler EXCEPT ![h].rows = Append(handler[h].rows, Len(outbox[handler[h].msg]) + 1),
                                       ![h].at = at, ![h].due = due]
      BY <1>16, BookkeepingSteps DEF Reply
    <3>6. /\ handler[h].due \in 0..Several /\ 0 \in 0..Several
          /\ "send" \in Step /\ "reply" \in Step
      BY DEF TypeOK, Handler, Several, Step
    <3> QED
      BY <3>1, <3>3, <3>5, <3>6, HandlerEdits, FreshType
  <2>2. outbox' \in [Msg \cup {NoMsg} -> Seq(Row)]
    <3>1. handler[h].msg \in Msg /\ Len(handler[h].rows) + 1 \in Nat \ {0}
      BY <1>16, LenProperties DEF Reply, At, TypeOK, LiveHasMsg, Handler
    <3> QED
      BY <1>16, <3>1, RecordType DEF Reply
  <2>3. UNCHANGED <<status, age, hook, jobs, session, orders, recent, paid, event, applied, crossed, unchecked, faults>>
    BY <1>16 DEF Reply, queueVars, turnVars, payVars
  <2> QED
    BY <2>1, <2>2, <2>3 DEF TypeOK
<1>17. ASSUME NEW h \in Slot, Send(h) PROVE TypeOK' /\ LiveHasMsg'
  <2>1. handler' \in [Slot -> Handler] /\ LiveHasMsg'
    <3>1. handler[h].msg \in Msg
      BY <1>17 DEF Send, At, LiveHasMsg
    <3>2. <<>> \in Seq(Nat) /\ "close" \in Step
      BY DEF Step
    <3>3. handler' = [handler EXCEPT ![h].at = "close", ![h].rows = <<>>]
      BY <1>17, BookkeepingSteps DEF Send, ForgetRows
    <3>4. 0 \in 0..Several
      BY DEF Several
    <3> QED
      BY <3>1, <3>2, <3>3, <3>4, HandlerEdits, FreshType
  <2>2. outbox' \in [Msg \cup {NoMsg} -> Seq(Row)]
    <3>1. handler[h].msg \in Msg
      BY <1>17 DEF Send, At, LiveHasMsg
    <3> QED
      BY <1>17, <3>1, ArmType DEF Send
  <2>3. UNCHANGED <<status, age, hook, jobs, session, orders, recent, paid, event, applied, crossed, unchecked, faults>>
    BY <1>17 DEF Send, queueVars, turnVars, payVars
  <2> QED
    BY <2>1, <2>2, <2>3 DEF TypeOK
<1>18. ASSUME NEW h \in Slot, Close(h) PROVE TypeOK' /\ LiveHasMsg'
  <2>1. status' \in [Msg -> {"absent", "received", "processed", "skipped"}]
    BY <1>18 DEF Close, CloseAs, TypeOK
  <2>2. age' \in [Msg -> {Young, Stuck, Stale}]
    BY <1>18 DEF Close, CloseAs, TypeOK
  <2>3. jobs' \in Seq(Job)
    BY <1>18, QueueType DEF Close, Finish, TypeOK
  <2>4. handler' \in [Slot -> Handler] /\ LiveHasMsg'
    BY <1>18, FreshType DEF Close, Finish, Goes, At, TypeOK, LiveHasMsg, Handler, Step, Idle
  <2>5. UNCHANGED <<hook, session, orders, recent, paid, outbox, event, applied, crossed, unchecked, faults>>
    BY <1>18 DEF Close, queueVars, turnVars, payVars
  <2> QED
    BY <2>1, <2>2, <2>3, <2>4, <2>5 DEF TypeOK
<1>19. ASSUME NEW h \in Slot, Fail(h) PROVE TypeOK' /\ LiveHasMsg'
  <2>1. jobs' \in Seq(Job)
    BY <1>19, QueueType DEF Fail, TypeOK
  <2>2. handler' \in [Slot -> Handler] /\ LiveHasMsg'
    BY <1>19, FreshType DEF Fail, TypeOK, LiveHasMsg, Idle
  <2>3. faults' \in 0..MaxFaults
    BY <1>19, PipelineAssumption DEF Fail, TypeOK
  <2>4. UNCHANGED <<status, age, hook, session, orders, recent, paid, outbox, event, applied, crossed, unchecked>>
    BY <1>19 DEF Fail, queueVars, turnVars, payVars
  <2> QED
    BY <2>1, <2>2, <2>3, <2>4 DEF TypeOK
<1>20. ASSUME NEW h \in Slot, Expire(h) PROVE TypeOK' /\ LiveHasMsg'
  <2>1. jobs' \in Seq(Job)
    BY <1>20, QueueType DEF Expire, Holding, Live, TypeOK
  <2>2. faults' \in 0..MaxFaults
    BY <1>20, PipelineAssumption DEF Expire, TypeOK
  <2>3. UNCHANGED <<status, age, hook, handler, session, orders, recent, paid, outbox, event, applied, crossed, unchecked>>
    BY <1>20 DEF Expire, queueVars, turnVars, payVars
  <2> QED
    BY <2>1, <2>2, <2>3 DEF TypeOK, LiveHasMsg
<1>21. ASSUME NEW o \in Msg, WindowPasses(o) PROVE TypeOK' /\ LiveHasMsg'
  <2>1. recent' \in [Msg -> BOOLEAN]
    BY <1>21 DEF WindowPasses, TypeOK
  <2>2. UNCHANGED <<status, age, hook, jobs, handler, session, orders, paid, outbox, event, applied, crossed, unchecked, faults>>
    BY <1>21 DEF WindowPasses, queueVars, turnVars, payVars
  <2> QED
    BY <2>1, <2>2 DEF TypeOK, LiveHasMsg
<1>22. ASSUME NEW o \in Msg, PaymentConfirmed(o) PROVE TypeOK' /\ LiveHasMsg'
  <2>1. paid' \in [Msg -> BOOLEAN]
    BY <1>22 DEF PaymentConfirmed, TypeOK
  <2>2. event' \in [Msg -> Event]
    <3>1. "ready" \in EventStep /\ 0 \in Nat
      BY DEF EventStep
    <3>2. CASE UNCHANGED event
      BY <3>2 DEF TypeOK
    <3>3. CASE event' = [event EXCEPT ![o].at = "ready"]
      BY <3>1, <3>3, EventEdits, FreshType
    <3> QED
      BY <1>22, <3>2, <3>3 DEF PaymentConfirmed
  <2>3. faults' \in 0..MaxFaults
    BY <1>22, PipelineAssumption DEF PaymentConfirmed, TypeOK
  <2>4. UNCHANGED <<status, age, hook, jobs, handler, session, orders, recent, outbox, applied, crossed, unchecked>>
    BY <1>22 DEF PaymentConfirmed, queueVars, turnVars, payVars
  <2> QED
    BY <2>1, <2>2, <2>3, <2>4 DEF TypeOK, LiveHasMsg
<1>23. ASSUME NEW o \in Msg, EventLoads(o) PROVE TypeOK' /\ LiveHasMsg'
  <2>1. event' \in [Msg -> Event]
    <3>1. "save" \in EventStep /\ 0 \in Nat
      BY DEF EventStep
    <3>2. PaidSession(session) \in Session
      BY SessionType DEF TypeOK
    <3> QED
      BY <1>23, <3>1, <3>2, EventEdits DEF EventLoads
  <2>2. crossed' \subseteq Msg
    <3>1. \A g \in Live : handler[g].msg \in Msg
      BY DEF Live, At, LiveHasMsg
    <3>2. {handler[g].msg : g \in Live} \subseteq Msg
      BY <3>1
    <3>3. \/ crossed' = crossed
          \/ crossed' = crossed \cup {handler[g].msg : g \in Live} \cup {o}
      BY <1>23 DEF EventLoads
    <3> QED
      BY <3>2, <3>3 DEF TypeOK
  <2>3. UNCHANGED <<status, age, hook, jobs, handler, session, orders, recent, paid, outbox, applied, unchecked, faults>>
    BY <1>23 DEF EventLoads, queueVars, turnVars, payVars
  <2> QED
    BY <2>1, <2>2, <2>3 DEF TypeOK, LiveHasMsg
<1>24. ASSUME NEW o \in Msg, EventSaves(o) PROVE TypeOK' /\ LiveHasMsg'
  <2>1. session' \in Session
    BY <1>24 DEF EventSaves, TypeOK, Event
  <2>2. event' \in [Msg -> Event]
    BY <1>24, FreshType DEF EventSaves, TypeOK, Event, EventStep
  <2>3. UNCHANGED <<status, age, hook, jobs, handler, orders, recent, paid, outbox, applied, crossed, unchecked, faults>>
    BY <1>24 DEF EventSaves, queueVars, turnVars, payVars
  <2> QED
    BY <2>1, <2>2, <2>3 DEF TypeOK, LiveHasMsg
<1>25. ASSUME NEW o \in Msg, EventReplies(o) PROVE TypeOK' /\ LiveHasMsg'
  <2>1. outbox' \in [Msg \cup {NoMsg} -> Seq(Row)]
    <3>1. NoMsg \in Msg \cup {NoMsg} /\ 1 \in Nat \ {0}
      OBVIOUS
    <3> QED
      BY <1>25, <3>1, RecordType DEF EventReplies
  <2>2. event' \in [Msg -> Event]
    <3>1. NoMsg \in Msg \cup {NoMsg}
      OBVIOUS
    <3>2. outbox[NoMsg] \in Seq(Row)
      BY <3>1 DEF TypeOK
    <3>3. Len(outbox[NoMsg]) + 1 \in Nat
      BY <3>2, LenProperties
    <3>4. "send" \in EventStep
      BY DEF EventStep
    <3> QED
      BY <1>25, <3>3, <3>4, EventEdits, FreshType DEF EventReplies
  <2>3. UNCHANGED <<status, age, hook, jobs, handler, session, orders, recent, paid, applied, crossed, unchecked, faults>>
    BY <1>25 DEF EventReplies, queueVars, turnVars, payVars
  <2> QED
    BY <2>1, <2>2, <2>3 DEF TypeOK, LiveHasMsg
<1>26. ASSUME NEW o \in Msg, EventSends(o) PROVE TypeOK' /\ LiveHasMsg'
  <2>1. outbox' \in [Msg \cup {NoMsg} -> Seq(Row)]
    <3>1. NoMsg \in Msg \cup {NoMsg}
      OBVIOUS
    <3> QED
      BY <1>26, <3>1, ArmType DEF EventSends
  <2>2. event' \in [Msg -> Event]
    BY <1>26 DEF EventSends, TypeOK, Event, EventStep
  <2>3. UNCHANGED <<status, age, hook, jobs, handler, session, orders, recent, paid, applied, crossed, unchecked, faults>>
    BY <1>26 DEF EventSends, queueVars, turnVars, payVars
  <2> QED
    BY <2>1, <2>2, <2>3 DEF TypeOK, LiveHasMsg
<1>27. ASSUME NEW o \in Msg, EventFails(o) PROVE TypeOK' /\ LiveHasMsg'
  <2>1. event' \in [Msg -> Event]
    BY <1>27, FreshType DEF EventFails, TypeOK, NoEvent, Event, EventStep
  <2>2. faults' \in 0..MaxFaults
    BY <1>27, PipelineAssumption DEF EventFails, TypeOK
  <2>3. UNCHANGED <<status, age, hook, jobs, handler, session, orders, recent, paid, outbox, applied, crossed, unchecked>>
    BY <1>27 DEF EventFails, queueVars, turnVars, payVars
  <2> QED
    BY <2>1, <2>2, <2>3 DEF TypeOK, LiveHasMsg
<1>28. ASSUME NEW i \in DOMAIN jobs, DelayOver(i) PROVE TypeOK' /\ LiveHasMsg'
  <2>1. i \in 1..Len(jobs) /\ jobs[i] \in Job
    BY LenProperties, ElementOfSeq DEF TypeOK
  <2>2. [jobs[i] EXCEPT !.state = "ready"] \in Job
    BY <2>1 DEF Job, JobState
  <2>3. jobs' = [jobs EXCEPT ![i] = [jobs[i] EXCEPT !.state = "ready"]]
    BY <1>28, <2>1 DEF DelayOver, TypeOK
  <2>4. jobs' \in Seq(Job)
    BY <2>1, <2>2, <2>3, ChangedQueue DEF TypeOK
  <2>5. UNCHANGED <<status, age, hook, handler, session, orders, recent, paid, outbox, event, applied, crossed, unchecked, faults>>
    BY <1>28 DEF DelayOver, turnVars, payVars
  <2> QED
    BY <2>4, <2>5 DEF TypeOK, LiveHasMsg
<1>29. ASSUME UNCHANGED vars PROVE TypeOK' /\ LiveHasMsg'
  BY <1>29 DEF vars, TypeOK, LiveHasMsg
<1> QED
  BY <1>1, <1>2, <1>3, <1>4, <1>5, <1>6, <1>7, <1>8, <1>9, <1>10, <1>11, <1>12, <1>13, <1>14, <1>15, <1>16, <1>17, <1>18, <1>19, <1>20, <1>21, <1>22, <1>23, <1>24, <1>25, <1>26, <1>27, <1>28, <1>29 DEF Next, Webhook, HandlerStep, EventStepOf

(* The type invariant of the pipeline: its rows, jobs, handlers and events *)
(* keep their shape whatever fails and however often a job is run.         *)
THEOREM TypeCorrect == Spec => []TypeOK
<1>1. Init => TypeInv
  BY InitType, PipelineAssumption
<1>2. TypeInv /\ [Next]_vars => TypeInv'
  BY StepType, PipelineAssumption
<1>3. TypeInv => TypeOK
  BY DEF TypeInv
<1> QED
  BY <1>1, <1>2, <1>3, PTL DEF Spec

-----------------------------------------------------------------------------
(* One order under one wamid.  The rows of orders are written by Insert    *)
(* alone, and Insert looks at the key it writes.                           *)

LEMMA StepOneOrder ==
  TypeInv /\ OneOrderPerMessage /\ [Next]_vars => OneOrderPerMessage'
<1> SUFFICES ASSUME TypeOK, LiveHasMsg, OneOrderPerMessage, [Next]_vars PROVE OneOrderPerMessage'
  BY DEF TypeInv
<1>1. \/ UNCHANGED orders
      \/ \E h \in Slot : Insert(h)
  <2> USE DEF turnVars
  <2>1. ASSUME NEW m \in Msg, RecordInbound(m) PROVE UNCHANGED orders
    BY <2>1 DEF RecordInbound
  <2>2. ASSUME NEW m \in Msg, HookQueues(m) PROVE UNCHANGED orders
    BY <2>2 DEF HookQueues
  <2>3. ASSUME NEW m \in Msg, HookSkips(m) PROVE UNCHANGED orders
    BY <2>3 DEF HookSkips
  <2>4. ASSUME NEW m \in Msg, HookDies(m) PROVE UNCHANGED orders
    BY <2>4 DEF HookDies
  <2>5. ASSUME NEW m \in Msg, Janitor(m) PROVE UNCHANGED orders
    BY <2>5 DEF Janitor
  <2>6. ASSUME NEW m \in Msg, Ages(m) PROVE UNCHANGED orders
    BY <2>6 DEF Ages
  <2>7. ASSUME NEW h \in Slot, Fetch(h) PROVE UNCHANGED orders
    BY <2>7 DEF Fetch
  <2>8. ASSUME NEW h \in Slot, Find(h) PROVE UNCHANGED orders
    BY <2>8 DEF Find
  <2>9. ASSUME NEW h \in Slot, Guard(h) PROVE UNCHANGED orders
    BY <2>9 DEF Guard
  <2>10. ASSUME NEW h \in Slot, Rearm(h) PROVE UNCHANGED orders
    BY <2>10 DEF Rearm
  <2>11. ASSUME NEW h \in Slot, Load(h) PROVE UNCHANGED orders
    BY <2>11 DEF Load
  <2>12. ASSUME NEW h \in Slot, Place(h) PROVE UNCHANGED orders
    BY <2>12 DEF Place
  <2>13. ASSUME NEW h \in Slot, Refuse(h) PROVE UNCHANGED orders
    BY <2>13 DEF Refuse
  <2>14. ASSUME NEW h \in Slot, Save(h) PROVE UNCHANGED orders
    BY <2>14 DEF Save
  <2>15. ASSUME NEW h \in Slot, Reply(h) PROVE UNCHANGED orders
    BY <2>15 DEF Reply
  <2>16. ASSUME NEW h \in Slot, Send(h) PROVE UNCHANGED orders
    BY <2>16 DEF Send
  <2>17. ASSUME NEW h \in Slot, Close(h) PROVE UNCHANGED orders
    BY <2>17 DEF Close
  <2>18. ASSUME NEW h \in Slot, Fail(h) PROVE UNCHANGED orders
    BY <2>18 DEF Fail
  <2>19. ASSUME NEW h \in Slot, Expire(h) PROVE UNCHANGED orders
    BY <2>19 DEF Expire
  <2>20. ASSUME NEW o \in Msg, WindowPasses(o) PROVE UNCHANGED orders
    BY <2>20 DEF WindowPasses
  <2>21. ASSUME NEW o \in Msg, PaymentConfirmed(o) PROVE UNCHANGED orders
    BY <2>21 DEF PaymentConfirmed
  <2>22. ASSUME NEW o \in Msg, EventLoads(o) PROVE UNCHANGED orders
    BY <2>22 DEF EventLoads
  <2>23. ASSUME NEW o \in Msg, EventSaves(o) PROVE UNCHANGED orders
    BY <2>23 DEF EventSaves
  <2>24. ASSUME NEW o \in Msg, EventReplies(o) PROVE UNCHANGED orders
    BY <2>24 DEF EventReplies
  <2>25. ASSUME NEW o \in Msg, EventSends(o) PROVE UNCHANGED orders
    BY <2>25 DEF EventSends
  <2>26. ASSUME NEW o \in Msg, EventFails(o) PROVE UNCHANGED orders
    BY <2>26 DEF EventFails
  <2>27. ASSUME NEW i \in DOMAIN jobs, DelayOver(i) PROVE UNCHANGED orders
    BY <2>27 DEF DelayOver
  <2>28. ASSUME UNCHANGED vars PROVE UNCHANGED orders
    BY <2>28 DEF vars
  <2> QED
    BY <2>1, <2>2, <2>3, <2>4, <2>5, <2>6, <2>7, <2>8, <2>9, <2>10, <2>11,
       <2>12, <2>13, <2>14, <2>15, <2>16, <2>17, <2>18, <2>19, <2>20, <2>21,
       <2>22, <2>23, <2>24, <2>25, <2>26, <2>27, <2>28 DEF Next, Webhook, HandlerStep, EventStepOf
<1>2. CASE UNCHANGED orders
  BY <1>2 DEF OneOrderPerMessage
<1>3. ASSUME NEW h \in Slot, Insert(h) PROVE OneOrderPerMessage'
  <2>1. handler[h].msg \in Msg
    BY <1>3 DEF Insert, At, LiveHasMsg
  <2>2. CASE orders[handler[h].msg] > 0
    BY <1>3, <2>2 DEF Insert, OneOrderPerMessage
  <2>3. CASE ~(orders[handler[h].msg] > 0)
    <3>1. orders[handler[h].msg] = 0
      BY <2>1, <2>3 DEF TypeOK
    <3>2. orders' = [orders EXCEPT ![handler[h].msg] = 1]
      BY <1>3, <2>3, <3>1 DEF Insert
    <3> QED
      BY <2>1, <3>2 DEF OneOrderPerMessage, TypeOK
  <2> QED
    BY <2>2, <2>3
<1> QED
  BY <1>1, <1>2, <1>3

(* placeOrder's key: one message makes at most one order, whichever        *)
(* handlers run it at once and however often it is retried.                *)
THEOREM OneOrder == Spec => []OneOrderPerMessage
<1>1. Init => TypeInv /\ OneOrderPerMessage
  <2>1. Init => OneOrderPerMessage
    BY DEF Init, OneOrderPerMessage
  <2> QED
    BY <2>1, InitType, PipelineAssumption
<1>2. TypeInv /\ OneOrderPerMessage /\ [Next]_vars => (TypeInv /\ OneOrderPerMessage)'
  BY StepType, StepOneOrder, PipelineAssumption
<1> QED
  BY <1>1, <1>2, PTL DEF Spec

-----------------------------------------------------------------------------
(* What a handler's place in its turn says of the store: past the save the *)
(* session has the message, past the replies one is on record, and the     *)
(* guard takes its short cut only when both have happened.                 *)

PastSave     == {"reply", "send", "close", "rearm"}
PastReply    == {"send", "close", "rearm"}
SavedSoFar   == \A h \in Slot : handler[h].at \in PastSave => applied[handler[h].msg] > 0
RepliedSoFar == \A h \in Slot : handler[h].at \in PastReply => outbox[handler[h].msg] # <<>>
RepliesSaved == \A m \in Msg : outbox[m] # <<>> => applied[m] > 0
EffectInv    == SavedSoFar /\ RepliedSoFar /\ RepliesSaved /\ ProcessedTookEffect

LEMMA ArmKeepsReplies ==
  ASSUME TypeOK, NEW m \in Msg \cup {NoMsg}, NEW rows, Arm(m, rows)
  PROVE  \A k \in Msg \cup {NoMsg} : outbox'[k] = <<>> <=> outbox[k] = <<>>
<1>1. outbox[m] \in Seq(Row) /\ outbox'[m] \in Seq(Row)
  BY ArmType DEF TypeOK
<1>2. DOMAIN outbox'[m] = DOMAIN outbox[m]
  BY DEF Arm, TypeOK
<1>3. outbox'[m] = <<>> <=> outbox[m] = <<>>
  BY <1>1, <1>2, LenProperties, EmptySeq
<1>4. \A k \in (Msg \cup {NoMsg}) \ {m} : outbox'[k] = outbox[k]
  BY DEF Arm, TypeOK
<1> QED
  BY <1>3, <1>4

LEMMA RecordGrows ==
  ASSUME TypeOK, NEW m \in Msg \cup {NoMsg}, NEW n \in Nat \ {0}, Record(m, n)
  PROVE  /\ outbox'[m] # <<>>
         /\ \A k \in (Msg \cup {NoMsg}) \ {m} : outbox'[k] = outbox[k]
<1>1. [part |-> n, armed |-> FALSE] \in Row
  BY DEF Row
<1>2. Append(outbox[m], [part |-> n, armed |-> FALSE]) # <<>>
  <2>1. outbox[m] \in Seq(Row)
    BY DEF TypeOK
  <2>2. Len(Append(outbox[m], [part |-> n, armed |-> FALSE])) = Len(outbox[m]) + 1
    BY <1>1, <2>1, AppendProperties
  <2> QED
    BY <2>1, <2>2, LenProperties, EmptySeq
<1> QED
  BY <1>2 DEF Record, TypeOK

(* Every action but a handler's own leaves the turns where they are.       *)
LEMMA EffectKept ==
  ASSUME TypeOK, LiveHasMsg, EffectInv, UNCHANGED applied,
         \A g \in Slot : handler'[g] = handler[g] \/ handler'[g].at \notin PastSave,
         \A k \in Msg : outbox'[k] = <<>> <=> outbox[k] = <<>>,
         \A k \in Msg : status'[k] = "processed" => status[k] = "processed"
  PROVE  EffectInv'
<1>1. \A g \in Slot : handler'[g].at \in PastSave => handler'[g] = handler[g] /\ handler[g].msg \in Msg
  BY DEF LiveHasMsg, PastSave
<1>2. SavedSoFar'
  BY <1>1 DEF EffectInv, SavedSoFar
<1>3. RepliedSoFar'
  BY <1>1 DEF EffectInv, RepliedSoFar, PastSave, PastReply
<1>4. RepliesSaved' /\ ProcessedTookEffect'
  BY DEF EffectInv, RepliesSaved, ProcessedTookEffect
<1> QED
  BY <1>2, <1>3, <1>4 DEF EffectInv

(* A step of a handler that ends past the save brings what that place says.*)
LEMMA EffectOfTurn ==
  ASSUME TypeOK, LiveHasMsg, EffectInv, NEW h \in Slot, handler[h].msg \in Msg,
         \A g \in Slot \ {h} : handler'[g] = handler[g],
         handler'[h].msg = handler[h].msg \/ handler'[h].at \notin PastSave,
         handler'[h].at \in PastSave => applied'[handler[h].msg] > 0,
         handler'[h].at \in PastReply => outbox'[handler[h].msg] # <<>>,
         \A k \in Msg : applied[k] > 0 => applied'[k] > 0,
         \A k \in Msg : outbox[k] # <<>> => outbox'[k] # <<>>,
         \A k \in Msg : outbox'[k] # <<>> => outbox[k] # <<>> \/ applied'[k] > 0,
         \A k \in Msg : status'[k] = "processed" =>
           status[k] = "processed" \/ (applied'[k] > 0 /\ outbox'[k] # <<>>)
  PROVE  EffectInv'
<1>1. \A g \in Slot \ {h} : handler'[g].at \in PastSave => handler[g].msg \in Msg
  BY DEF LiveHasMsg, PastSave
<1>2. SavedSoFar'
  BY <1>1 DEF EffectInv, SavedSoFar
<1>3. RepliedSoFar'
  BY <1>1 DEF EffectInv, RepliedSoFar, PastSave, PastReply
<1>4. RepliesSaved' /\ ProcessedTookEffect'
  BY DEF EffectInv, RepliesSaved, ProcessedTookEffect
<1> QED
  BY <1>2, <1>3, <1>4 DEF EffectInv

LEMMA StepEffect == PipelineAssumption /\ TypeInv /\ EffectInv /\ [Next]_vars => EffectInv'
<1> SUFFICES ASSUME PipelineAssumption, TypeOK, LiveHasMsg, EffectInv, [Next]_vars PROVE EffectInv'
  BY DEF TypeInv
<1>1. ASSUME NEW m \in Msg, RecordInbound(m) PROVE EffectInv'
  <2>1. UNCHANGED <<applied, outbox>>
    BY <1>1 DEF RecordInbound, queueVars, turnVars, payVars
  <2>2. \A g \in Slot : handler'[g] = handler[g] \/ handler'[g].at \notin PastSave
    BY <1>1 DEF RecordInbound, queueVars, turnVars, payVars, TypeOK
  <2>3. \A k \in Msg : status'[k] = "processed" => status[k] = "processed"
    BY <1>1 DEF RecordInbound, queueVars, turnVars, payVars, TypeOK
  <2> QED
    BY <2>1, <2>2, <2>3, EffectKept
<1>2. ASSUME NEW m \in Msg, HookQueues(m) PROVE EffectInv'
  <2>1. UNCHANGED <<applied, outbox>>
    BY <1>2 DEF HookQueues, queueVars, turnVars, payVars
  <2>2. \A g \in Slot : handler'[g] = handler[g] \/ handler'[g].at \notin PastSave
    BY <1>2 DEF HookQueues, queueVars, turnVars, payVars
  <2>3. \A k \in Msg : status'[k] = "processed" => status[k] = "processed"
    BY <1>2 DEF HookQueues, queueVars, turnVars, payVars
  <2> QED
    BY <2>1, <2>2, <2>3, EffectKept
<1>3. ASSUME NEW m \in Msg, HookSkips(m) PROVE EffectInv'
  <2>1. UNCHANGED <<applied, outbox>>
    BY <1>3 DEF HookSkips, queueVars, turnVars, payVars
  <2>2. \A g \in Slot : handler'[g] = handler[g] \/ handler'[g].at \notin PastSave
    BY <1>3 DEF HookSkips, queueVars, turnVars, payVars, CloseAs, TypeOK
  <2>3. \A k \in Msg : status'[k] = "processed" => status[k] = "processed"
    BY <1>3 DEF HookSkips, queueVars, turnVars, payVars, CloseAs, TypeOK
  <2> QED
    BY <2>1, <2>2, <2>3, EffectKept
<1>4. ASSUME NEW m \in Msg, HookDies(m) PROVE EffectInv'
  <2>1. UNCHANGED <<applied, outbox>>
    BY <1>4 DEF HookDies, queueVars, turnVars, payVars
  <2>2. \A g \in Slot : handler'[g] = handler[g] \/ handler'[g].at \notin PastSave
    BY <1>4 DEF HookDies, queueVars, turnVars, payVars
  <2>3. \A k \in Msg : status'[k] = "processed" => status[k] = "processed"
    BY <1>4 DEF HookDies, queueVars, turnVars, payVars
  <2> QED
    BY <2>1, <2>2, <2>3, EffectKept
<1>5. ASSUME NEW m \in Msg, Janitor(m) PROVE EffectInv'
  <2>1. UNCHANGED <<applied, outbox>>
    BY <1>5 DEF Janitor, queueVars, turnVars, payVars
  <2>2. \A g \in Slot : handler'[g] = handler[g] \/ handler'[g].at \notin PastSave
    BY <1>5 DEF Janitor, queueVars, turnVars, payVars
  <2>3. \A k \in Msg : status'[k] = "processed" => status[k] = "processed"
    BY <1>5 DEF Janitor, queueVars, turnVars, payVars
  <2> QED
    BY <2>1, <2>2, <2>3, EffectKept
<1>6. ASSUME NEW m \in Msg, Ages(m) PROVE EffectInv'
  <2>1. UNCHANGED <<applied, outbox>>
    BY <1>6 DEF Ages, queueVars, turnVars, payVars
  <2>2. \A g \in Slot : handler'[g] = handler[g] \/ handler'[g].at \notin PastSave
    BY <1>6 DEF Ages, queueVars, turnVars, payVars
  <2>3. \A k \in Msg : status'[k] = "processed" => status[k] = "processed"
    BY <1>6 DEF Ages, queueVars, turnVars, payVars
  <2> QED
    BY <2>1, <2>2, <2>3, EffectKept
<1>7. ASSUME NEW h \in Slot, Fetch(h) PROVE EffectInv'
  <2>1. UNCHANGED <<applied, outbox>>
    BY <1>7 DEF Fetch, queueVars, turnVars, payVars
  <2>2. \A g \in Slot : handler'[g] = handler[g] \/ handler'[g].at \notin PastSave
    BY <1>7 DEF Fetch, queueVars, turnVars, payVars, TypeOK, Idle, PastSave
  <2>3. \A k \in Msg : status'[k] = "processed" => status[k] = "processed"
    BY <1>7 DEF Fetch, queueVars, turnVars, payVars, TypeOK, Idle, PastSave
  <2> QED
    BY <2>1, <2>2, <2>3, EffectKept
<1>8. ASSUME NEW h \in Slot, Find(h) PROVE EffectInv'
  <2>1. UNCHANGED <<applied, outbox>>
    BY <1>8 DEF Find, queueVars, turnVars, payVars
  <2>2. \A g \in Slot : handler'[g] = handler[g] \/ handler'[g].at \notin PastSave
    <3>1. CASE Finish(h)
      BY <3>1 DEF Finish, TypeOK, Idle, PastSave
    <3>2. CASE Goes(h, "guard")
      BY <3>2 DEF Goes, TypeOK, PastSave
    <3> QED
      BY <1>8, <3>1, <3>2 DEF Find
  <2>3. \A k \in Msg : status'[k] = "processed" => status[k] = "processed"
    BY <1>8 DEF Find, queueVars, turnVars, payVars, Finish, Goes, CloseAs, TypeOK, Idle, PastSave
  <2> QED
    BY <2>1, <2>2, <2>3, EffectKept
<1>9. ASSUME NEW h \in Slot, Guard(h) PROVE EffectInv'
  <2>1. handler[h].msg \in Msg /\ handler[h] \in Handler
    BY <1>9 DEF Guard, At, TypeOK, LiveHasMsg
  <2>2. \A g \in Slot \ {h} : handler'[g] = handler[g]
    BY <1>9 DEF Guard, TypeOK
  <2>3. outbox[handler[h].msg] \in Seq(Row)
    BY <2>1 DEF TypeOK
  <2>4. CASE outbox[handler[h].msg] = <<>>
    <3>1. handler'[h].msg = handler[h].msg /\ handler'[h].at = "load"
      BY <1>9, <2>4 DEF Guard, TypeOK
    <3> QED
      BY <1>9, <2>1, <2>2, <3>1, EffectOfTurn DEF Guard, turnVars, PastSave, PastReply
  <2>5. CASE outbox[handler[h].msg] # <<>>
    <3>1. handler'[h].msg = handler[h].msg
      BY <1>9 DEF Guard, TypeOK
    <3>2. applied[handler[h].msg] > 0
      BY <2>1, <2>5 DEF EffectInv, RepliesSaved
    <3> QED
      BY <1>9, <2>1, <2>2, <2>5, <3>1, <3>2, EffectOfTurn DEF Guard, turnVars
  <2> QED
    BY <2>4, <2>5
<1>10. ASSUME NEW h \in Slot, Rearm(h) PROVE EffectInv'
  <2>1. handler[h].msg \in Msg /\ handler[h] \in Handler
    BY <1>10 DEF Rearm, At, TypeOK, LiveHasMsg
  <2>2. \A g \in Slot \ {h} : handler'[g] = handler[g]
    BY <1>10 DEF Rearm, TypeOK, ForgetRows
  <2>3. handler'[h].msg = handler[h].msg
    BY <1>10 DEF Rearm, ForgetRows, TypeOK
  <2>4. \A k \in Msg : outbox'[k] = <<>> <=> outbox[k] = <<>>
    BY <1>10, <2>1, ArmKeepsReplies DEF Rearm
  <2>5. applied[handler[h].msg] > 0 /\ outbox[handler[h].msg] # <<>>
    BY <1>10 DEF Rearm, At, EffectInv, SavedSoFar, RepliedSoFar, PastSave, PastReply
  <2>6. UNCHANGED <<applied, status>>
    BY <1>10 DEF Rearm
  <2> QED
    BY <2>1, <2>2, <2>3, <2>4, <2>5, <2>6, EffectOfTurn
<1>11. ASSUME NEW h \in Slot, Load(h) PROVE EffectInv'
  <2>1. handler[h].msg \in Msg /\ handler[h] \in Handler
    BY <1>11 DEF Load, At, TypeOK, LiveHasMsg
  <2>2. \A g \in Slot \ {h} : handler'[g] = handler[g]
    BY <1>11 DEF Load, TypeOK
  <2>3. handler'[h].msg = handler[h].msg /\ handler'[h].at \notin PastSave
    BY <1>11, BookkeepingSteps DEF Load, TypeOK, PastSave
  <2>4. UNCHANGED <<applied, outbox, status>>
    BY <1>11 DEF Load, turnVars
  <2> QED
    BY <2>1, <2>2, <2>3, <2>4, EffectOfTurn DEF PastSave, PastReply
<1>12. ASSUME NEW h \in Slot, Place(h) PROVE EffectInv'
  <2>1. handler[h].msg \in Msg /\ handler[h] \in Handler
    BY <1>12 DEF Place, At, TypeOK, LiveHasMsg
  <2>2. \A g \in Slot \ {h} : handler'[g] = handler[g]
    BY <1>12 DEF Place, TypeOK, Answered, Goes
  <2>3. handler'[h].msg = handler[h].msg /\ handler'[h].at \notin PastSave
    <3>1. ASSUME NEW o \in Msg, Answered(h, o)
          PROVE  handler'[h].msg = handler[h].msg /\ handler'[h].at = "save"
      BY <3>1, BookkeepingSteps DEF Answered, TypeOK
    <3>2. ASSUME Goes(h, "insert")
          PROVE  handler'[h].msg = handler[h].msg /\ handler'[h].at = "insert"
      BY <3>2 DEF Goes, TypeOK
    <3> QED
      BY <1>12, <2>1, <3>1, <3>2 DEF Place, PastSave
  <2>4. UNCHANGED <<applied, outbox, status>>
    BY <1>12 DEF Place, turnVars
  <2> QED
    BY <2>1, <2>2, <2>3, <2>4, EffectOfTurn DEF PastSave, PastReply
<1>13. ASSUME NEW h \in Slot, Insert(h) PROVE EffectInv'
  <2>1. handler[h].msg \in Msg /\ handler[h] \in Handler
    BY <1>13 DEF Insert, At, TypeOK, LiveHasMsg
  <2>2. \A g \in Slot \ {h} : handler'[g] = handler[g]
    BY <1>13 DEF Insert, TypeOK, Answered
  <2>3. handler'[h].msg = handler[h].msg /\ handler'[h].at \notin PastSave
    BY <1>13, BookkeepingSteps DEF Insert, TypeOK, PastSave, Answered
  <2>4. UNCHANGED <<applied, outbox, status>>
    BY <1>13 DEF Insert, turnVars
  <2> QED
    BY <2>1, <2>2, <2>3, <2>4, EffectOfTurn DEF PastSave, PastReply
<1>14. ASSUME NEW h \in Slot, Refuse(h) PROVE EffectInv'
  <2>1. handler[h].msg \in Msg /\ handler[h] \in Handler
    BY <1>14 DEF Refuse, At, TypeOK, LiveHasMsg
  <2>2. \A g \in Slot \ {h} : handler'[g] = handler[g]
    BY <1>14 DEF Refuse, TypeOK
  <2>3. handler'[h].msg = handler[h].msg /\ handler'[h].at \notin PastSave
    BY <1>14, BookkeepingSteps DEF Refuse, TypeOK, PastSave
  <2>4. UNCHANGED <<applied, outbox, status>>
    BY <1>14 DEF Refuse, turnVars
  <2> QED
    BY <2>1, <2>2, <2>3, <2>4, EffectOfTurn DEF PastSave, PastReply
<1>15. ASSUME NEW h \in Slot, Save(h) PROVE EffectInv'
  <2>1. handler[h].msg \in Msg /\ handler[h] \in Handler
    BY <1>15 DEF Save, At, TypeOK, LiveHasMsg
  <2>2. \A g \in Slot \ {h} : handler'[g] = handler[g]
    BY <1>15 DEF Save, TypeOK
  <2>3. handler'[h].msg = handler[h].msg /\ handler'[h].at = "reply"
    BY <1>15, BookkeepingSteps DEF Save, TypeOK
  <2>4. applied'[handler[h].msg] > 0 /\ \A k \in Msg : applied[k] > 0 => applied'[k] > 0
    BY <1>15, <2>1 DEF Save, TypeOK
  <2>5. UNCHANGED <<outbox, status>>
    BY <1>15 DEF Save
  <2> QED
    BY <2>1, <2>2, <2>3, <2>4, <2>5, EffectOfTurn DEF PastReply
<1>16. ASSUME NEW h \in Slot, Reply(h) PROVE EffectInv'
  <2>1. handler[h].msg \in Msg /\ handler[h] \in Handler
    BY <1>16 DEF Reply, At, TypeOK, LiveHasMsg
  <2>2. \A g \in Slot \ {h} : handler'[g] = handler[g]
    BY <1>16 DEF Reply, TypeOK
  <2>3. handler'[h].msg = handler[h].msg
    BY <1>16 DEF Reply, TypeOK
  <2>4. Len(handler[h].rows) + 1 \in Nat \ {0}
    BY <2>1, LenProperties DEF Handler
  <2>5. /\ outbox'[handler[h].msg] # <<>>
        /\ \A k \in Msg \ {handler[h].msg} : outbox'[k] = outbox[k]
    BY <1>16, <2>1, <2>4, RecordGrows DEF Reply
  <2>6. applied[handler[h].msg] > 0
    BY <1>16 DEF Reply, At, EffectInv, SavedSoFar, PastSave
  <2>7. UNCHANGED <<applied, status>>
    BY <1>16 DEF Reply
  <2> QED
    BY <2>1, <2>2, <2>3, <2>5, <2>6, <2>7, EffectOfTurn
<1>17. ASSUME NEW h \in Slot, Send(h) PROVE EffectInv'
  <2>1. handler[h].msg \in Msg /\ handler[h] \in Handler
    BY <1>17 DEF Send, At, TypeOK, LiveHasMsg
  <2>2. \A g \in Slot \ {h} : handler'[g] = handler[g]
    BY <1>17 DEF Send, TypeOK, ForgetRows
  <2>3. handler'[h].msg = handler[h].msg
    BY <1>17 DEF Send, ForgetRows, TypeOK
  <2>4. \A k \in Msg : outbox'[k] = <<>> <=> outbox[k] = <<>>
    BY <1>17, <2>1, ArmKeepsReplies DEF Send
  <2>5. applied[handler[h].msg] > 0 /\ outbox[handler[h].msg] # <<>>
    BY <1>17 DEF Send, At, EffectInv, SavedSoFar, RepliedSoFar, PastSave, PastReply
  <2>6. UNCHANGED <<applied, status>>
    BY <1>17 DEF Send
  <2> QED
    BY <2>1, <2>2, <2>3, <2>4, <2>5, <2>6, EffectOfTurn
<1>18. ASSUME NEW h \in Slot, Close(h) PROVE EffectInv'
  <2>1. handler[h].msg \in Msg /\ handler[h] \in Handler
    BY <1>18 DEF Close, At, TypeOK, LiveHasMsg
  <2>2. \A g \in Slot \ {h} : handler'[g] = handler[g]
    BY <1>18 DEF Close, TypeOK, Finish
  <2>3. handler'[h].at \notin PastSave
    BY <1>18 DEF Close, Finish, TypeOK, Idle, PastSave
  <2>4. applied[handler[h].msg] > 0 /\ outbox[handler[h].msg] # <<>>
    BY <1>18 DEF Close, At, EffectInv, SavedSoFar, RepliedSoFar, PastSave, PastReply
  <2>5. \A k \in Msg : status'[k] = "processed" => status[k] = "processed" \/ k = handler[h].msg
    BY <1>18 DEF Close, CloseAs, TypeOK
  <2>6. UNCHANGED <<applied, outbox>>
    BY <1>18 DEF Close, turnVars
  <2> QED
    BY <2>1, <2>2, <2>3, <2>4, <2>5, <2>6, EffectOfTurn DEF PastSave, PastReply
<1>19. ASSUME NEW h \in Slot, Fail(h) PROVE EffectInv'
  <2>1. UNCHANGED <<applied, outbox>>
    BY <1>19 DEF Fail, queueVars, turnVars, payVars
  <2>2. \A g \in Slot : handler'[g] = handler[g] \/ handler'[g].at \notin PastSave
    BY <1>19 DEF Fail, queueVars, turnVars, payVars, TypeOK, Idle, PastSave
  <2>3. \A k \in Msg : status'[k] = "processed" => status[k] = "processed"
    BY <1>19 DEF Fail, queueVars, turnVars, payVars, TypeOK, Idle, PastSave
  <2> QED
    BY <2>1, <2>2, <2>3, EffectKept
<1>20. ASSUME NEW h \in Slot, Expire(h) PROVE EffectInv'
  <2>1. UNCHANGED <<applied, outbox>>
    BY <1>20 DEF Expire, queueVars, turnVars, payVars
  <2>2. \A g \in Slot : handler'[g] = handler[g] \/ handler'[g].at \notin PastSave
    BY <1>20 DEF Expire, queueVars, turnVars, payVars
  <2>3. \A k \in Msg : status'[k] = "processed" => status[k] = "processed"
    BY <1>20 DEF Expire, queueVars, turnVars, payVars
  <2> QED
    BY <2>1, <2>2, <2>3, EffectKept
<1>21. ASSUME NEW o \in Msg, WindowPasses(o) PROVE EffectInv'
  <2>1. UNCHANGED <<applied, outbox>>
    BY <1>21 DEF WindowPasses, queueVars, turnVars, payVars
  <2>2. \A g \in Slot : handler'[g] = handler[g] \/ handler'[g].at \notin PastSave
    BY <1>21 DEF WindowPasses, queueVars, turnVars, payVars
  <2>3. \A k \in Msg : status'[k] = "processed" => status[k] = "processed"
    BY <1>21 DEF WindowPasses, queueVars, turnVars, payVars
  <2> QED
    BY <2>1, <2>2, <2>3, EffectKept
<1>22. ASSUME NEW o \in Msg, PaymentConfirmed(o) PROVE EffectInv'
  <2>1. UNCHANGED <<applied, outbox>>
    BY <1>22 DEF PaymentConfirmed, queueVars, turnVars, payVars
  <2>2. \A g \in Slot : handler'[g] = handler[g] \/ handler'[g].at \notin PastSave
    BY <1>22 DEF PaymentConfirmed, queueVars, turnVars, payVars
  <2>3. \A k \in Msg : status'[k] = "processed" => status[k] = "processed"
    BY <1>22 DEF PaymentConfirmed, queueVars, turnVars, payVars
  <2> QED
    BY <2>1, <2>2, <2>3, EffectKept
<1>23. ASSUME NEW o \in Msg, EventLoads(o) PROVE EffectInv'
  <2>1. UNCHANGED <<applied, outbox>>
    BY <1>23 DEF EventLoads, queueVars, turnVars, payVars
  <2>2. \A g \in Slot : handler'[g] = handler[g] \/ handler'[g].at \notin PastSave
    BY <1>23 DEF EventLoads, queueVars, turnVars, payVars
  <2>3. \A k \in Msg : status'[k] = "processed" => status[k] = "processed"
    BY <1>23 DEF EventLoads, queueVars, turnVars, payVars
  <2> QED
    BY <2>1, <2>2, <2>3, EffectKept
<1>24. ASSUME NEW o \in Msg, EventSaves(o) PROVE EffectInv'
  <2>1. UNCHANGED <<applied, outbox>>
    BY <1>24 DEF EventSaves, queueVars, turnVars, payVars
  <2>2. \A g \in Slot : handler'[g] = handler[g] \/ handler'[g].at \notin PastSave
    BY <1>24 DEF EventSaves, queueVars, turnVars, payVars
  <2>3. \A k \in Msg : status'[k] = "processed" => status[k] = "processed"
    BY <1>24 DEF EventSaves, queueVars, turnVars, payVars
  <2> QED
    BY <2>1, <2>2, <2>3, EffectKept
<1>25. ASSUME NEW o \in Msg, EventReplies(o) PROVE EffectInv'
  <2>1. UNCHANGED <<applied, handler, status>>
    BY <1>25 DEF EventReplies, queueVars
  <2>2. NoMsg \in Msg \cup {NoMsg} /\ NoMsg \notin Msg /\ 1 \in Nat \ {0}
    BY PipelineAssumption DEF Msg, NoMsg
  <2>3. \A k \in Msg : outbox'[k] = <<>> <=> outbox[k] = <<>>
    BY <1>25, <2>2, RecordGrows DEF EventReplies
  <2> QED
    BY <2>1, <2>3, EffectKept
<1>26. ASSUME NEW o \in Msg, EventSends(o) PROVE EffectInv'
  <2>1. UNCHANGED <<applied, handler, status>>
    BY <1>26 DEF EventSends, queueVars
  <2>2. NoMsg \in Msg \cup {NoMsg} /\ NoMsg \notin Msg /\ 1 \in Nat \ {0}
    BY PipelineAssumption DEF Msg, NoMsg
  <2>3. \A k \in Msg : outbox'[k] = <<>> <=> outbox[k] = <<>>
    BY <1>26, <2>2, ArmKeepsReplies DEF EventSends
  <2> QED
    BY <2>1, <2>3, EffectKept
<1>27. ASSUME NEW o \in Msg, EventFails(o) PROVE EffectInv'
  <2>1. UNCHANGED <<applied, outbox>>
    BY <1>27 DEF EventFails, queueVars, turnVars, payVars
  <2>2. \A g \in Slot : handler'[g] = handler[g] \/ handler'[g].at \notin PastSave
    BY <1>27 DEF EventFails, queueVars, turnVars, payVars
  <2>3. \A k \in Msg : status'[k] = "processed" => status[k] = "processed"
    BY <1>27 DEF EventFails, queueVars, turnVars, payVars
  <2> QED
    BY <2>1, <2>2, <2>3, EffectKept
<1>28. ASSUME NEW i \in DOMAIN jobs, DelayOver(i) PROVE EffectInv'
  BY <1>28, EffectKept DEF DelayOver, turnVars
<1>29. ASSUME UNCHANGED vars PROVE EffectInv'
  BY <1>29, EffectKept DEF vars
<1> QED
  BY <1>1, <1>2, <1>3, <1>4, <1>5, <1>6, <1>7, <1>8, <1>9, <1>10, <1>11,
     <1>12, <1>13, <1>14, <1>15, <1>16, <1>17, <1>18, <1>19, <1>20, <1>21,
     <1>22, <1>23, <1>24, <1>25, <1>26, <1>27, <1>28, <1>29 DEF Next, Webhook, HandlerStep, EventStepOf

(* A message that is closed as processed has been applied to the session   *)
(* and answered, however its turn was cut short and taken up again: no     *)
(* short cut of the guard, and no orphaned handler, closes it for nothing. *)
THEOREM ProcessedIsDone == Spec => []ProcessedTookEffect
<1>1. Init => TypeInv /\ EffectInv
  <2>1. Init => EffectInv
    BY DEF Init, EffectInv, SavedSoFar, RepliedSoFar, RepliesSaved, ProcessedTookEffect, Idle, PastSave, PastReply
  <2> QED
    BY <2>1, InitType, PipelineAssumption
<1>2. TypeInv /\ EffectInv /\ [Next]_vars => (TypeInv /\ EffectInv)'
  BY StepType, StepEffect, PipelineAssumption
<1>3. EffectInv => ProcessedTookEffect
  BY DEF EffectInv
<1> QED
  BY <1>1, <1>2, <1>3, PTL DEF Spec

(* A turn takes effect: what is closed as processed was applied and        *)
(* answered, and a message makes one order at most.                        *)
THEOREM TurnsDoTakeEffect == Spec => []TurnsTakeEffect
BY OneOrder, ProcessedIsDone, PTL DEF TurnsTakeEffect

-----------------------------------------------------------------------------
(* A message outside crossed is a message whose handler is alone: no other *)
(* handler and no event touches the store while it runs.  So what a        *)
(* handler has read still holds when it writes, and a turn that was cut    *)
(* short is found by the next run as it was left.                          *)

Turning(h)   == handler[h].at \in {"load", "place", "insert", "save", "reply", "rearm", "send"}
AllRows(m)   == [i \in DOMAIN outbox[m] |-> i]
AllArmed(m)  == \A i \in DOMAIN outbox[m] : outbox[m][i].armed
Numbered(m)  == \A i \in DOMAIN outbox[m] : outbox[m][i].part = i
Awaits(s, o) == s.state = "EXPECTED_PAYMENT" /\ s.lastOrder = o
CartNew(s)   == s.state \in {"CONFIRM", "DEPOT"} => s.lastOrder = NoOrder

(* No one else runs beside a handler, or an event, that is not crossed.    *)
Alone ==
  /\ \A h \in Live : handler[h].msg \notin crossed => Live = {h} /\ EventsLive = {}
  /\ \A o \in EventsLive : o \notin crossed => Live = {}

(* What the place of a lone handler says of the store.                     *)
TurnFits(h, m) ==
  /\ handler[h].at # "find" => status[m] # "processed"
  /\ handler[h].at \in {"load", "place", "insert", "save"} => outbox[m] = <<>>
  /\ Turning(h) => handler[h].rows = AllRows(m)
  /\ handler[h].at = "close" => AllArmed(m)
  /\ handler[h].at \in {"place", "insert"} => session.lastOrder = NoOrder
  /\ handler[h].at = "insert" /\ m \notin unchecked => \A o \in Msg : ~recent[o]

TurnsFit == \A h \in Live, m \in Msg : handler[h].msg = m /\ m \notin crossed => TurnFits(h, m)

(* The rows of a message are its replies in their order, each once.        *)
RowsFit ==
  \A m \in Msg \ crossed : Numbered(m) /\ (status[m] = "processed" => AllArmed(m))

(* A conversation that has a cart to confirm has no order yet.             *)
CartFits ==
  /\ CartNew(session)
  /\ \A h \in Slot : /\ handler[h].at \in {"place", "insert"} => handler[h].s.lastOrder = NoOrder
                     /\ handler[h].at = "save" => CartNew(handler[h].s)

(* From the event of its payment on, nothing brings an order back into     *)
(* the session as one to be paid.                                          *)
PaidFits ==
  \A o \in Msg :
    /\ event[o].at # "none" => paid[o]
    /\ event[o].at = "save" => event[o].s.state = "MENU"
    /\ o \notin crossed /\ event[o].at \in {"reply", "send", "done"} => ~Awaits(session, o)
    /\ o \notin crossed /\ event[o].at = "done"
         => \A h \in Slot : handler[h].at = "save" => ~Awaits(handler[h].s, o)

TurnInv == Alone /\ TurnsFit /\ RowsFit /\ CartFits /\ PaidFits

(* Handlers that only end and events that only fall back leave no one less *)
(* alone.                                                                  *)
LEMMA AloneKept ==
  ASSUME Alone, UNCHANGED crossed,
         \A g \in Slot : handler'[g].at # "idle" => handler[g].at # "idle" /\ handler'[g].msg = handler[g].msg,
         \A o \in Msg : event'[o].at \in {"save", "reply", "send"} => event[o].at \in {"save", "reply", "send"}
  PROVE  Alone'
<1>1. \A g \in Live' : g \in Live /\ handler'[g].msg = handler[g].msg
  BY DEF Live, At
<1>2. EventsLive' \subseteq EventsLive
  BY DEF EventsLive
<1>3. ASSUME NEW h \in Live', handler'[h].msg \notin crossed'
      PROVE  Live' = {h} /\ EventsLive' = {}
  <2>1. Live = {h} /\ EventsLive = {}
    BY <1>1, <1>3 DEF Alone
  <2> QED
    BY <1>1, <1>2, <1>3, <2>1
<1>4. ASSUME NEW o \in EventsLive', o \notin crossed'
      PROVE  Live' = {}
  <2>1. Live = {}
    BY <1>2, <1>4 DEF Alone
  <2> QED
    BY <1>1, <2>1
<1> QED
  BY <1>3, <1>4 DEF Alone

(* What neither a turn nor an event does.                                  *)
LEMMA TurnsKept ==
  ASSUME TypeOK, TurnInv, UNCHANGED <<session, crossed, unchecked>>,
         \A g \in Slot : handler'[g] = handler[g] \/ handler'[g].at = "idle",
         \A k \in Msg : outbox'[k] = outbox[k],
         \A k \in Msg : status'[k] = "processed" => status[k] = "processed",
         \A o \in Msg : recent'[o] => recent[o],
         \A o \in Msg : event'[o] = event[o] \/ event'[o].at = "ready",
         \A o \in Msg : paid[o] \/ event'[o].at = "ready" => paid'[o]
  PROVE  TurnInv'
<1>1. Alone'
  BY AloneKept DEF TurnInv
<1>2. TurnsFit'
  <2> SUFFICES ASSUME NEW h \in Live', NEW m \in Msg, handler'[h].msg = m, m \notin crossed'
               PROVE  TurnFits(h, m)'
    BY DEF TurnsFit
  <2>1. h \in Live /\ handler'[h] = handler[h] /\ m \notin crossed
    BY DEF Live, At
  <2>2. TurnFits(h, m)
    BY <2>1 DEF TurnInv, TurnsFit
  <2> QED
    BY <2>1, <2>2 DEF TurnFits, Turning, AllRows, AllArmed
<1>3. RowsFit'
  BY DEF TurnInv, RowsFit, Numbered, AllArmed
<1>4. CartFits'
  BY DEF TurnInv, CartFits, CartNew
<1>5. PaidFits'
  BY DEF TurnInv, PaidFits, Awaits
<1> QED
  BY <1>1, <1>2, <1>3, <1>4, <1>5 DEF TurnInv

(* A step of the handler h on its message m.                               *)
LEMMA TurnGoesOn ==
  ASSUME TypeOK, TurnInv, UNCHANGED <<crossed, event, paid>>,
         NEW h \in Slot, NEW m \in Msg, handler[h].at # "idle", handler[h].msg = m,
         \A g \in Slot \ {h} : handler'[g] = handler[g],
         handler'[h].msg = m \/ handler'[h].at = "idle",
         \A k \in Msg \ {m} : outbox'[k] = outbox[k] /\ (status'[k] = "processed" => status[k] = "processed"),
         m \notin crossed => /\ handler'[h].at # "idle" => TurnFits(h, m)'
                             /\ Numbered(m)' /\ (status'[m] = "processed" => AllArmed(m)'),
         CartNew(session'),
         handler'[h].at \in {"place", "insert"} => handler'[h].s.lastOrder = NoOrder,
         handler'[h].at = "save" => CartNew(handler'[h].s),
         \A o \in Msg : o \notin crossed /\ event[o].at = "done" =>
           ~Awaits(session', o) /\ (handler'[h].at = "save" => ~Awaits(handler'[h].s, o))
  PROVE  TurnInv'
<1>0. h \in Live
  BY DEF Live, At
<1>1. Alone'
  BY AloneKept DEF TurnInv
<1>2. TurnsFit'
  <2> SUFFICES ASSUME NEW g \in Live', NEW k \in Msg, handler'[g].msg = k, k \notin crossed'
               PROVE  TurnFits(g, k)'
    BY DEF TurnsFit
  <2>1. g \in Live /\ handler[g].msg = k /\ k \notin crossed
    BY DEF Live, At
  <2>2. g = h
    BY <1>0, <2>1 DEF TurnInv, Alone
  <2>3. k = m /\ handler'[h].at # "idle"
    BY <2>1, <2>2 DEF Live, At
  <2> QED
    BY <2>1, <2>2, <2>3
<1>3. RowsFit'
  <2> SUFFICES ASSUME NEW k \in Msg, k \notin crossed'
               PROVE  Numbered(k)' /\ (status'[k] = "processed" => AllArmed(k)')
    BY DEF RowsFit
  <2>1. CASE k = m
    BY <2>1
  <2>2. CASE k # m
    BY <2>2 DEF TurnInv, RowsFit, Numbered, AllArmed
  <2> QED
    BY <2>1, <2>2
<1>4. CartFits'
  <2>1. ASSUME NEW g \in Slot
        PROVE  /\ handler'[g].at \in {"place", "insert"} => handler'[g].s.lastOrder = NoOrder
               /\ handler'[g].at = "save" => CartNew(handler'[g].s)
    <3>1. CASE g = h
      BY <3>1
    <3>2. CASE g # h
      BY <3>2 DEF TurnInv, CartFits
    <3> QED
      BY <3>1, <3>2
  <2> QED
    BY <2>1 DEF CartFits, CartNew
<1>5. PaidFits'
  <2> SUFFICES ASSUME NEW o \in Msg
               PROVE  /\ event'[o].at # "none" => paid'[o]
                      /\ event'[o].at = "save" => event'[o].s.state = "MENU"
                      /\ o \notin crossed' /\ event'[o].at \in {"reply", "send", "done"} => ~Awaits(session', o)
                      /\ o \notin crossed' /\ event'[o].at = "done"
                           => \A g \in Slot : handler'[g].at = "save" => ~Awaits(handler'[g].s, o)
    BY DEF PaidFits, Awaits
  <2>1. event[o].at \in {"reply", "send"} => o \in crossed
    BY <1>0 DEF TurnInv, Alone, EventsLive
  <2>2. /\ event[o].at # "none" => paid[o]
        /\ event[o].at = "save" => event[o].s.state = "MENU"
        /\ o \notin crossed /\ event[o].at = "done"
             => \A g \in Slot : handler[g].at = "save" => ~Awaits(handler[g].s, o)
    BY DEF TurnInv, PaidFits
  <2> QED
    BY <2>1, <2>2
<1> QED
  BY <1>1, <1>2, <1>3, <1>4, <1>5 DEF TurnInv

(* What a lone handler knows.                                              *)
LEMMA LoneTurn ==
  ASSUME TypeOK, LiveHasMsg, TurnInv, NEW h \in Slot, handler[h].at # "idle"
  PROVE  \E m \in Msg : /\ handler[h].msg = m /\ handler[h] \in Handler /\ outbox[m] \in Seq(Row)
                        /\ m \notin crossed => TurnFits(h, m) /\ Numbered(m)
                        /\ status[m] = "processed" /\ m \notin crossed => AllArmed(m)
<1>1. handler[h].msg \in Msg /\ handler[h] \in Handler
  BY DEF LiveHasMsg, TypeOK
<1>2. PICK m \in Msg : m = handler[h].msg
  BY <1>1
<1>3. outbox[m] \in Seq(Row)
  BY DEF TypeOK
<1>4. h \in Live
  BY DEF Live, At
<1>5. m \notin crossed => TurnFits(h, m) /\ Numbered(m)
  BY <1>2, <1>4 DEF TurnInv, TurnsFit, RowsFit
<1>6. status[m] = "processed" /\ m \notin crossed => AllArmed(m)
  BY DEF TurnInv, RowsFit
<1> QED
  BY <1>1, <1>2, <1>3, <1>5, <1>6

LEMMA KeptAwait ==
  ASSUME TurnInv
  PROVE  \A o \in Msg : o \notin crossed /\ event[o].at = "done" =>
           paid[o] /\ ~Awaits(session, o) /\ \A h \in Slot : handler[h].at = "save" => ~Awaits(handler[h].s, o)
BY DEF TurnInv, PaidFits

LEMMA GuardGoesOn ==
  ASSUME PipelineAssumption, TypeOK, LiveHasMsg, TurnInv, NEW h \in Slot, Guard(h)
  PROVE  TurnInv'
<1>1. PICK m \in Msg : /\ handler[h].msg = m /\ handler[h] \in Handler /\ outbox[m] \in Seq(Row)
                       /\ m \notin crossed => TurnFits(h, m) /\ Numbered(m)
                       /\ status[m] = "processed" /\ m \notin crossed => AllArmed(m)
  BY LoneTurn DEF Guard, At
<1>2. /\ handler[h].at = "guard"
      /\ UNCHANGED <<crossed, event, paid, status, outbox, session, unchecked, recent>>
      /\ \A g \in Slot \ {h} : handler'[g] = handler[g]
      /\ handler'[h].msg = m /\ handler'[h].rows = AllRows(m)
      /\ handler'[h].at = IF AllRows(m) = <<>> THEN "load" ELSE "rearm"
  BY <1>1 DEF Guard, At, TypeOK, turnVars, payVars, AllRows, Handler
<1>3. AllRows(m) = <<>> => outbox[m] = <<>>
  <2> SUFFICES ASSUME AllRows(m) = <<>> PROVE outbox[m] = <<>>
    OBVIOUS
  <2>1. DOMAIN AllRows(m) = DOMAIN outbox[m] /\ DOMAIN AllRows(m) = {}
    BY DEF AllRows
  <2>2. DOMAIN outbox[m] = 1..Len(outbox[m]) /\ Len(outbox[m]) \in Nat
    BY <1>1, LenProperties
  <2>3. Len(outbox[m]) = 0
    <3>1. 1..Len(outbox[m]) = {}
      BY <2>1, <2>2, Zenon
    <3>2. PICK n \in Nat : n = Len(outbox[m])
      BY <2>2
    <3>3. 1..n = {}
      BY <3>1, <3>2
    <3>4. n = 0
      BY <3>3
    <3> QED
      BY <3>2, <3>4
  <2> QED
    BY <1>1, <2>3, EmptySeq
<1>4. m \notin crossed => TurnFits(h, m)'
  BY <1>1, <1>2, <1>3 DEF TurnFits, AllRows, Turning
<1> QED
  BY <1>1, <1>2, <1>4, KeptAwait, TurnGoesOn DEF Numbered, AllArmed, CartNew, TurnInv, CartFits

LEMMA LoadGoesOn ==
  ASSUME PipelineAssumption, TypeOK, LiveHasMsg, TurnInv, NEW h \in Slot, Load(h)
  PROVE  TurnInv'
<1>1. PICK m \in Msg : /\ handler[h].msg = m /\ handler[h] \in Handler /\ outbox[m] \in Seq(Row)
                       /\ m \notin crossed => TurnFits(h, m) /\ Numbered(m)
                       /\ status[m] = "processed" /\ m \notin crossed => AllArmed(m)
  BY LoneTurn DEF Load, At
<1>2. PICK t \in Reduce(session, m) :
        handler' = [handler EXCEPT ![h].at = IF t.create THEN "place" ELSE "save", ![h].s = t.s, ![h].due = t.due]
  BY <1>1, BookkeepingSteps DEF Load
<1>3. /\ handler[h].at = "load"
      /\ UNCHANGED <<crossed, event, paid, status, outbox, session, unchecked, recent>>
      /\ \A g \in Slot \ {h} : handler'[g] = handler[g]
      /\ handler'[h].msg = m /\ handler'[h].rows = handler[h].rows /\ handler'[h].s = t.s
      /\ handler'[h].at = IF t.create THEN "place" ELSE "save"
  BY <1>1, <1>2 DEF Load, At, TypeOK, turnVars, payVars, Handler
<1>4. /\ t.s.lastOrder = session.lastOrder
      /\ t.create => session.state = "CONFIRM"
      /\ t.s.state \in {"CONFIRM", "DEPOT"} => session.state \in {"CONFIRM", "DEPOT"}
      /\ t.s.state = "EXPECTED_PAYMENT" => session.state = "EXPECTED_PAYMENT"
  <2>1. session.state \in State /\ session \in Session
    BY DEF TypeOK, Session
  <2>2. \/ t = Turn(session, "CONFIRM", 1, TRUE) /\ session.state = "CONFIRM"
        \/ t = Turn(session, "DEPOT", Several, FALSE) /\ session.state = "CONFIRM"
        \/ \E st \in {session.state, "MENU"} : t = Turn(session, st, 1, FALSE)
        \/ t = Turn(session, "CONFIRM", 1, FALSE) /\ session.state = "DEPOT"
    BY DEF Reduce, Moves
  <2>3. CASE t = Turn(session, "CONFIRM", 1, TRUE) /\ session.state = "CONFIRM"
    <3>1. t.s.lastOrder = session.lastOrder /\ t.s.state = "CONFIRM"
      BY <2>1, <2>3 DEF Turn, Session
    <3> QED
      BY <2>3, <3>1
  <2>4. CASE t = Turn(session, "DEPOT", Several, FALSE) /\ session.state = "CONFIRM"
    <3>1. t.s.lastOrder = session.lastOrder /\ t.s.state = "DEPOT"
      BY <2>1, <2>4 DEF Turn, Session
    <3> QED
      BY <2>4, <3>1
  <2>5. ASSUME NEW st \in {session.state, "MENU"}, t = Turn(session, st, 1, FALSE)
        PROVE  /\ t.s.lastOrder = session.lastOrder /\ ~t.create
               /\ t.s.state \in {"CONFIRM", "DEPOT"} => session.state \in {"CONFIRM", "DEPOT"}
               /\ t.s.state = "EXPECTED_PAYMENT" => session.state = "EXPECTED_PAYMENT"
    <3>1. t.s.lastOrder = session.lastOrder /\ t.s.state = st
      BY <2>1, <2>5 DEF Turn, Session
    <3>2. ~t.create
      BY <2>5 DEF Turn
    <3> QED
      BY <3>1, <3>2
  <2>6. CASE t = Turn(session, "CONFIRM", 1, FALSE) /\ session.state = "DEPOT"
    <3>1. t.s.lastOrder = session.lastOrder /\ t.s.state = "CONFIRM"
      BY <2>1, <2>6 DEF Turn, Session
    <3>2. ~t.create
      BY <2>6 DEF Turn
    <3> QED
      BY <2>6, <3>1, <3>2
  <2> QED
    BY <2>2, <2>3, <2>4, <2>5, <2>6
<1>5. m \notin crossed => TurnFits(h, m)'
  BY <1>1, <1>3, <1>4 DEF TurnFits, AllRows, Turning, TurnInv, CartFits, CartNew
<1>6. CartNew(session) /\ (handler'[h].at = "place" => t.s.lastOrder = NoOrder) /\ CartNew(t.s)
  BY <1>3, <1>4 DEF TurnInv, CartFits, CartNew
<1>7. \A o \in Msg : Awaits(t.s, o) => Awaits(session, o)
  BY <1>4 DEF Awaits
<1> QED
  BY <1>1, <1>3, <1>5, <1>6, <1>7, KeptAwait, TurnGoesOn DEF Numbered, AllArmed

(* placeOrder's answer.                                                    *)
LEMMA AnswerFields ==
  ASSUME TypeOK, NEW h \in Slot, NEW o \in Msg, Answered(h, o)
  PROVE  /\ handler'[h].at = "save" /\ handler'[h].msg = handler[h].msg
         /\ handler'[h].rows = handler[h].rows
         /\ handler'[h].s.lastOrder = o
         /\ handler'[h].s.state = IF paid[o] THEN "MENU" ELSE "EXPECTED_PAYMENT"
         /\ \A g \in Slot \ {h} : handler'[g] = handler[g]
<1>1. handler[h] \in Handler /\ handler[h].s \in Session
  BY DEF TypeOK, Handler
<1>2. PICK c : c = Created(handler[h].s, o)
  OBVIOUS
<1>3. c.lastOrder = o /\ c.state = IF paid[o] THEN "MENU" ELSE "EXPECTED_PAYMENT"
  BY <1>1, <1>2 DEF Created, Session
<1>4. handler' = [handler EXCEPT ![h] = [handler[h] EXCEPT !.at = "save", !.due = Several, !.s = c]]
  BY <1>2, BookkeepingSteps DEF Answered, TypeOK
<1>5. handler'[h] = [handler[h] EXCEPT !.at = "save", !.due = Several, !.s = c]
  BY <1>4 DEF TypeOK
<1>6. handler'[h].at = "save" /\ handler'[h].msg = handler[h].msg
      /\ handler'[h].rows = handler[h].rows /\ handler'[h].s = c
  BY <1>1, <1>5 DEF Handler
<1> QED
  BY <1>3, <1>4, <1>6 DEF TypeOK

LEMMA PlaceGoesOn ==
  ASSUME PipelineAssumption, TypeOK, LiveHasMsg, TurnInv, NEW h \in Slot, Place(h)
  PROVE  TurnInv'
<1>1. PICK m \in Msg : /\ handler[h].msg = m /\ handler[h] \in Handler /\ outbox[m] \in Seq(Row)
                       /\ m \notin crossed => TurnFits(h, m) /\ Numbered(m)
                       /\ status[m] = "processed" /\ m \notin crossed => AllArmed(m)
  BY LoneTurn DEF Place, At
<1>2. /\ handler[h].at = "place"
      /\ UNCHANGED <<crossed, event, paid, status, outbox, session, recent>>
      /\ CartNew(session) /\ handler[h].s.lastOrder = NoOrder
  BY DEF Place, At, payVars, TurnInv, CartFits
<1>3. ASSUME NEW o \in Msg, Answered(h, o), UNCHANGED unchecked PROVE TurnInv'
  <2>1. /\ handler'[h].at = "save" /\ handler'[h].msg = m /\ handler'[h].rows = handler[h].rows
        /\ handler'[h].s.lastOrder = o
        /\ handler'[h].s.state = IF paid[o] THEN "MENU" ELSE "EXPECTED_PAYMENT"
        /\ \A g \in Slot \ {h} : handler'[g] = handler[g]
    BY <1>1, <1>3, AnswerFields
  <2>2. m \notin crossed => TurnFits(h, m)'
    BY <1>1, <1>2, <2>1 DEF TurnFits, AllRows, Turning
  <2>3. CartNew(handler'[h].s)
    BY <2>1 DEF CartNew
  <2>4. \A p \in Msg : paid[p] => ~Awaits(handler'[h].s, p)
    BY <2>1 DEF Awaits
  <2> QED
    BY <1>1, <1>2, <2>1, <2>2, <2>3, <2>4, KeptAwait, TurnGoesOn DEF Numbered, AllArmed
<1>4. ASSUME Goes(h, "insert"), (unchecked' = unchecked /\ \A o \in Msg : ~recent[o]) \/ unchecked' = unchecked \cup {m}
      PROVE  TurnInv'
  <2>1. /\ handler'[h].at = "insert" /\ handler'[h].msg = m /\ handler'[h].rows = handler[h].rows
        /\ handler'[h].s = handler[h].s
        /\ \A g \in Slot \ {h} : handler'[g] = handler[g]
    BY <1>1, <1>4 DEF Goes, TypeOK, Handler
  <2>2. m \notin crossed => TurnFits(h, m)'
    BY <1>1, <1>2, <1>4, <2>1 DEF TurnFits, AllRows, Turning
  <2> QED
    BY <1>1, <1>2, <2>1, <2>2, KeptAwait, TurnGoesOn DEF Numbered, AllArmed
<1> QED
  BY <1>1, <1>3, <1>4 DEF Place

LEMMA InsertGoesOn ==
  ASSUME PipelineAssumption, TypeOK, LiveHasMsg, TurnInv, NEW h \in Slot, Insert(h)
  PROVE  TurnInv'
<1>1. PICK m \in Msg : /\ handler[h].msg = m /\ handler[h] \in Handler /\ outbox[m] \in Seq(Row)
                       /\ m \notin crossed => TurnFits(h, m) /\ Numbered(m)
                       /\ status[m] = "processed" /\ m \notin crossed => AllArmed(m)
  BY LoneTurn DEF Insert, At
<1>2. /\ handler[h].at = "insert"
      /\ UNCHANGED <<crossed, event, paid, status, outbox, session, unchecked>>
      /\ CartNew(session) /\ Answered(h, m)
  BY <1>1 DEF Insert, At, payVars, TurnInv, CartFits
<1>3. /\ handler'[h].at = "save" /\ handler'[h].msg = m /\ handler'[h].rows = handler[h].rows
      /\ handler'[h].s.lastOrder = m
      /\ handler'[h].s.state = IF paid[m] THEN "MENU" ELSE "EXPECTED_PAYMENT"
      /\ \A g \in Slot \ {h} : handler'[g] = handler[g]
  BY <1>1, <1>2, AnswerFields
<1>4. m \notin crossed => TurnFits(h, m)'
  BY <1>1, <1>2, <1>3 DEF TurnFits, AllRows, Turning
<1>5. CartNew(handler'[h].s)
  BY <1>3 DEF CartNew
<1>6. \A p \in Msg : paid[p] => ~Awaits(handler'[h].s, p)
  BY <1>3 DEF Awaits
<1> QED
  BY <1>1, <1>2, <1>3, <1>4, <1>5, <1>6, KeptAwait, TurnGoesOn DEF Numbered, AllArmed

LEMMA RefuseGoesOn ==
  ASSUME PipelineAssumption, TypeOK, LiveHasMsg, TurnInv, NEW h \in Slot, Refuse(h)
  PROVE  TurnInv'
<1>1. PICK m \in Msg : /\ handler[h].msg = m /\ handler[h] \in Handler /\ outbox[m] \in Seq(Row)
                       /\ m \notin crossed => TurnFits(h, m) /\ Numbered(m)
                       /\ status[m] = "processed" /\ m \notin crossed => AllArmed(m)
  BY LoneTurn DEF Refuse, At
<1>2. PICK s \in Failed(handler[h].s) :
        handler' = [handler EXCEPT ![h].at = "save", ![h].due = Several, ![h].s = s]
  BY BookkeepingSteps DEF Refuse
<1>3. s.state # "EXPECTED_PAYMENT" /\ s.lastOrder = NoOrder
  <2>1. handler[h].s \in Session /\ handler[h].s.lastOrder = NoOrder
    BY DEF Refuse, At, TurnInv, CartFits, TypeOK, Handler
  <2> QED
    BY <2>1 DEF Failed, Session
<1>4. /\ handler[h].at \in {"place", "insert"}
      /\ UNCHANGED <<crossed, event, paid, status, outbox, session, unchecked, recent>>
      /\ \A g \in Slot \ {h} : handler'[g] = handler[g]
      /\ handler'[h].msg = m /\ handler'[h].rows = handler[h].rows /\ handler'[h].s = s
      /\ handler'[h].at = "save" /\ CartNew(session)
  BY <1>1, <1>2 DEF Refuse, At, TypeOK, turnVars, payVars, Handler, TurnInv, CartFits
<1>5. m \notin crossed => TurnFits(h, m)'
  BY <1>1, <1>4 DEF TurnFits, AllRows, Turning
<1>6. CartNew(s) /\ \A o \in Msg : ~Awaits(s, o)
  BY <1>3 DEF CartNew, Awaits
<1> QED
  BY <1>1, <1>4, <1>5, <1>6, KeptAwait, TurnGoesOn DEF Numbered, AllArmed

LEMMA SaveGoesOn ==
  ASSUME PipelineAssumption, TypeOK, LiveHasMsg, TurnInv, NEW h \in Slot, Save(h)
  PROVE  TurnInv'
<1>1. PICK m \in Msg : /\ handler[h].msg = m /\ handler[h] \in Handler /\ outbox[m] \in Seq(Row)
                       /\ m \notin crossed => TurnFits(h, m) /\ Numbered(m)
                       /\ status[m] = "processed" /\ m \notin crossed => AllArmed(m)
  BY LoneTurn DEF Save, At
<1>2. /\ handler[h].at = "save"
      /\ UNCHANGED <<crossed, event, paid, status, outbox, unchecked, recent>>
      /\ session' = handler[h].s
      /\ \A g \in Slot \ {h} : handler'[g] = handler[g]
      /\ handler'[h].msg = m /\ handler'[h].rows = handler[h].rows
      /\ handler'[h].at = "reply"
  BY <1>1, BookkeepingSteps DEF Save, At, TypeOK, payVars, Handler
<1>3. m \notin crossed => TurnFits(h, m)'
  BY <1>1, <1>2 DEF TurnFits, AllRows, Turning
<1>4. CartNew(session')
  BY <1>2 DEF TurnInv, CartFits
<1> QED
  BY <1>1, <1>2, <1>3, <1>4, KeptAwait, TurnGoesOn DEF Numbered, AllArmed

LEMMA ReplyGoesOn ==
  ASSUME PipelineAssumption, TypeOK, LiveHasMsg, TurnInv, NEW h \in Slot, Reply(h)
  PROVE  TurnInv'
<1>1. PICK m \in Msg : /\ handler[h].msg = m /\ handler[h] \in Handler /\ outbox[m] \in Seq(Row)
                       /\ m \notin crossed => TurnFits(h, m) /\ Numbered(m)
                       /\ status[m] = "processed" /\ m \notin crossed => AllArmed(m)
  BY LoneTurn DEF Reply, At
<1>2. PICK L \in Nat : L = Len(outbox[m]) /\ DOMAIN outbox[m] = 1..L
  BY <1>1, LenProperties
<1>3. PICK rows \in Seq(Nat) : rows = handler[h].rows
  BY <1>1 DEF Handler
<1> DEFINE said == Len(rows) + 1
           new == [part |-> said, armed |-> FALSE]
           more == Append(rows, L + 1)
<1>4. /\ handler[h].at = "reply"
      /\ UNCHANGED <<crossed, event, paid, status, session, unchecked, recent>>
      /\ outbox' = [outbox EXCEPT ![m] = Append(outbox[m], new)]
  BY <1>1, <1>3 DEF Reply, At, Record, TypeOK, payVars
<1>5. /\ \A g \in Slot \ {h} : handler'[g] = handler[g]
      /\ handler'[h].msg = m /\ handler'[h].rows = more
      /\ handler'[h].at \in {"reply", "send"}
  <2>1. PICK b \in BOOLEAN : b = (said = handler[h].due)
    OBVIOUS
  <2>2. handler' = [handler EXCEPT ![h].rows = Append(@, L + 1), ![h].at = IF b THEN "send" ELSE "reply",
                                   ![h].due = IF b THEN 0 ELSE @]
    BY <1>1, <1>2, <1>3, <2>1, BookkeepingSteps DEF Reply
  <2>3. handler' = [handler EXCEPT ![h] = [handler[h] EXCEPT !.rows = more, !.at = IF b THEN "send" ELSE "reply",
                                                             !.due = IF b THEN 0 ELSE handler[h].due]]
    BY <1>3, <2>2 DEF TypeOK
  <2>4. handler'[h] = [handler[h] EXCEPT !.rows = more, !.at = IF b THEN "send" ELSE "reply",
                                         !.due = IF b THEN 0 ELSE handler[h].due]
    BY <2>3 DEF TypeOK
  <2> HIDE DEF more
  <2>5. handler'[h].msg = m /\ handler'[h].rows = more /\ handler'[h].at \in {"reply", "send"}
    BY <1>1, <2>4 DEF Handler
  <2> QED
    BY <2>3, <2>5 DEF TypeOK
<1>6. outbox'[m] = Append(outbox[m], new) /\ \A k \in Msg \ {m} : outbox'[k] = outbox[k]
  BY <1>4 DEF TypeOK
<1>7. ASSUME m \notin crossed PROVE TurnFits(h, m)' /\ Numbered(m)' /\ status'[m] # "processed"
  <2>1. rows = AllRows(m) /\ status[m] # "processed" /\ Numbered(m)
    BY <1>1, <1>3, <1>4, <1>7 DEF TurnFits, Turning
  <2>2. Len(rows) = L
    <3>1. DOMAIN rows = 1..L
      BY <1>2, <2>1 DEF AllRows
    <3> QED
      BY <3>1, <1>2, LenProperties
  <2>3. new \in Row /\ said = L + 1
    BY <2>2 DEF Row
  <2> HIDE DEF new, said
  <2>4. /\ DOMAIN outbox'[m] = 1..L + 1
        /\ outbox'[m][L + 1] = new
        /\ \A i \in 1..L : outbox'[m][i] = outbox[m][i]
    BY <1>1, <1>2, <1>6, <2>3, AppendProperties
  <2>5. DOMAIN more = 1..L + 1 /\ more[L + 1] = L + 1 /\ \A i \in 1..L : more[i] = rows[i]
    <3>1. L + 1 \in Nat
      OBVIOUS
    <3> QED
      BY <2>2, <3>1, AppendProperties, LenProperties
  <2>6. \A i \in 1..L + 1 : more[i] = i
    <3>1. \A i \in 1..L : rows[i] = i
      BY <1>2, <2>1 DEF AllRows
    <3> QED
      BY <2>5, <3>1
  <2>7. \E S : more \in [1..L + 1 -> S]
    <3>1. L + 1 \in Nat
      OBVIOUS
    <3>2. more \in Seq(Nat) /\ Len(more) = L + 1
      BY <2>2, <3>1, AppendProperties
    <3> QED
      BY <3>2, LenProperties
  <2>8. more = AllRows(m)'
    <3> HIDE DEF more
    <3> QED
      BY <2>4, <2>6, <2>7 DEF AllRows
  <2>9. new.part = L + 1
    BY <2>3 DEF new
  <2>10. Numbered(m)'
    <3>1. \A i \in 1..L : outbox[m][i].part = i
      BY <1>2, <2>1 DEF Numbered
    <3>2. \A i \in 1..L + 1 : outbox'[m][i].part = i
      BY <2>4, <2>9, <3>1
    <3> QED
      BY <2>4, <3>2 DEF Numbered
  <2>11. TurnFits(h, m)'
    <3> HIDE DEF more
    <3> QED
      BY <1>4, <1>5, <2>1, <2>8 DEF TurnFits, Turning
  <2> QED
    BY <1>4, <2>1, <2>10, <2>11
<1>8. CartNew(session')
  BY <1>4 DEF TurnInv, CartFits
<1> HIDE DEF more, new, said
<1> QED
  BY <1>1, <1>4, <1>5, <1>6, <1>7, <1>8, KeptAwait, TurnGoesOn

(* Arming all of a message's rows.                                         *)
LEMMA ArmedAll ==
  ASSUME TypeOK, NEW m \in Msg, Arm(m, AllRows(m)), outbox[m] \in Seq(Row)
  PROVE  AllArmed(m)' /\ (Numbered(m) => Numbered(m)')
<1>1. outbox' = [outbox EXCEPT ![m] =
         [i \in DOMAIN outbox[m] |-> IF i \in Range(AllRows(m)) THEN [outbox[m][i] EXCEPT !.armed = TRUE]
                                                                 ELSE outbox[m][i]]]
  BY DEF Arm
<1>2. \A i \in DOMAIN outbox[m] : i \in Range(AllRows(m)) /\ outbox[m][i] \in Row
  BY ElementOfSeq, LenProperties DEF Range, AllRows
<1>3. outbox'[m] = [i \in DOMAIN outbox[m] |-> [outbox[m][i] EXCEPT !.armed = TRUE]]
  BY <1>1, <1>2 DEF TypeOK
<1>4. ASSUME NEW i \in DOMAIN outbox[m]
      PROVE  outbox'[m][i].armed /\ outbox'[m][i].part = outbox[m][i].part
  BY <1>2, <1>3 DEF Row
<1> QED
  BY <1>3, <1>4 DEF AllArmed, Numbered

LEMMA ArmGoesOn ==
  ASSUME PipelineAssumption, TypeOK, LiveHasMsg, TurnInv, NEW h \in Slot, Rearm(h) \/ Send(h)
  PROVE  TurnInv'
<1>1. PICK m \in Msg : /\ handler[h].msg = m /\ handler[h] \in Handler /\ outbox[m] \in Seq(Row)
                       /\ m \notin crossed => TurnFits(h, m) /\ Numbered(m)
                       /\ status[m] = "processed" /\ m \notin crossed => AllArmed(m)
  BY LoneTurn DEF Rearm, Send, At
<1>2. /\ handler[h].at \in {"rearm", "send"}
      /\ UNCHANGED <<crossed, event, paid, status, session, unchecked, recent>>
      /\ Arm(m, handler[h].rows)
      /\ ForgetRows(h, "close")
  BY <1>1, BookkeepingSteps DEF Rearm, Send, At, payVars
<1>3. /\ \A g \in Slot \ {h} : handler'[g] = handler[g]
      /\ handler'[h].msg = m /\ handler'[h].at = "close"
      /\ \A k \in Msg \ {m} : outbox'[k] = outbox[k]
  BY <1>1, <1>2 DEF ForgetRows, Arm, TypeOK, Handler
<1>4. ASSUME m \notin crossed PROVE TurnFits(h, m)' /\ Numbered(m)' /\ AllArmed(m)'
  <2>1. handler[h].rows = AllRows(m) /\ Numbered(m) /\ status[m] # "processed"
    BY <1>1, <1>2, <1>4 DEF TurnFits, Turning
  <2>2. AllArmed(m)' /\ Numbered(m)'
    BY <1>1, <1>2, <2>1, ArmedAll
  <2> QED
    BY <1>2, <1>3, <2>1, <2>2 DEF TurnFits, Turning
<1>5. CartNew(session')
  BY <1>2 DEF TurnInv, CartFits
<1> QED
  BY <1>1, <1>2, <1>3, <1>4, <1>5, KeptAwait, TurnGoesOn

LEMMA CloseGoesOn ==
  ASSUME PipelineAssumption, TypeOK, LiveHasMsg, TurnInv, NEW h \in Slot, Close(h)
  PROVE  TurnInv'
<1>1. PICK m \in Msg : /\ handler[h].msg = m /\ handler[h] \in Handler /\ outbox[m] \in Seq(Row)
                       /\ m \notin crossed => TurnFits(h, m) /\ Numbered(m)
                       /\ status[m] = "processed" /\ m \notin crossed => AllArmed(m)
  BY LoneTurn DEF Close, At
<1>2. /\ handler[h].at = "close"
      /\ UNCHANGED <<crossed, event, paid, outbox, session, unchecked, recent>>
      /\ status' = [status EXCEPT ![m] = "processed"]
      /\ handler' = [handler EXCEPT ![h] = Idle]
  BY <1>1 DEF Close, At, payVars, turnVars, CloseAs, Finish
<1>3. /\ \A g \in Slot \ {h} : handler'[g] = handler[g]
      /\ handler'[h].at = "idle"
      /\ \A k \in Msg \ {m} : status'[k] = status[k]
  BY <1>2 DEF TypeOK, Idle
<1>4. m \notin crossed => Numbered(m)' /\ AllArmed(m)'
  BY <1>1, <1>2 DEF TurnFits, Numbered, AllArmed
<1>5. CartNew(session')
  BY <1>2 DEF TurnInv, CartFits
<1> QED
  BY <1>1, <1>2, <1>3, <1>4, <1>5, KeptAwait, TurnGoesOn

LEMMA FindGoesOn ==
  ASSUME PipelineAssumption, TypeOK, LiveHasMsg, TurnInv, NEW h \in Slot, Find(h)
  PROVE  TurnInv'
<1>1. PICK m \in Msg : /\ handler[h].msg = m /\ handler[h] \in Handler /\ outbox[m] \in Seq(Row)
                       /\ m \notin crossed => TurnFits(h, m) /\ Numbered(m)
                       /\ status[m] = "processed" /\ m \notin crossed => AllArmed(m)
  BY LoneTurn DEF Find, At
<1>2. handler[h].at = "find" /\ UNCHANGED <<crossed, event, paid, outbox, session, unchecked, recent>>
  BY DEF Find, At, payVars, turnVars
<1>3. CASE Finish(h)
  <2>1. \A g \in Slot : handler'[g] = handler[g] \/ handler'[g].at = "idle"
    BY <1>3 DEF Finish, TypeOK, Idle
  <2>2. \A k \in Msg : status'[k] = "processed" => status[k] = "processed"
    BY DEF Find, CloseAs, TypeOK
  <2>3. \A o \in Msg : paid[o] \/ event'[o].at = "ready" => paid'[o]
    BY <1>2 DEF TurnInv, PaidFits
  <2> QED
    BY <1>2, <2>1, <2>2, <2>3, TurnsKept
<1>4. CASE Goes(h, "guard") /\ status[m] = "received" /\ UNCHANGED status
  <2>1. /\ handler'[h].at = "guard" /\ handler'[h].msg = m
        /\ \A g \in Slot \ {h} : handler'[g] = handler[g]
    BY <1>1, <1>4 DEF Goes, TypeOK, Handler
  <2>2. TurnFits(h, m)'
    BY <1>4, <2>1 DEF TurnFits, Turning
  <2>3. m \notin crossed => Numbered(m)'
    BY <1>1, <1>2 DEF Numbered
  <2>4. CartNew(session')
    BY <1>2 DEF TurnInv, CartFits
  <2> QED
    BY <1>1, <1>2, <1>4, <2>1, <2>2, <2>3, <2>4, KeptAwait, TurnGoesOn
<1> QED
  BY <1>1, <1>3, <1>4 DEF Find

(* A handler that starts where another or an event is at work crosses      *)
(* with it, and so does an event.                                          *)
LEMMA FetchCrosses ==
  ASSUME PipelineAssumption, TypeOK, LiveHasMsg, TurnInv, NEW h \in Slot, Fetch(h)
  PROVE  TurnInv'
<1> DEFINE company == {handler[g].msg : g \in Live} \cup EventsLive
<1>1. /\ UNCHANGED <<status, outbox, session, recent, unchecked, paid, event>>
      /\ handler[h].at = "idle"
      /\ crossed \subseteq crossed'
      /\ company # {} => company \cup {jobs[Oldest].msg} \subseteq crossed'
  BY DEF Fetch, At, turnVars, payVars
<1>2. /\ \A g \in Slot \ {h} : handler'[g] = handler[g]
      /\ handler'[h].at = "find" /\ handler'[h].msg = jobs[Oldest].msg
  BY DEF Fetch, TypeOK, Idle
<1>3. Live' = Live \cup {h} /\ h \notin Live /\ EventsLive' = EventsLive
  BY <1>1, <1>2 DEF Live, At, EventsLive
<1>4. company = {} => Live = {} /\ EventsLive = {}
  OBVIOUS
<1>5. company # {} => /\ \A g \in Live' : handler'[g].msg \in crossed'
                      /\ \A o \in EventsLive' : o \in crossed'
  <2>1. \A g \in Live : handler[g].msg \in company /\ handler'[g].msg = handler[g].msg
    BY <1>2, <1>3 DEF Live
  <2>2. EventsLive \subseteq company
    OBVIOUS
  <2> HIDE DEF company
  <2> QED
    BY <1>1, <1>2, <1>3, <2>1, <2>2
<1> HIDE DEF company
<1>6. Alone'
  BY <1>3, <1>4, <1>5 DEF Alone
<1>7. TurnsFit'
  <2> SUFFICES ASSUME NEW g \in Live', NEW m \in Msg, handler'[g].msg = m, m \notin crossed'
               PROVE  TurnFits(g, m)'
    BY DEF TurnsFit
  <2>1. g = h
    BY <1>3, <1>4, <1>5
  <2> QED
    BY <1>2, <2>1 DEF TurnFits, Turning
<1>8. RowsFit'
  BY <1>1 DEF TurnInv, RowsFit, Numbered, AllArmed
<1>9. CartFits'
  BY <1>1, <1>2 DEF TurnInv, CartFits, CartNew
<1>10. PaidFits'
  BY <1>1, <1>2 DEF TurnInv, PaidFits, Awaits
<1> QED
  BY <1>6, <1>7, <1>8, <1>9, <1>10 DEF TurnInv

LEMMA EventLoadsCrosses ==
  ASSUME PipelineAssumption, TypeOK, LiveHasMsg, TurnInv, NEW o \in Msg, EventLoads(o)
  PROVE  TurnInv'
<1> DEFINE company == {handler[g].msg : g \in Live}
<1>1. /\ UNCHANGED <<status, outbox, session, recent, unchecked, paid, handler>>
      /\ event[o].at = "ready" /\ EventsLive = {}
      /\ crossed \subseteq crossed'
      /\ company # {} => company \cup {o} \subseteq crossed'
  BY DEF EventLoads, turnVars, queueVars
<1>2. /\ \A p \in Msg \ {o} : event'[p] = event[p]
      /\ event'[o].at = "save" /\ event'[o].s.state = "MENU"
  <2>1. PaidSession(session).state = "MENU"
    BY DEF PaidSession, TypeOK, Session
  <2>2. event[o] \in Event
    BY DEF TypeOK
  <2>3. PICK s : s = PaidSession(session)
    OBVIOUS
  <2>4. event' = [event EXCEPT ![o].at = "save", ![o].s = s]
    BY <2>3 DEF EventLoads
  <2> QED
    BY <2>1, <2>2, <2>3, <2>4 DEF TypeOK, Event
<1>3. Live' = Live /\ EventsLive' = {o}
  BY <1>1, <1>2 DEF Live, At, EventsLive
<1>4. company = {} => Live = {}
  OBVIOUS
<1>5. company # {} => o \in crossed' /\ \A g \in Live' : handler'[g].msg \in crossed'
  <2>1. \A g \in Live : handler[g].msg \in company
    OBVIOUS
  <2> HIDE DEF company
  <2> QED
    BY <1>1, <1>3, <2>1
<1> HIDE DEF company
<1>6. Alone'
  BY <1>3, <1>4, <1>5 DEF Alone
<1>7. TurnsFit'
  BY <1>3, <1>4, <1>5 DEF TurnsFit
<1>8. RowsFit'
  BY <1>1 DEF TurnInv, RowsFit, Numbered, AllArmed
<1>9. CartFits'
  BY <1>1 DEF TurnInv, CartFits, CartNew
<1>10. PaidFits'
  <2> SUFFICES ASSUME NEW p \in Msg
               PROVE  /\ event'[p].at # "none" => paid'[p]
                      /\ event'[p].at = "save" => event'[p].s.state = "MENU"
                      /\ p \notin crossed' /\ event'[p].at \in {"reply", "send", "done"} => ~Awaits(session', p)
                      /\ p \notin crossed' /\ event'[p].at = "done"
                           => \A g \in Slot : handler'[g].at = "save" => ~Awaits(handler'[g].s, p)
    BY DEF PaidFits, Awaits
  <2>1. CASE p = o
    BY <1>1, <1>2, <2>1 DEF TurnInv, PaidFits
  <2>2. CASE p # o
    BY <1>1, <1>2, <2>2 DEF TurnInv, PaidFits
  <2> QED
    BY <2>1, <2>2
<1> QED
  BY <1>6, <1>7, <1>8, <1>9, <1>10 DEF TurnInv

LEMMA EventGoesOn ==
  ASSUME PipelineAssumption, TypeOK, LiveHasMsg, TurnInv, NEW o \in Msg,
         EventSaves(o) \/ EventReplies(o) \/ EventSends(o)
  PROVE  TurnInv'
<1>1. /\ UNCHANGED <<status, recent, unchecked, paid, handler, crossed>>
      /\ event[o].at \in {"save", "reply", "send"}
      /\ session' = IF event[o].at = "save" THEN event[o].s ELSE session
      /\ event'[o].at = IF event[o].at = "save" THEN "reply" ELSE IF event[o].at = "reply" THEN "send" ELSE "done"
      /\ \A p \in Msg \ {o} : event'[p] = event[p]
  <2>1. event[o] \in Event
    BY DEF TypeOK
  <2>2. CASE EventSaves(o)
    BY <2>1, <2>2 DEF EventSaves, queueVars, TypeOK, Event
  <2>3. CASE EventReplies(o)
    <3>1. event' = [event EXCEPT ![o].at = "send", ![o].row = Len(outbox[NoMsg]) + 1]
      BY <2>3 DEF EventReplies
    <3>2. PICK n : n = Len(outbox[NoMsg]) + 1
      OBVIOUS
    <3>3. event' = [event EXCEPT ![o].at = "send", ![o].row = n]
      BY <3>1, <3>2
    <3>4. event'[o].at = "send" /\ \A p \in Msg \ {o} : event'[p] = event[p]
      BY <2>1, <3>3 DEF TypeOK, Event
    <3> QED
      BY <2>3, <3>4 DEF EventReplies, queueVars
  <2>4. CASE EventSends(o)
    BY <2>1, <2>4 DEF EventSends, queueVars, TypeOK, Event
  <2> QED
    BY <2>2, <2>3, <2>4
<1>2. \A k \in Msg : outbox'[k] = outbox[k]
  <2>1. NoMsg \notin Msg
    BY PipelineAssumption DEF Msg, NoMsg
  <2> QED
    BY <2>1 DEF EventSaves, EventReplies, EventSends, Record, Arm, TypeOK
<1>3. o \in EventsLive
  BY <1>1 DEF EventsLive
<1>4. \A h \in Live : handler[h].msg \in crossed
  BY <1>3 DEF TurnInv, Alone
<1>5. Alone'
  BY <1>1, AloneKept DEF TurnInv
<1>6. TurnsFit'
  <2>1. Live' = Live /\ \A h \in Live : handler'[h].msg \in crossed'
    BY <1>1, <1>4 DEF Live, At
  <2> QED
    BY <2>1 DEF TurnsFit
<1>7. RowsFit'
  BY <1>1, <1>2 DEF TurnInv, RowsFit, Numbered, AllArmed
<1>8. event[o].at = "save" => session'.state = "MENU"
  BY <1>1 DEF TurnInv, PaidFits
<1>9. CartFits'
  BY <1>1, <1>8 DEF TurnInv, CartFits, CartNew
<1>10. PaidFits'
  <2> SUFFICES ASSUME NEW p \in Msg
               PROVE  /\ event'[p].at # "none" => paid'[p]
                      /\ event'[p].at = "save" => event'[p].s.state = "MENU"
                      /\ p \notin crossed' /\ event'[p].at \in {"reply", "send", "done"} => ~Awaits(session', p)
                      /\ p \notin crossed' /\ event'[p].at = "done"
                           => \A g \in Slot : handler'[g].at = "save" => ~Awaits(handler'[g].s, p)
    BY DEF PaidFits, Awaits
  <2>1. /\ event[p].at # "none" => paid[p]
        /\ event[p].at = "save" => event[p].s.state = "MENU"
        /\ p \notin crossed /\ event[p].at \in {"reply", "send", "done"} => ~Awaits(session, p)
        /\ p \notin crossed /\ event[p].at = "done"
             => \A h \in Slot : handler[h].at = "save" => ~Awaits(handler[h].s, p)
    BY DEF TurnInv, PaidFits
  <2>2. Awaits(session', p) => Awaits(session, p) /\ event[o].at # "save"
    BY <1>1, <1>8 DEF Awaits
  <2>3. p = o /\ p \notin crossed => \A h \in Slot : handler[h].at # "save"
    <3>1. p = o /\ p \notin crossed => Live = {}
      BY <1>3 DEF TurnInv, Alone
    <3> QED
      BY <3>1 DEF Live, At
  <2> QED
    BY <1>1, <2>1, <2>2, <2>3
<1> QED
  BY <1>5, <1>6, <1>7, <1>9, <1>10 DEF TurnInv

LEMMA StepTurns == PipelineAssumption /\ TypeInv /\ TurnInv /\ [Next]_vars => TurnInv'
<1> SUFFICES ASSUME PipelineAssumption, TypeOK, LiveHasMsg, TurnInv, [Next]_vars PROVE TurnInv'
  BY DEF TypeInv
<1>0. \A o \in Msg : event[o].at # "none" => paid[o]
  BY DEF TurnInv, PaidFits
<1>1. ASSUME NEW m \in Msg, Webhook(m) \/ Janitor(m) \/ Ages(m) PROVE TurnInv'
  <2>1. UNCHANGED <<session, crossed, unchecked, handler, outbox, recent, event, paid>>
    BY <1>1 DEF Webhook, RecordInbound, HookQueues, HookSkips, HookDies, Janitor, Ages,
                queueVars, turnVars, payVars
  <2>2. \A k \in Msg : status'[k] = "processed" => status[k] = "processed"
    BY <1>1 DEF Webhook, RecordInbound, HookQueues, HookSkips, HookDies, Janitor, Ages, CloseAs, TypeOK
  <2> QED
    BY <1>0, <2>1, <2>2, TurnsKept
<1>2. ASSUME NEW h \in Slot, Fail(h) \/ Expire(h) PROVE TurnInv'
  <2>1. UNCHANGED <<session, crossed, unchecked, status, outbox, recent, event, paid>>
    BY <1>2 DEF Fail, Expire, turnVars, payVars
  <2>2. \A g \in Slot : handler'[g] = handler[g] \/ handler'[g].at = "idle"
    BY <1>2 DEF Fail, Expire, TypeOK, Idle
  <2> QED
    BY <1>0, <2>1, <2>2, TurnsKept
<1>3. ASSUME NEW i \in DOMAIN jobs, DelayOver(i) PROVE TurnInv'
  <2>1. UNCHANGED <<session, crossed, unchecked, status, outbox, recent, event, paid, handler>>
    BY <1>3 DEF DelayOver, turnVars, payVars
  <2> QED
    BY <1>0, <2>1, TurnsKept
<1>4. ASSUME NEW o \in Msg, WindowPasses(o) PROVE TurnInv'
  <2>1. UNCHANGED <<session, crossed, unchecked, status, outbox, event, paid, handler>>
    BY <1>4 DEF WindowPasses, queueVars, payVars
  <2>2. \A p \in Msg : recent'[p] => recent[p]
    BY <1>4 DEF WindowPasses, TypeOK
  <2> QED
    BY <1>0, <2>1, <2>2, TurnsKept
<1>5. ASSUME NEW o \in Msg, PaymentConfirmed(o) PROVE TurnInv'
  <2>1. UNCHANGED <<session, crossed, unchecked, status, outbox, handler, recent>>
    BY <1>5 DEF PaymentConfirmed, queueVars, turnVars
  <2>2. \A p \in Msg : event'[p] = event[p] \/ (p = o /\ event'[p].at = "ready")
    BY <1>5 DEF PaymentConfirmed, TypeOK, Event
  <2>3. \A p \in Msg : paid[p] \/ event'[p].at = "ready" => paid'[p]
    BY <1>0, <1>5, <2>2 DEF PaymentConfirmed, TypeOK
  <2> QED
    BY <2>1, <2>2, <2>3, TurnsKept
<1>6. ASSUME NEW o \in Msg, EventFails(o) PROVE TurnInv'
  <2>1. UNCHANGED <<session, crossed, unchecked, status, outbox, handler, recent, paid>>
    BY <1>6 DEF EventFails, queueVars, turnVars
  <2>2. \A p \in Msg : event'[p] = event[p] \/ (p = o /\ event'[p].at = "ready" /\ event[p].at # "none")
    BY <1>6 DEF EventFails, EventsLive, NoEvent, TypeOK
  <2>3. \A p \in Msg : paid[p] \/ event'[p].at = "ready" => paid'[p]
    BY <1>0, <2>1, <2>2
  <2> QED
    BY <2>1, <2>2, <2>3, TurnsKept
<1>7. CASE UNCHANGED vars
  <2>1. UNCHANGED <<session, crossed, unchecked, status, outbox, handler, recent, event, paid>>
    BY <1>7 DEF vars
  <2> QED
    BY <1>0, <2>1, TurnsKept
<1>8. ASSUME NEW h \in Slot, HandlerStep(h) PROVE TurnInv'
  BY <1>8, FindGoesOn, GuardGoesOn, ArmGoesOn, LoadGoesOn, PlaceGoesOn, InsertGoesOn, RefuseGoesOn,
     SaveGoesOn, ReplyGoesOn, CloseGoesOn DEF HandlerStep
<1>9. ASSUME NEW h \in Slot, Fetch(h) PROVE TurnInv'
  BY <1>9, FetchCrosses
<1>10. ASSUME NEW o \in Msg, EventStepOf(o) PROVE TurnInv'
  BY <1>10, EventLoadsCrosses, EventGoesOn DEF EventStepOf
<1> QED
  BY <1>1, <1>2, <1>3, <1>4, <1>5, <1>6, <1>7, <1>8, <1>9, <1>10 DEF Next

LEMMA InitTurns == PipelineAssumption /\ Init => TurnInv
<1> SUFFICES ASSUME PipelineAssumption, Init PROVE TurnInv
  OBVIOUS
<1>1. Live = {} /\ EventsLive = {}
  BY DEF Init, Live, At, Idle, EventsLive, NoEvent
<1>2. RowsFit
  <2>1. \A m \in Msg : outbox[m] = <<>> /\ DOMAIN outbox[m] = {}
    BY DEF Init
  <2> QED
    BY <2>1 DEF RowsFit, Numbered, AllArmed
<1>3. CartFits
  BY DEF Init, CartFits, CartNew, Fresh, Idle
<1>4. PaidFits
  BY DEF Init, PaidFits, NoEvent
<1> QED
  BY <1>1, <1>2, <1>3, <1>4 DEF TurnInv, Alone, TurnsFit

LEMMA AllTurns == Spec => [](TypeInv /\ TurnInv)
<1>1. Init => TypeInv /\ TurnInv
  BY InitType, InitTurns, PipelineAssumption
<1>2. TypeInv /\ TurnInv /\ [Next]_vars => (TypeInv /\ TurnInv)'
  BY StepType, StepTurns, PipelineAssumption
<1> QED
  BY <1>1, <1>2, PTL DEF Spec

(* The customer hears each reply once: every reply to a processed message  *)
(* has been handed on, no reply is recorded twice, and what is paid is not *)
(* asked for again, as long as no two handlers crossed.                    *)
THEOREM RepliesAreSound == Spec => []RepliesSound
<1>1. TurnInv => RepliesSound
  <2> SUFFICES ASSUME TurnInv PROVE RepliesSound
    OBVIOUS
  <2>1. RowsArmed
    BY DEF TurnInv, RowsFit, RowsArmed, AllArmed
  <2>2. AnsweredOnce
    BY DEF TurnInv, RowsFit, AnsweredOnce, Numbered
  <2>3. PaidNotAwaited
    BY DEF TurnInv, PaidFits, PaidNotAwaited, Awaits
  <2> QED
    BY <2>1, <2>2, <2>3 DEF RepliesSound
<1> QED
  BY <1>1, AllTurns, PTL

LEMMA StepReapplies ==
  ASSUME TypeInv, TurnInv, [Next]_vars, NEW m \in Msg \ crossed, applied'[m] > applied[m]
  PROVE  outbox[m] = <<>>
<1>1. applied'[m] # applied[m]
  <2>1. applied[m] \in Nat
    BY DEF TypeInv, TypeOK
  <2> QED
    BY <2>1
<1>2. PICK h \in Slot : Save(h)
  BY <1>1 DEF Next, vars, Webhook, RecordInbound, HookQueues, HookSkips, HookDies, Janitor, Ages, Fetch,
     HandlerStep, Find, Guard, Rearm, Load, Place, Insert, Refuse, Reply, Send, Close, Fail, Expire, DelayOver,
     WindowPasses, PaymentConfirmed, EventStepOf, EventLoads, EventSaves, EventReplies, EventSends, EventFails,
     turnVars
<1>3. handler[h].msg = m /\ handler[h].at = "save"
  BY <1>1, <1>2 DEF Save, At, TypeInv, TypeOK
<1>4. TurnFits(h, m)
  BY <1>3 DEF TurnInv, TurnsFit, Live, At
<1> QED
  BY <1>3, <1>4 DEF TurnFits

LEMMA StepOrdersAgain ==
  ASSUME PipelineAssumption, TypeInv, TurnInv, [Next]_vars, NEW m \in Msg \ (crossed \cup unchecked),
         orders'[m] > orders[m], NEW o \in Msg
  PROVE  ~recent[o] /\ session.lastOrder # o
<1>1. orders'[m] # orders[m]
  <2>1. orders[m] \in Nat
    BY DEF TypeInv, TypeOK
  <2> QED
    BY <2>1
<1>2. PICK h \in Slot : Insert(h)
  BY <1>1 DEF Next, vars, Webhook, RecordInbound, HookQueues, HookSkips, HookDies, Janitor, Ages, Fetch,
     HandlerStep, Find, Guard, Rearm, Load, Place, Save, Refuse, Reply, Send, Close, Fail, Expire, DelayOver,
     WindowPasses, PaymentConfirmed, EventStepOf, EventLoads, EventSaves, EventReplies, EventSends, EventFails,
     turnVars
<1>3. handler[h].msg = m /\ handler[h].at = "insert"
  BY <1>1, <1>2 DEF Insert, At, TypeInv, TypeOK
<1>4. TurnFits(h, m)
  BY <1>3 DEF TurnInv, TurnsFit, Live, At
<1>5. NoOrder # o
  BY PipelineAssumption DEF Msg, NoOrder
<1> QED
  BY <1>3, <1>4, <1>5 DEF TurnFits

(* A turn that runs again has put no reply on record before, and a second  *)
(* order is placed only when the conversation never learnt of the first    *)
(* and the duplicate window is over.                                       *)
THEOREM NothingHappensTwice == Spec => NothingTwice
<1>1. TypeInv /\ TurnInv /\ [Next]_vars
        => [\A m \in Msg \ crossed : applied[m] > 0 /\ applied'[m] > applied[m] => outbox[m] = <<>>]_vars
  BY StepReapplies
<1>2. TypeInv /\ TurnInv /\ [Next]_vars
        => [\A m \in Msg \ (crossed \cup unchecked) : orders'[m] > orders[m] =>
              \A o \in Msg \ {m} : orders[o] > 0 => ~recent[o] /\ session.lastOrder # o]_vars
  BY StepOrdersAgain, PipelineAssumption
<1>3. Spec => [](TypeInv /\ TurnInv) /\ [][Next]_vars
  BY AllTurns, PTL DEF Spec
<1>4. Spec => ReappliedOnlyUnanswered
  BY <1>1, <1>3, PTL DEF ReappliedOnlyUnanswered
<1>5. Spec => SecondOrderOnlyUnknown
  BY <1>2, <1>3, PTL DEF SecondOrderOnlyUnknown
<1> QED
  BY <1>4, <1>5 DEF NothingTwice

-----------------------------------------------------------------------------
(* What the pipeline promises of a message (WaInbox), step by step.  Who   *)
(* works on a message works on one whose row was recorded: the job was     *)
(* queued after the row, and no row goes.                                  *)
Known     == {m \in Msg : status[m] # "absent"}
JobsOf(S) == {j \in Job : j.msg \in S}
InboxInv  ==
  /\ jobs \in Seq(JobsOf(Known))
  /\ \A h \in Slot : handler[h].at # "idle" => handler[h].msg \in Known
  /\ \A m \in Msg : hook[m] # "none" => m \in Known

InboxSteps == Inbox!Init /\ [][Inbox!Next]_(Inbox!vars)

(* A handler keeps the message it fetched until it is idle.                *)
MsgKept(h) ==
  /\ handler[h].at # "idle" /\ (handler'[h] = Idle \/ handler'[h].msg = handler[h].msg)
  /\ \A g \in Slot \ {h} : handler'[g] = handler[g]

LEMMA HandlerKeepsMsg ==
  ASSUME TypeInv, NEW h \in Slot, HandlerStep(h) \/ Fail(h)
  PROVE  MsgKept(h)
<1>1. handler \in [Slot -> Handler] /\ handler[h] \in Handler
  BY DEF TypeInv, TypeOK
<1>2. CASE Find(h)
  BY <1>1, <1>2 DEF Find, At, Goes, Finish, MsgKept, Handler
<1>3. CASE Guard(h)
  BY <1>1, <1>3 DEF Guard, At, MsgKept, Handler
<1>4. CASE Rearm(h)
  BY <1>1, <1>4 DEF Rearm, At, ForgetRows, MsgKept, Handler
<1>5. CASE Load(h)
  BY <1>1, <1>5 DEF Load, At, MsgKept, Handler
<1>6. CASE Place(h)
  BY <1>1, <1>6 DEF Place, At, Goes, Answered, MsgKept, Handler
<1>7. CASE Insert(h)
  BY <1>1, <1>7 DEF Insert, At, Answered, MsgKept, Handler
<1>8. CASE Refuse(h)
  BY <1>1, <1>8 DEF Refuse, At, MsgKept, Handler
<1>9. CASE Save(h)
  BY <1>1, <1>9 DEF Save, At, MsgKept, Handler
<1>10. CASE Reply(h)
  BY <1>1, <1>10 DEF Reply, At, MsgKept, Handler
<1>11. CASE Send(h)
  BY <1>1, <1>11 DEF Send, At, ForgetRows, MsgKept, Handler
<1>12. CASE Close(h)
  BY <1>1, <1>12 DEF Close, At, Finish, MsgKept, Handler
<1>13. CASE Fail(h)
  BY <1>1, <1>13 DEF Fail, Live, At, MsgKept, Handler
<1> QED
  BY <1>2, <1>3, <1>4, <1>5, <1>6, <1>7, <1>8, <1>9, <1>10, <1>11, <1>12, <1>13 DEF HandlerStep

(* Jobs are of recorded messages, however the queue moves.                 *)
LEMMA ShorterSeq ==
  ASSUME NEW S, NEW q \in Seq(S), NEW i \in 1..Len(q)
  PROVE  RemoveAt(q, i) \in Seq(S)
<1>1. SubSeq(q, 1, i - 1) \in Seq(S)
  BY SubSeqProperties, ElementOfSeq, LenProperties
<1>2. SubSeq(q, i + 1, Len(q)) \in Seq(S)
  BY SubSeqProperties, ElementOfSeq, LenProperties
<1> QED
  BY <1>1, <1>2, ConcatProperties DEF RemoveAt

LEMMA LargerSeq ==
  ASSUME NEW S, NEW T, S \subseteq T, NEW q \in Seq(S)
  PROVE  q \in Seq(T)
<1>1. Len(q) \in Nat /\ q \in [1..Len(q) -> S]
  BY LenProperties, ElementOfSeq
<1>2. q \in [1..Len(q) -> T]
  BY <1>1
<1> QED
  BY <1>1, <1>2, IsASeq

LEMMA QueueOf ==
  ASSUME PipelineAssumption, TypeInv, NEW S, jobs \in Seq(JobsOf(S)), S \subseteq Msg
  PROVE  /\ \A m \in S : Enqueue(m) => jobs' \in Seq(JobsOf(S))
         /\ \A h \in Slot : DropJob(h) \/ ReturnJob(h) => jobs' \in Seq(JobsOf(S))
         /\ \A i \in DOMAIN jobs : jobs[i] \in JobsOf(S)
         /\ \A i \in DOMAIN jobs : \A j \in JobsOf(S) : [jobs EXCEPT ![i] = j] \in Seq(JobsOf(S))
<1>1. ASSUME NEW m \in S, Enqueue(m) PROVE jobs' \in Seq(JobsOf(S))
  <2>1. [msg |-> m, tries |-> 0, state |-> "ready", by |-> NoSlot] \in JobsOf(S)
    BY PipelineAssumption DEF Job, JobState, JobsOf
  <2> QED
    BY <1>1, <2>1, AppendProperties DEF Enqueue
<1>2. \A i \in DOMAIN jobs : jobs[i] \in JobsOf(S) /\ i \in 1..Len(jobs)
  BY ElementOfSeq, LenProperties
<1>3. ASSUME NEW i \in DOMAIN jobs, NEW j \in JobsOf(S) PROVE [jobs EXCEPT ![i] = j] \in Seq(JobsOf(S))
  BY <1>2, ExceptSeq
<1>4. ASSUME NEW h \in Slot, DropJob(h) \/ ReturnJob(h) PROVE jobs' \in Seq(JobsOf(S))
  <2>1. CASE HeldBy(h) = {}
    BY <1>4, <2>1 DEF DropJob, ReturnJob
  <2>2. CASE HeldBy(h) # {}
    <3>1. JobOf(h) \in DOMAIN jobs /\ JobOf(h) \in 1..Len(jobs)
      BY <2>2, <1>2 DEF JobOf, HeldBy
    <3>2. RemoveAt(jobs, JobOf(h)) \in Seq(JobsOf(S))
      BY <3>1, ShorterSeq
    <3>3. CASE jobs[JobOf(h)].tries # RetryLimit
      <4>1. jobs[JobOf(h)] \in Job /\ jobs[JobOf(h)].msg \in S
        BY <1>2, <3>1 DEF JobsOf
      <4>2. jobs[JobOf(h)].tries + 1 \in 0..RetryLimit
        BY <4>1, <3>3, PipelineAssumption DEF Job
      <4>3. Later(jobs[JobOf(h)]) \in Job /\ Later(jobs[JobOf(h)]).msg = jobs[JobOf(h)].msg
        BY <4>1, <4>2 DEF Job, JobState, Later
      <4>4. Return(JobOf(h)) \in Seq(JobsOf(S))
        BY <1>3, <3>1, <4>1, <4>3 DEF Return, JobsOf
      <4> QED
        BY <1>4, <2>2, <3>2, <3>3, <4>4 DEF DropJob, ReturnJob
    <3> QED
      BY <1>4, <2>2, <3>2, <3>3 DEF DropJob, ReturnJob
  <2> QED
    BY <2>1, <2>2
<1> QED
  BY <1>1, <1>2, <1>3, <1>4

(* No row goes, and hooks and queues only work on recorded messages.       *)
LEMMA StepKnown == PipelineAssumption /\ TypeInv /\ InboxInv /\ [Next]_vars => InboxInv'
<1> SUFFICES ASSUME PipelineAssumption, TypeInv, InboxInv, [Next]_vars PROVE InboxInv'
  OBVIOUS
<1>1. /\ status \in [Msg -> {"absent", "received", "processed", "skipped"}]
      /\ hook \in [Msg -> {"none", "queue", "skip"}] /\ handler \in [Slot -> Handler] /\ Known \subseteq Msg
      /\ \A h \in Slot : handler[h].at # "idle" => handler[h].msg \in Known
  BY DEF TypeInv, TypeOK, InboxInv, Known
<1>k. ASSUME Known \subseteq Known', jobs' \in Seq(JobsOf(Known)),
             \A h \in Slot : handler'[h].at # "idle" => handler'[h].msg \in Known,
             \A m \in Msg : hook'[m] # "none" => m \in Known'
      PROVE  InboxInv'
  <2>1. JobsOf(Known) \subseteq JobsOf(Known')
    BY <1>k DEF JobsOf
  <2>2. jobs' \in Seq(JobsOf(Known'))
    BY <1>k, <2>1, LargerSeq
  <2>3. jobs' \in Seq(JobsOf(Known)')
    BY <2>2 DEF JobsOf
  <2> QED
    BY <1>k, <2>3 DEF InboxInv
(* The rows.                                                               *)
<1>s. ASSUME UNCHANGED status PROVE Known' = Known
  BY <1>s DEF Known
<1>r. ASSUME NEW m \in Msg, NEW st \in {"received", "processed", "skipped"}, status' = [status EXCEPT ![m] = st]
      PROVE  Known \subseteq Known' /\ m \in Known'
  BY <1>1, <1>r DEF Known
<1>c. ASSUME NEW m \in Msg, NEW st \in {"processed", "skipped"}, CloseAs(m, st) PROVE Known \subseteq Known'
  BY <1>r, <1>c DEF CloseAs
(* What does not move.                                                     *)
<1>j. ASSUME UNCHANGED jobs PROVE jobs' \in Seq(JobsOf(Known))
  BY <1>j DEF InboxInv
<1>q. /\ \A m \in Known : Enqueue(m) => jobs' \in Seq(JobsOf(Known))
      /\ \A h \in Slot : DropJob(h) \/ ReturnJob(h) => jobs' \in Seq(JobsOf(Known))
      /\ \A i \in DOMAIN jobs : jobs[i] \in JobsOf(Known)
      /\ \A i \in DOMAIN jobs : \A j \in JobsOf(Known) : [jobs EXCEPT ![i] = j] \in Seq(JobsOf(Known))
  BY <1>1, QueueOf DEF InboxInv
<1>h. ASSUME UNCHANGED handler PROVE \A h \in Slot : handler'[h].at # "idle" => handler'[h].msg \in Known
  BY <1>1, <1>h
<1>m. ASSUME NEW h \in Slot, MsgKept(h) PROVE \A g \in Slot : handler'[g].at # "idle" => handler'[g].msg \in Known
  BY <1>1, <1>m DEF MsgKept, Idle
<1>o. ASSUME Known \subseteq Known', \A m \in Msg : hook'[m] # "none" => hook[m] # "none" \/ m \in Known'
      PROVE  \A m \in Msg : hook'[m] # "none" => m \in Known'
  BY <1>o DEF InboxInv
(* The steps.                                                              *)
<1>2. ASSUME NEW m \in Msg, RecordInbound(m) PROVE InboxInv'
  <2>1. Known \subseteq Known' /\ m \in Known'
    BY <1>2, <1>r DEF RecordInbound
  <2>2. \A k \in Msg : hook'[k] # "none" => hook[k] # "none" \/ k \in Known'
    BY <1>1, <1>2, <2>1 DEF RecordInbound
  <2> QED
    BY <1>2, <1>j, <1>h, <1>o, <1>k, <2>1, <2>2 DEF RecordInbound, queueVars
<1>3. ASSUME NEW m \in Msg, HookQueues(m) PROVE InboxInv'
  <2>1. m \in Known /\ Enqueue(m) /\ UNCHANGED <<status, handler>>
    BY <1>3 DEF HookQueues, InboxInv
  <2>2. \A k \in Msg : hook'[k] # "none" => hook[k] # "none" \/ k \in Known'
    BY <1>1, <1>3 DEF HookQueues
  <2> QED
    BY <1>s, <1>q, <1>h, <1>o, <1>k, <2>1, <2>2
<1>4. ASSUME NEW m \in Msg, HookSkips(m) \/ HookDies(m) PROVE InboxInv'
  <2>1. Known \subseteq Known'
    BY <1>4, <1>c, <1>s DEF HookSkips, HookDies
  <2>2. \A k \in Msg : hook'[k] # "none" => hook[k] # "none" \/ k \in Known'
    BY <1>1, <1>4 DEF HookSkips, HookDies
  <2> QED
    BY <1>4, <1>j, <1>h, <1>o, <1>k, <2>1, <2>2 DEF HookSkips, HookDies, queueVars
<1>5. ASSUME NEW m \in Msg, Janitor(m) PROVE InboxInv'
  <2>1. m \in Known /\ Enqueue(m) /\ UNCHANGED <<status, handler, hook>>
    BY <1>5 DEF Janitor, Known
  <2> QED
    BY <1>s, <1>q, <1>h, <1>o, <1>k, <2>1
<1>6. ASSUME NEW h \in Slot, Fetch(h) PROVE InboxInv'
  <2> DEFINE i == Oldest
             j == [jobs[i] EXCEPT !.state = "active", !.by = h]
  <2>1. i \in Ready
    <3>1. Ready \in SUBSET (1..Len(jobs)) /\ Ready # {} /\ Len(jobs) \in Nat
      BY <1>6, LenProperties DEF Ready, Fetch, TypeInv, TypeOK
    <3> QED
      BY <3>1, EarliestExists DEF Oldest
  <2>2. i \in DOMAIN jobs /\ jobs[i] \in JobsOf(Known)
    BY <1>q, <2>1 DEF Ready
  <2>3. j \in JobsOf(Known) /\ jobs' = [jobs EXCEPT ![i] = j]
    <3>1. jobs[i] \in Job /\ jobs[i].msg \in Known
      BY <2>2 DEF JobsOf
    <3>2. j \in Job /\ j.msg = jobs[i].msg
      BY <3>1 DEF Job, JobState
    <3>3. jobs' = [jobs EXCEPT ![i].state = "active", ![i].by = h]
      BY <1>6 DEF Fetch
    <3>4. jobs \in Seq(Job) /\ DOMAIN jobs = 1..Len(jobs) /\ jobs \in [1..Len(jobs) -> Job]
      BY LenProperties, ElementOfSeq DEF TypeInv, TypeOK
    <3>5. jobs' = [jobs EXCEPT ![i] = j]
      BY <2>2, <3>3, <3>4
    <3> QED
      BY <3>1, <3>2, <3>5 DEF JobsOf
  <2>4. jobs' \in Seq(JobsOf(Known))
    BY <1>q, <2>2, <2>3
  <2>5. \A g \in Slot : handler'[g].at # "idle" => handler'[g].msg \in Known
    <3>1. [Idle EXCEPT !.at = "find", !.msg = jobs[i].msg].msg = jobs[i].msg
      BY DEF Idle
    <3>2. handler' = [handler EXCEPT ![h] = [Idle EXCEPT !.at = "find", !.msg = jobs[i].msg]]
      BY <1>6 DEF Fetch
    <3>3. jobs[i].msg \in Known
      BY <2>2 DEF JobsOf
    <3> QED
      BY <1>1, <3>1, <3>2, <3>3
  <2>6. UNCHANGED <<status, hook>>
    BY <1>6 DEF Fetch
  <2> QED
    BY <1>s, <1>o, <1>k, <2>4, <2>5, <2>6
<1>7. ASSUME NEW h \in Slot, HandlerStep(h) \/ Fail(h) PROVE InboxInv'
  <2>1. MsgKept(h)
    BY <1>7, HandlerKeepsMsg
  <2>2. handler[h].msg \in Msg
    BY <1>1, <2>1 DEF MsgKept
  <2>3. Known \subseteq Known'
    BY <1>7, <1>c, <1>s, <2>2 DEF HandlerStep, Find, Guard, Rearm, Load, Place, Insert, Refuse, Save, Reply, Send, Close, Fail
  <2>4. UNCHANGED hook /\ (UNCHANGED jobs \/ DropJob(h) \/ ReturnJob(h))
    BY <1>7 DEF HandlerStep, Find, Guard, Rearm, Load, Place, Insert, Refuse, Save, Reply, Send, Close, Fail, Finish
  <2> QED
    BY <1>j, <1>q, <1>m, <1>o, <1>k, <2>1, <2>3, <2>4
<1>8. ASSUME NEW h \in Slot, Expire(h) PROVE InboxInv'
  BY <1>8, <1>s, <1>q, <1>h, <1>o, <1>k DEF Expire
<1>9. ASSUME NEW i \in DOMAIN jobs, DelayOver(i) PROVE InboxInv'
  <2> DEFINE j == [jobs[i] EXCEPT !.state = "ready"]
  <2>1. jobs[i] \in Job /\ jobs[i].msg \in Known
    BY <1>q DEF JobsOf
  <2>2. j \in JobsOf(Known)
    BY <2>1 DEF Job, JobState, JobsOf
  <2>3. jobs' = [jobs EXCEPT ![i] = j] /\ UNCHANGED <<status, handler, hook>>
    BY <1>9 DEF DelayOver, queueVars
  <2>4. jobs' \in Seq(JobsOf(Known))
    BY <1>q, <2>2, <2>3
  <2> QED
    BY <1>s, <1>h, <1>o, <1>k, <2>3, <2>4
<1>10. ASSUME UNCHANGED <<status, hook, jobs, handler>> PROVE InboxInv'
  BY <1>10, <1>s, <1>j, <1>h, <1>o, <1>k
<1>11. ASSUME NEW m \in Msg, \/ Ages(m) \/ WindowPasses(m) \/ PaymentConfirmed(m) \/ EventStepOf(m) \/ EventFails(m)
       PROVE  InboxInv'
  BY <1>10, <1>11 DEF Ages, WindowPasses, PaymentConfirmed, EventStepOf, EventLoads, EventSaves, EventReplies,
                      EventSends, EventFails, queueVars
<1>12. CASE UNCHANGED vars
  BY <1>10, <1>12 DEF vars
<1> QED
  BY <1>2, <1>3, <1>4, <1>5, <1>6, <1>7, <1>8, <1>9, <1>11, <1>12 DEF Next, Webhook

LEMMA InitKnown == Init => InboxInv
<1> SUFFICES ASSUME Init PROVE InboxInv
  OBVIOUS
<1>1. jobs \in Seq(JobsOf(Known))
  BY EmptySeq DEF Init
<1> QED
  BY <1>1 DEF Init, InboxInv, Idle

(* What each write looks like from outside.                                *)
LEMMA NothingShows ==
  ASSUME UNCHANGED <<status, orders>>, \A m \in Msg : outbox'[m] = <<>> <=> outbox[m] = <<>>
  PROVE  UNCHANGED Inbox!vars
BY DEF Inbox!vars

LEMMA ClosingShows ==
  ASSUME TypeInv, NEW m \in Known, NEW st \in {"processed", "skipped"}, CloseAs(m, st), UNCHANGED <<orders, outbox>>
  PROVE  Inbox!Close(m) \/ UNCHANGED Inbox!vars
<1>1. /\ status \in [Msg -> {"absent", "received", "processed", "skipped"}] /\ m \in Msg /\ status[m] # "absent"
      /\ status' = [status EXCEPT ![m] = st]
  BY DEF TypeInv, TypeOK, Known, CloseAs
<1>2. UNCHANGED <<{k \in Msg : orders[k] > 0}, {k \in Msg : outbox[k] # <<>>}>>
  OBVIOUS
<1>3. CASE status[m] = "received"
  <2>1. {k \in Msg : status'[k] = "received"} = {k \in Msg : status[k] = "received"} \ {m}
    BY <1>1
  <2>2. {k \in Msg : status'[k] \in {"processed", "skipped"}} = {k \in Msg : status[k] \in {"processed", "skipped"}} \cup {m}
    BY <1>1
  <2> QED
    BY <1>1, <1>2, <1>3, <2>1, <2>2 DEF Inbox!Close
<1>4. CASE status[m] # "received"
  <2>1. {k \in Msg : status'[k] = "received"} = {k \in Msg : status[k] = "received"}
    BY <1>1, <1>4
  <2>2. {k \in Msg : status'[k] \in {"processed", "skipped"}} = {k \in Msg : status[k] \in {"processed", "skipped"}}
    BY <1>1, <1>4
  <2> QED
    BY <1>2, <2>1, <2>2 DEF Inbox!vars
<1> QED
  BY <1>3, <1>4

LEMMA ReceivingShows ==
  ASSUME TypeInv, NEW m \in Msg, RecordInbound(m)
  PROVE  Inbox!Receive(m)
<1>1. /\ status \in [Msg -> {"absent", "received", "processed", "skipped"}] /\ status[m] = "absent"
      /\ status' = [status EXCEPT ![m] = "received"] /\ UNCHANGED <<orders, outbox>>
  BY DEF TypeInv, TypeOK, RecordInbound, turnVars
<1>2. {k \in Msg : status'[k] = "received"} = {k \in Msg : status[k] = "received"} \cup {m}
  BY <1>1
<1>3. {k \in Msg : status'[k] \in {"processed", "skipped"}} = {k \in Msg : status[k] \in {"processed", "skipped"}}
  BY <1>1
<1> QED
  BY <1>1, <1>2, <1>3 DEF Inbox!Receive

LEMMA OrderingShows ==
  ASSUME TypeInv, NEW m \in Known, orders[m] = 0, orders' = [orders EXCEPT ![m] = @ + 1], UNCHANGED <<status, outbox>>
  PROVE  Inbox!Order(m)
<1>1. /\ status \in [Msg -> {"absent", "received", "processed", "skipped"}] /\ m \in Msg /\ status[m] # "absent"
      /\ orders \in [Msg -> Nat]
  BY DEF TypeInv, TypeOK, Known
<1>2. {k \in Msg : orders'[k] > 0} = {k \in Msg : orders[k] > 0} \cup {m}
  BY <1>1
<1>3. m \in {k \in Msg : status[k] = "received"} \cup {k \in Msg : status[k] \in {"processed", "skipped"}}
  BY <1>1
<1> QED
  BY <1>1, <1>2, <1>3 DEF Inbox!Order

LEMMA AnsweringShows ==
  ASSUME TypeInv, NEW m \in Known, NEW n \in Nat \ {0}, Record(m, n), UNCHANGED <<status, orders>>
  PROVE  Inbox!Answer(m) \/ UNCHANGED Inbox!vars
<1>1. status \in [Msg -> {"absent", "received", "processed", "skipped"}] /\ m \in Msg /\ status[m] # "absent"
  BY DEF TypeInv, TypeOK, Known
<1>2. outbox'[m] # <<>> /\ \A k \in Msg \ {m} : outbox'[k] = outbox[k]
  BY <1>1, RecordGrows DEF TypeInv
<1>3. CASE outbox[m] = <<>>
  <2>1. {k \in Msg : outbox'[k] # <<>>} = {k \in Msg : outbox[k] # <<>>} \cup {m}
    BY <1>1, <1>2
  <2>2. m \in {k \in Msg : status[k] = "received"} \cup {k \in Msg : status[k] \in {"processed", "skipped"}}
    BY <1>1
  <2> QED
    BY <1>3, <2>1, <2>2 DEF Inbox!Answer
<1>4. CASE outbox[m] # <<>>
  BY <1>1, <1>2, <1>4, NothingShows
<1> QED
  BY <1>3, <1>4

(* Every step is one the promise allows, or does not show.                 *)
LEMMA StepPromised == PipelineAssumption /\ TypeInv /\ InboxInv /\ [Next]_vars => [Inbox!Next]_(Inbox!vars)
<1> SUFFICES ASSUME PipelineAssumption, TypeInv, InboxInv, [Next]_vars
             PROVE  (\E m \in Msg : Inbox!Receive(m) \/ Inbox!Order(m) \/ Inbox!Answer(m) \/ Inbox!Close(m))
                      \/ UNCHANGED Inbox!vars
  BY DEF Inbox!Next
<1> DEFINE Shown == \E m \in Msg : Inbox!Receive(m) \/ Inbox!Order(m) \/ Inbox!Answer(m) \/ Inbox!Close(m)
<1>1. /\ TypeOK /\ Known \subseteq Msg
      /\ \A h \in Slot : handler[h].at # "idle" => handler[h].msg \in Known /\ handler[h].msg \in Msg
      /\ \A m \in Msg : hook[m] # "none" => m \in Known
  BY DEF TypeInv, InboxInv, Known
<1>2. ASSUME UNCHANGED <<status, orders, outbox>> PROVE UNCHANGED Inbox!vars
  BY <1>2, NothingShows
<1>3. ASSUME NEW m \in Msg, Webhook(m) \/ Janitor(m) \/ Ages(m) PROVE Shown \/ UNCHANGED Inbox!vars
  <2>1. CASE RecordInbound(m)
    BY <2>1, ReceivingShows
  <2>2. CASE HookSkips(m)
    BY <1>1, <2>2, ClosingShows DEF HookSkips, turnVars
  <2>3. CASE HookQueues(m) \/ HookDies(m) \/ Janitor(m) \/ Ages(m)
    BY <1>2, <2>3 DEF HookQueues, HookDies, Janitor, Ages, turnVars
  <2> QED
    BY <1>3, <2>1, <2>2, <2>3 DEF Webhook
<1>4. ASSUME NEW h \in Slot, Find(h) \/ Close(h) PROVE Shown \/ UNCHANGED Inbox!vars
  <2>1. handler[h].msg \in Known /\ UNCHANGED <<orders, outbox>>
    BY <1>1, <1>4 DEF Find, Close, At, turnVars
  <2>2. UNCHANGED status \/ \E st \in {"processed", "skipped"} : CloseAs(handler[h].msg, st)
    BY <1>4 DEF Find, Close
  <2> QED
    BY <1>1, <1>2, <2>1, <2>2, ClosingShows
<1>5. ASSUME NEW h \in Slot, Insert(h) PROVE Shown \/ UNCHANGED Inbox!vars
  <2>1. handler[h].msg \in Known /\ UNCHANGED <<status, outbox>>
    BY <1>1, <1>5 DEF Insert, At
  <2>2. UNCHANGED orders \/ (orders[handler[h].msg] = 0 /\ orders' = [orders EXCEPT ![handler[h].msg] = @ + 1])
    BY <1>1, <1>5, <2>1 DEF Insert, TypeOK
  <2> QED
    BY <1>1, <1>2, <2>1, <2>2, OrderingShows
<1>6. ASSUME NEW h \in Slot, Reply(h) PROVE Shown \/ UNCHANGED Inbox!vars
  <2> DEFINE n == Len(handler[h].rows) + 1
  <2>1. handler[h].msg \in Known /\ UNCHANGED <<status, orders>> /\ Record(handler[h].msg, n)
    BY <1>1, <1>6 DEF Reply, At
  <2>2. n \in Nat \ {0}
    BY <1>1, LenProperties DEF TypeOK, Handler
  <2> HIDE DEF n
  <2> QED
    BY <1>1, <2>1, <2>2, AnsweringShows
<1>7. ASSUME NEW h \in Slot, Rearm(h) \/ Send(h) PROVE UNCHANGED Inbox!vars
  <2>1. handler[h].msg \in Msg /\ UNCHANGED <<status, orders>> /\ Arm(handler[h].msg, handler[h].rows)
    BY <1>1, <1>7 DEF Rearm, Send, At
  <2> QED
    BY <1>1, <2>1, ArmKeepsReplies, NothingShows
<1>8. ASSUME NEW h \in Slot,
             \/ Fetch(h) \/ Guard(h) \/ Load(h) \/ Place(h) \/ Refuse(h) \/ Save(h) \/ Fail(h) \/ Expire(h)
      PROVE  UNCHANGED Inbox!vars
  BY <1>2, <1>8 DEF Fetch, Guard, Load, Place, Refuse, Save, Fail, Expire, turnVars
<1>9. ASSUME NEW o \in Msg, EventReplies(o) \/ EventSends(o) PROVE UNCHANGED Inbox!vars
  <2>1. UNCHANGED <<status, orders>> /\ (Record(NoMsg, 1) \/ Arm(NoMsg, <<event[o].row>>))
    BY <1>9 DEF EventReplies, EventSends
  <2>2. NoMsg \notin Msg /\ NoMsg \in Msg \cup {NoMsg}
    BY PipelineAssumption DEF Msg, NoMsg
  <2> QED
    BY <1>1, <2>1, <2>2, RecordGrows, ArmKeepsReplies, NothingShows
<1>10. ASSUME NEW o \in Msg, WindowPasses(o) \/ PaymentConfirmed(o) \/ EventLoads(o) \/ EventSaves(o) \/ EventFails(o)
       PROVE  UNCHANGED Inbox!vars
  BY <1>2, <1>10 DEF WindowPasses, PaymentConfirmed, EventLoads, EventSaves, EventFails, turnVars
<1>11. CASE (\E i \in DOMAIN jobs : DelayOver(i)) \/ UNCHANGED vars
  BY <1>2, <1>11 DEF DelayOver, turnVars, vars
<1> QED
  BY <1>3, <1>4, <1>5, <1>6, <1>7, <1>8, <1>9, <1>10, <1>11 DEF Next, HandlerStep, EventStepOf

(* Whatever fails and however the handlers cross, each message is taken in *)
(* once, has at most one order, is closed once and for good, and has no    *)
(* order and no reply that it was not taken in for: the pipeline's steps   *)
(* are steps of WaInbox (recordInbound, runTurn, markProcessed).  That it  *)
(* is closed in the end is for the runs.                                   *)
THEOREM PipelineImplementsInbox == Spec => InboxSteps
<1> DEFINE Inv == TypeInv /\ InboxInv
<1>1. Init => Inv
  BY InitType, InitKnown, PipelineAssumption
<1>2. Inv /\ [Next]_vars => Inv'
  BY StepType, StepKnown, PipelineAssumption
<1>3. Init => Inbox!Init
  BY DEF Init, Inbox!Init
<1>4. Inv /\ [Next]_vars => [Inbox!Next]_(Inbox!vars)
  BY StepPromised, PipelineAssumption
<1> HIDE DEF Inv
<1> QED
  BY <1>1, <1>2, <1>3, <1>4, PTL DEF Spec, InboxSteps

================================================================================
