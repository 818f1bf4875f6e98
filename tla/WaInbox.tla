-------------------------------- MODULE WaInbox --------------------------------
(***************************************************************************)
(* What the WhatsApp pipeline promises about the messages of a customer,   *)
(* whatever fails underneath: each is taken in, has at most one order, may *)
(* be answered, and is closed once and for good; one that is taken in is   *)
(* closed eventually.                                                      *)
(***************************************************************************)
CONSTANT Msg          \* the messages of one phone

VARIABLES
  open,               \* taken in, not closed
  closed,             \* processed or skipped
  ordered,            \* messages with an order
  answered            \* messages with a reply on record

vars == <<open, closed, ordered, answered>>

Init == open = {} /\ closed = {} /\ ordered = {} /\ answered = {}

Receive(m) ==
  /\ m \notin open \cup closed
  /\ open' = open \cup {m}
  /\ UNCHANGED <<closed, ordered, answered>>

(* An order can come late, from a handler that outlived its message.       *)
Order(m) ==
  /\ m \in (open \cup closed) \ ordered
  /\ ordered' = ordered \cup {m}
  /\ UNCHANGED <<open, closed, answered>>

Answer(m) ==
  /\ m \in (open \cup closed) \ answered
  /\ answered' = answered \cup {m}
  /\ UNCHANGED <<open, closed, ordered>>

Close(m) ==
  /\ m \in open
  /\ open' = open \ {m} /\ closed' = closed \cup {m}
  /\ UNCHANGED <<ordered, answered>>

Next == \E m \in Msg : Receive(m) \/ Order(m) \/ Answer(m) \/ Close(m)

Spec == Init /\ [][Next]_vars /\ \A m \in Msg : WF_vars(Close(m))
================================================================================
