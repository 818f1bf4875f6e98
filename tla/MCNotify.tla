-------------------------------- MODULE MCNotify --------------------------------
(* A small instance of Notify.                                             *)
EXTENDS Notify, TLC

(* The bounds of the run.  At most Oddities things are out of the          *)
(* ordinary, and all of them with one recipient, Picked: a channel that is *)
(* muted or suppressed, an inbox row that was deleted, a message that is   *)
(* not simply accepted and marked sent, a failed delivery.  One recipient  *)
(* of a run is served at a time: they share nothing but the run.  And a    *)
(* job that is there beside an inline run is fetched once.                 *)
CONSTANTS Oddities, Picked
Ordinary(m) ==
  /\ answer[m] \in {"none", "accepted"} /\ row[m] \in {"none", "pending", "sent", "gone"}
Odd(p) ==
  Cardinality({x \in muted : x[1] = p})
    + Cardinality({m \in Messages : m[2] = p /\ ~Ordinary(m)})
    + Cardinality({w \in Runs : leg[<<w, p>>].at = "failed" \/ leg[<<w, p>>].box = "gone"})
Served(w) == {p \in People : leg[<<w, p>>].at \in {"logging", "sending"} /\ ~Over(w, p)}
Bound ==
  /\ \A p \in People : Odd(p) <= IF p = Picked THEN Oddities ELSE 0
  /\ \A w \in Runs : Cardinality(Served(w)) <= 1
  /\ \A e \in Events : run[<<e, 0>>] # "none" => tries[e] <= 1
================================================================================
