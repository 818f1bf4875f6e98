-------------------------------- MODULE MCAccess --------------------------------
(* Sessions, one-time codes and push tokens, which share no table: each     *)
(* behaviour is one of a single part, chosen when it begins.                *)
EXTENDS Sessions, Codes, Devices, TLC

CONSTANTS phone
OfPhone == [t \in Tokens |-> phone]

VARIABLE part
vars == <<part, sessVars, codeVars, deviceVars>>

Init == part \in {"sessions", "codes", "devices"} /\ InitSessions /\ InitCodes /\ InitDevices
Next ==
  \/ part = "sessions" /\ NextSessions /\ UNCHANGED <<part, codeVars, deviceVars>>
  \/ part = "codes" /\ NextCodes /\ UNCHANGED <<part, sessVars, deviceVars>>
  \/ part = "devices" /\ NextDevices /\ UNCHANGED <<part, sessVars, codeVars>>
Spec == Init /\ [][Next]_vars

(* Bounds: at most one session expires or is left unclaimed by a stopped    *)
(* process, and work and deletion are asked for with at most one session.   *)
Bound ==
  /\ Cardinality(expired) + Cardinality(stray) <= 1
  /\ (open # {} \/ \E c \in Calls : call[c].at \in {"working", "deleting"}) => Cardinality(Fresh) > 1

Symmetry == Permutations(Ids) \cup Permutations(Calls)
================================================================================
