-------------------------- MODULE IncidentRegistry --------------------------
(***************************************************************************)
(* What ingestion promises about incidents, without consumers, messages,   *)
(* claims or faults: a key is given at most one incident, and an incident  *)
(* moves through its stages one at a time and never back.                  *)
(***************************************************************************)
CONSTANTS Keys, Ids, NoKey

VARIABLES
  keyOf,   (* the dedupe key of each incident, NoKey before it exists       *)
  stage    (* how far the start-up of each incident has come                *)

vars == <<keyOf, stage>>

Successor == [open |-> "validated", validated |-> "running", running |-> "linked"]

Init ==
  /\ keyOf = [i \in Ids |-> NoKey]
  /\ stage = [i \in Ids |-> "none"]

Open(i, k) ==
  /\ keyOf[i] = NoKey
  /\ \A j \in Ids : keyOf[j] # k
  /\ keyOf' = [keyOf EXCEPT ![i] = k]
  /\ stage' = [stage EXCEPT ![i] = "open"]

Advance(i) ==
  /\ stage[i] \in DOMAIN Successor
  /\ stage' = [stage EXCEPT ![i] = Successor[@]]
  /\ UNCHANGED keyOf

Next == \E i \in Ids : Advance(i) \/ \E k \in Keys : Open(i, k)

Spec == Init /\ [][Next]_vars

=============================================================================
