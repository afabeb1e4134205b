-------------------------- MODULE MCAlertIngestion --------------------------
(* Finite instances of AlertIngestion for TLC.                             *)
EXTENDS AlertIngestion, TLC

CONSTANTS c1, c2, m1, m2, k1, k2, i1, i2, i3

MCConsumers == {c1, c2}
MCMessages == {m1, m2}
MCKeys == {k1, k2}
MCIds == {i1, i2, i3}

(* A batch of two alerts, and the message Alertmanager repeats while the   *)
(* first alert keeps firing.                                               *)
MCAlertsOf == (m1 :> <<k1, k2>>) @@ (m2 :> <<k1>>)

(* A message that repeats one alert inside a single batch (firing and      *)
(* resolved share a dedupe key), published twice.                          *)
MCRepeatingAlerts == (m1 :> <<k1, k1>>) @@ (m2 :> <<k1>>)

Symmetry == Permutations(MCConsumers) \cup Permutations(MCIds)

=============================================================================
