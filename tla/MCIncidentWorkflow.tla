------------------------- MODULE MCIncidentWorkflow -------------------------
(* Finite instances of IncidentWorkflow for TLC.                           *)
EXTENDS IncidentWorkflow, TLC

CONSTANTS s1, s2, p1, p2

MCSlots == {s1, s2}
MCPlans == {p1, p2}

(* Two attempts each: the first retry and its exhaustion both happen.      *)
MCAttempts == [a \in Activities |-> 2]

(* The retry policies as they are.                                         *)
MCPolicyAttempts == [a \in Activities |-> IF a = "graph" THEN 3 ELSE 5]

Faults(k1, n1, k2, n2, k3, n3) ==
  [k \in FaultKinds |-> CASE k = k1 -> n1 [] k = k2 -> n2 [] k = k3 -> n3 [] OTHER -> 0]

(* A second exception exhausts the attempts; a stale search needs a retry; *)
(* a slow attempt meets the API's write or its own successor's crash.      *)
MCFaults ==
  {Faults("error", 2, "crash", 1, "lag", 0), Faults("error", 1, "crash", 1, "lag", 1),
   Faults("slow", 1, "crash", 1, "api", 0), Faults("slow", 1, "crash", 0, "api", 1)}

MCOneCrash == {Faults("crash", 1, "error", 0, "lag", 0)}
MCThreeErrors == {Faults("error", 3, "crash", 0, "lag", 0)}

Symmetry == Permutations(MCSlots) \cup Permutations(MCPlans)

=============================================================================
