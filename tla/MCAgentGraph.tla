----------------------------- MODULE MCAgentGraph -----------------------------
(* Finite instances of AgentGraph for TLC: each setting and each part of   *)
(* the context takes each of its values, not all of them at a time.        *)
EXTENDS AgentGraph

Base ==
  [llm |-> TRUE, embed |-> "configured", collect |-> TRUE, reader |-> TRUE,
   namespace |-> "allowed", repository |-> "allowed", service |-> TRUE,
   image |-> TRUE, critical |-> FALSE]

MCSetups ==
  {[Base EXCEPT !.llm = l, !.repository = r, !.service = s] :
     l \in BOOLEAN, r \in Reach, s \in BOOLEAN}
  \cup {[Base EXCEPT !.llm = FALSE, !.embed = "unconfigured", !.reader = FALSE,
                     !.namespace = r, !.image = FALSE, !.critical = TRUE] :
          r \in Reach}
  \cup {[Base EXCEPT !.llm = l, !.collect = FALSE, !.embed = "disabled"] : l \in BOOLEAN}

Claims(refs, confidence, escalate) ==
  [hypotheses |-> <<[refs |-> refs, confidence |-> confidence]>>, escalate |-> escalate]

(* No claim, a sound one, an invented citation, an unsure one, none cited. *)
MCRcaAnswers ==
  {[hypotheses |-> <<>>, escalate |-> FALSE], Claims({"incident"}, 60, FALSE),
   Claims({"kubernetes", "guess"}, 90, FALSE), Claims({"github"}, 30, FALSE), Claims({}, 80, TRUE)}

MCPlanAnswers ==
  {[refs |-> {"guess"}, score |-> 10, recommended |-> TRUE],
   [refs |-> {"github", "incident"}, score |-> 80, recommended |-> FALSE]}

MCReportAnswers == {{"guess"}, {"incident"}}
=============================================================================
