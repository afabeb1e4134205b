--------------------------- MODULE MCRcaPersistence ---------------------------
(* Finite instances of RcaPersistence.                                     *)
EXTENDS RcaPersistence

CONSTANTS c1, c2

Output(sources, tools, models, refs, plan, report, texts, embedded) ==
  [evidence |-> sources, toolCalls |-> tools, modelCalls |-> models, hypotheses |-> refs,
   items |-> [plan |-> plan, report |-> report, text |-> texts], vectors |-> embedded]

(* Two runs of the graph that differ in what they found, their plans and   *)
(* the order of their texts; and one that was rate limited and has no plan *)
(* or report.                                                              *)
MCOutputs ==
  {Output(<<"github">>, <<"logs">>, <<>>, <<{"kubernetes", "github"}>>, <<c1>>, <<c1>>, <<c1, c2>>, TRUE),
   Output(<<"github">>, <<>>, <<"chat">>, <<>>, <<c2>>, <<>>, <<c2>>, FALSE)}

MCLimits == [k \in Kinds |-> 2]
=============================================================================
