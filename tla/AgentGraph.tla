------------------------------ MODULE AgentGraph ------------------------------
(***************************************************************************)
(* One run of the agent graph (agents/), from the incident's context to    *)
(* the state that is stored: monitoring, correlation, RCA, remediation,    *)
(* documentation, embedding.  The RCA node reads its three sources at the  *)
(* same time; every node that asks a model falls back to rules when there  *)
(* is none or it fails.                                                    *)
(*                                                                         *)
(* References to evidence are what the nodes have in common.  "incident"   *)
(* stands for everything known without reading a source.                   *)
(***************************************************************************)
EXTENDS Naturals, Sequences, FiniteSets

Collectors == {"kubernetes", "github", "dockerhub"}
Known == "incident"

CONSTANTS
  Invented,       (* references a model makes up                             *)
  Setups,         (* settings and context a run may start with               *)
  RcaAnswers,     (* what the model may answer to each prompt                *)
  PlanAnswers,
  ReportAnswers,
  ReadAttempts,   (* mcp_read_retry_attempts                                 *)
  MinConfidence   (* rca_min_hypothesis_confidence, in percent               *)

Refs == {Known} \cup Collectors \cup Invented
Reach == {"unknown", "allowed", "outside"}

SetupShape ==
  [llm : BOOLEAN, embed : {"disabled", "unconfigured", "configured"},
   collect : BOOLEAN,            (* agent_read_only_evidence_enabled         *)
   reader : BOOLEAN,             (* the remediation agent's GitHub client    *)
   namespace : Reach,            (* of the workload, by the allowlist        *)
   repository : Reach,           (* of the service catalogue's repository    *)
   service : BOOLEAN,            (* a service name is known                  *)
   image : BOOLEAN, critical : BOOLEAN]

Hypothesis == [refs : SUBSET Refs, confidence : 0 .. 100]
RcaShape == [hypotheses : Seq(Hypothesis), escalate : BOOLEAN]
PlanShape == [refs : SUBSET Refs, score : 0 .. 100, recommended : BOOLEAN]

ASSUME GraphAssumption ==
  /\ Invented \cap ({Known} \cup Collectors) = {}
  /\ Setups \subseteq SetupShape
  /\ RcaAnswers \subseteq RcaShape
  /\ PlanAnswers \subseteq PlanShape
  /\ ReportAnswers \subseteq SUBSET Refs
  /\ ReadAttempts \in Nat
  /\ MinConfidence \in 0 .. 100

VARIABLES
  node,        (* the await or node the run is at                            *)
  setup,       (* settings and context                                       *)
  repository,  (* repository_url of the correlation                          *)
  bundle,      (* the evidence each source gave                              *)
  status,      (* the status of its tool call                                *)
  tries,       (* reads of a source                                          *)
  rca,         (* hypotheses, escalation, and who made them                  *)
  plan,        (* the remediation plan, and who made it                      *)
  report,      (* source_refs of the report                                  *)
  embedded,    (* embedding_texts and embedding_vectors                      *)
  log,         (* lists in the state LangGraph hands to the nodes            *)
  streamed,    (* the same in final_state, which run_streaming returns       *)
  asked,       (* history: prompts sent to the model                         *)
  fileOf       (* history: the repository a file was read from               *)

graphVars == <<node, setup, repository, bundle, status, tries, rca, plan, report,
               embedded, log, streamed, asked, fileOf>>

-----------------------------------------------------------------------------
Nodes == {"monitoring", "correlation", "collect", "remediation", "fix", "patch",
          "documentation", "embedding", "end", "failed"}
Lists == {"model_calls", "rca_hypotheses", "embedding_texts", "evidence_ids"}
Prompts == {"monitoring", "rca", "plan", "fix", "report"}
Entries == Prompts \cup {"texts"}
Statuses == {"pending", "skipped", "forbidden", "unavailable", "timeout", "failed",
             "partial", "completed"}
Makers == {"nobody", "rules", "model", "rejected", "fallback"}

NoRca == [hypotheses |-> <<>>, escalate |-> FALSE, by |-> "nobody"]
NoPlan == [refs |-> {}, score |-> 0, recommended |-> FALSE, changes |-> {}, by |-> "nobody"]

GraphInit ==
  /\ node = "monitoring"
  /\ setup \in Setups
  /\ repository = "unknown"
  /\ bundle = [s \in Collectors |-> "none"]
  /\ status = [s \in Collectors |-> "pending"]
  /\ tries = [s \in Collectors |-> 0]
  /\ rca = NoRca
  /\ plan = NoPlan
  /\ report = {}
  /\ embedded = "nothing"
  /\ log = [l \in Lists |-> <<>>]
  /\ streamed = [l \in {"evidence_ids"} |-> <<>>]
  /\ asked = {}
  /\ fileOf = "unknown"

-----------------------------------------------------------------------------
(* A node's update of the state.  The annotated lists grow, others are     *)
(* replaced; run_streaming appends to every list that is there already.    *)
Annotated == {"model_calls"}

Reduced(update) ==
  [l \in Lists |->
    IF l \notin DOMAIN update THEN log[l]
    ELSE IF l \in Annotated THEN log[l] \o update[l] ELSE update[l]]

(* Mutant: the newest update of a list wins.                               *)
MergedLast(update) ==
  [l \in DOMAIN streamed \cup DOMAIN update |->
    IF l \in DOMAIN update THEN update[l] ELSE streamed[l]]

Merged(update) ==
  [l \in DOMAIN streamed \cup DOMAIN update |->
    IF l \notin DOMAIN update THEN streamed[l]
    ELSE IF l \in DOMAIN streamed THEN streamed[l] \o update[l] ELSE update[l]]

Update(update) == log' = Reduced(update) /\ streamed' = Merged(update)
Recorded(prompts) == [l \in {"model_calls"} |-> prompts]

Ask(prompt) == asked' = asked \cup {prompt}

-----------------------------------------------------------------------------
(* The monitoring model may name the service; the rules name none.  Its    *)
(* call is not among model_calls.                                          *)
Monitor ==
  /\ node = "monitoring"
  /\ node' = "correlation"
  /\ \/ setup.llm /\ Ask("monitoring") /\ \E named \in BOOLEAN :
          setup' = [setup EXCEPT !.service = @ \/ named]
     \/ setup.llm /\ Ask("monitoring") /\ UNCHANGED setup
     \/ ~setup.llm /\ UNCHANGED <<asked, setup>>
  /\ UNCHANGED <<repository, bundle, status, tries, rca, plan, report, embedded,
                 log, streamed, fileOf>>

(* Without a repository in the catalogue its URL is guessed from the name. *)
Correlate ==
  /\ node = "correlation"
  /\ node' = "collect"
  /\ IF setup.repository # "unknown" \/ ~setup.service
     THEN repository' = setup.repository
     ELSE repository' \in Reach
  /\ UNCHANGED <<setup, bundle, status, tries, rca, plan, report, embedded,
                 log, streamed, asked, fileOf>>

-----------------------------------------------------------------------------
(* RCAEvidenceCollector.collect: the three sources in any order.           *)
Target(s) ==
  CASE s = "kubernetes" -> setup.namespace
    [] s = "github" -> repository
    [] s = "dockerhub" -> IF setup.image THEN "allowed" ELSE "unknown"

Reading(s) == node = "collect" /\ setup.collect /\ status[s] = "pending"

(* Mutant: the GitHub collector does not look at the allowlist.            *)
AdmittedUnlisted(s) == Target(s) = "allowed" \/ (s = "github" /\ Target(s) = "outside")

Admitted(s) == Target(s) = "allowed"

Refuse(s) ==
  /\ Reading(s)
  /\ ~Admitted(s)
  /\ status' = [status EXCEPT ![s] = IF Target(s) = "unknown" THEN "skipped" ELSE "forbidden"]
  /\ UNCHANGED <<node, setup, repository, bundle, tries, rca, plan, report, embedded,
                 log, streamed, asked, fileOf>>

(* What a client's read comes to.  The MCP clients turn every exception    *)
(* but NotImplementedError into an entry of collection_errors.             *)
Outcomes(s) ==
  IF s = "dockerhub" THEN {"rows", "timeout", "transient", "fatal"}
  ELSE {"rows", "partial", "empty", "errors", "unimplemented"}

Given(outcome) ==
  CASE outcome \in {"rows", "partial"} -> "rows"
    [] outcome \in {"empty", "errors"} -> "empty"
    [] OTHER -> "none"

StatusOf(outcome) ==
  CASE outcome \in {"rows", "empty"} -> "completed"
    [] outcome = "partial" -> "partial"
    [] outcome = "unimplemented" -> "unavailable"
    [] outcome = "timeout" -> "timeout"
    [] OTHER -> "failed"

(* Mutant: one read too many.                                              *)
MayRetryAgain(s, outcome) == outcome \in {"timeout", "transient"} /\ tries[s] < ReadAttempts

(* read_with_retries: max(1, attempts) reads at the most.                  *)
MayRetry(s, outcome) == outcome \in {"timeout", "transient"} /\ tries[s] + 1 < ReadAttempts

RetryRead(s) ==
  /\ Reading(s) /\ Admitted(s)
  /\ \E outcome \in Outcomes(s) : MayRetry(s, outcome)
  /\ tries' = [tries EXCEPT ![s] = @ + 1]
  /\ UNCHANGED <<node, setup, repository, bundle, status, rca, plan, report, embedded,
                 log, streamed, asked, fileOf>>

Read(s) ==
  /\ Reading(s) /\ Admitted(s)
  /\ \E outcome \in Outcomes(s) :
       /\ ~MayRetry(s, outcome)
       /\ bundle' = [bundle EXCEPT ![s] = Given(outcome)]
       /\ status' = [status EXCEPT ![s] = StatusOf(outcome)]
  /\ tries' = [tries EXCEPT ![s] = @ + 1]
  /\ UNCHANGED <<node, setup, repository, rca, plan, report, embedded,
                 log, streamed, asked, fileOf>>

-----------------------------------------------------------------------------
(* RCA: any bundle a client returned counts as a source.                   *)
EvidenceSources == {Known} \cup {s \in Collectors : bundle[s] # "none"}

One(refs, confidence) == <<[refs |-> refs, confidence |-> confidence]>>

(* _deterministic_hypotheses *)
RulesRca ==
  IF EvidenceSources \cap Collectors = {}
  THEN [hypotheses |-> One(EvidenceSources, 25), escalate |-> TRUE, by |-> "rules"]
  ELSE [hypotheses |-> One(EvidenceSources \cap Collectors, 55), escalate |-> FALSE,
        by |-> "rules"]

FailedRca(by) == [hypotheses |-> One(EvidenceSources, 10), escalate |-> TRUE, by |-> by]

(* Mutant: a claim that cites nothing known is kept if it cites something. *)
GroundedSome(answer) ==
  IF \E n \in DOMAIN answer.hypotheses : answer.hypotheses[n].refs \cap EvidenceSources = {}
  THEN FailedRca("rejected")
  ELSE [hypotheses |-> answer.hypotheses, escalate |-> answer.escalate, by |-> "model"]

(* _ground_hypothesis_result *)
Grounded(answer) ==
  LET claims == {answer.hypotheses[n] : n \in DOMAIN answer.hypotheses} IN
  IF \E h \in claims : h.refs = {} \/ ~(h.refs \subseteq EvidenceSources)
  THEN FailedRca("rejected")
  ELSE [hypotheses |-> answer.hypotheses,
        escalate |-> answer.escalate \/ \E h \in claims : h.confidence < MinConfidence,
        by |-> "model"]

(* The RCA node returns.                                                   *)
Conclude(result, prompts) ==
  /\ node = "collect"
  /\ setup.collect => \A s \in Collectors : status[s] # "pending"
  /\ node' = "remediation"
  /\ rca' = result
  /\ Update([l \in {"model_calls", "rca_hypotheses"} |->
               IF l = "model_calls" THEN prompts ELSE [n \in DOMAIN result.hypotheses |-> "rca"]])
  /\ UNCHANGED <<setup, repository, bundle, status, tries, plan, report, embedded, fileOf>>

HypothesizeByRules == ~setup.llm /\ Conclude(RulesRca, <<>>) /\ UNCHANGED asked
HypothesisFails == setup.llm /\ Ask("rca") /\ Conclude(FailedRca("fallback"), <<"rca">>)
Hypothesize ==
  /\ setup.llm /\ Ask("rca")
  /\ \E answer \in RcaAnswers : Conclude(Grounded(answer), <<"rca">>)

-----------------------------------------------------------------------------
(* Remediation: a plan, then perhaps a patch of the file changed last.     *)

Top == IF rca.hypotheses # <<>> /\ rca.hypotheses[1].confidence # 0
       THEN rca.hypotheses[1].confidence ELSE 20

(* _risk_score; _risk_level calls 75 and above high.                       *)
RiskScore ==
  CASE rca.escalate -> 90
    [] ~rca.escalate /\ setup.critical -> IF Top < 70 THEN 75 ELSE 65
    [] OTHER -> IF Top < 40 THEN 80 ELSE 45

High(score) == score >= 75

DefaultRefs ==
  EvidenceSources \cup UNION {rca.hypotheses[n].refs : n \in DOMAIN rca.hypotheses}

(* Mutant: the escalation is not looked at.                                *)
RulesPlanUnescalated ==
  [refs |-> DefaultRefs, score |-> IF Top < 40 THEN 80 ELSE 45,
   recommended |-> repository # "unknown", changes |-> {}, by |-> "rules"]

(* _deterministic_plan *)
RulesPlan ==
  [refs |-> DefaultRefs, score |-> RiskScore,
   recommended |-> repository # "unknown" /\ ~rca.escalate, changes |-> {}, by |-> "rules"]

(* Mutant: refs are kept as the model wrote them.                          *)
GroundedPlanAsIs(answer) ==
  [refs |-> answer.refs, score |-> answer.score, recommended |-> answer.recommended,
   changes |-> {}, by |-> "model"]

(* _ground_output: unknown refs are dropped; if none is left, all known.   *)
GroundedPlan(answer) ==
  [refs |-> IF answer.refs \cap DefaultRefs # {} THEN answer.refs \cap DefaultRefs
            ELSE DefaultRefs,
   score |-> answer.score, recommended |-> answer.recommended, changes |-> {}, by |-> "model"]

Draft(result) ==
  /\ node = "remediation"
  /\ node' = "fix"
  /\ plan' = result
  /\ UNCHANGED <<setup, repository, bundle, status, tries, rca, report, embedded,
                 log, streamed, fileOf>>

PlanByRules == ~setup.llm /\ Draft(RulesPlan) /\ UNCHANGED asked
PlanFails == setup.llm /\ Ask("plan") /\ Draft([RulesPlan EXCEPT !.by = "fallback"])
MakePlan == setup.llm /\ Ask("plan") /\ \E answer \in PlanAnswers : Draft(GroundedPlan(answer))

(* The remediation node returns.                                           *)
Planned(prompts) ==
  /\ node' = "documentation"
  /\ Update(Recorded((IF setup.llm THEN <<"plan">> ELSE <<>>) \o prompts))

(* There is no suspect file, or nothing to read it with, or the read fails. *)
SkipFix ==
  /\ node = "fix"
  /\ Planned(<<>>)
  /\ UNCHANGED <<setup, repository, bundle, status, tries, rca, plan, report, embedded,
                 asked, fileOf>>

ReadSuspect ==
  /\ node = "fix"
  /\ setup.llm /\ setup.reader /\ repository # "unknown"
  /\ bundle["github"] = "rows"
  /\ node' = "patch"
  /\ fileOf' = repository
  /\ UNCHANGED <<setup, repository, bundle, status, tries, rca, plan, report, embedded,
                 log, streamed, asked>>

(* Changes of other files and changes of nothing are dropped.  A call that *)
(* fails is not recorded.                                                  *)
ProposeFix ==
  /\ node = "patch"
  /\ Ask("fix")
  /\ \/ Planned(<<>>) /\ UNCHANGED plan
     \/ /\ Planned(<<"fix">>)
        /\ \E changes \in SUBSET {"suspect", "other", "same"} :
             plan' = [plan EXCEPT !.changes = changes \cap {"suspect"}]
  /\ UNCHANGED <<setup, repository, bundle, status, tries, rca, report, embedded, fileOf>>

-----------------------------------------------------------------------------
(* Documentation and embedding.                                            *)

Document(refs, prompts) ==
  /\ node = "documentation"
  /\ node' = "embedding"
  /\ report' = refs
  /\ Update(Recorded(prompts))
  /\ UNCHANGED <<setup, repository, bundle, status, tries, rca, plan, embedded, fileOf>>

ReportByRules == ~setup.llm /\ Document(DefaultRefs \cup plan.refs, <<>>) /\ UNCHANGED asked
ReportFails == setup.llm /\ Ask("report") /\ Document(DefaultRefs \cup plan.refs, <<"report">>)
MakeReport ==
  /\ setup.llm /\ Ask("report")
  /\ \E answer \in ReportAnswers : Document(answer, <<"report">>)

(* No vectors during a cool-down, or when the call fails.                  *)
Embed ==
  /\ node = "embedding"
  /\ node' = "end"
  /\ embedded' \in CASE setup.embed = "disabled" -> {"nothing"}
                     [] setup.embed = "unconfigured" -> {"texts"}
                     [] OTHER -> {"texts", "vectors"}
  /\ Update([l \in {"embedding_texts"} |-> IF embedded' = "nothing" THEN <<>> ELSE <<"texts">>])
  /\ UNCHANGED <<setup, repository, bundle, status, tries, rca, plan, report, asked, fileOf>>

(* The events of the node before cannot be committed: the run ends.        *)
StreamFails ==
  /\ \/ node \in {"correlation", "remediation", "documentation", "embedding", "end"}
     \/ node = "collect" /\ \A s \in Collectors : status[s] = "pending" /\ tries[s] = 0
  /\ node' = "failed"
  /\ UNCHANGED <<setup, repository, bundle, status, tries, rca, plan, report, embedded,
                 log, streamed, asked, fileOf>>

-----------------------------------------------------------------------------
GraphNext ==
  \/ Monitor \/ Correlate
  \/ \E s \in Collectors : Refuse(s) \/ RetryRead(s) \/ Read(s)
  \/ HypothesizeByRules \/ HypothesisFails \/ Hypothesize
  \/ PlanByRules \/ PlanFails \/ MakePlan \/ SkipFix \/ ReadSuspect \/ ProposeFix
  \/ ReportByRules \/ ReportFails \/ MakeReport \/ Embed \/ StreamFails

GraphSpec == GraphInit /\ [][GraphNext]_graphVars

-----------------------------------------------------------------------------
Cited ==
  plan.refs \cup UNION {rca.hypotheses[n].refs : n \in DOMAIN rca.hypotheses}

(* The type invariant; no source is read more often than the retries allow. *)
GraphTypeOK ==
  /\ node \in Nodes
  /\ setup \in SetupShape
  /\ repository \in Reach
  /\ bundle \in [Collectors -> {"none", "empty", "rows"}]
  /\ status \in [Collectors -> Statuses]
  /\ tries \in [Collectors -> {n \in Nat : n <= 1 \/ n <= ReadAttempts}]
  /\ rca \in [hypotheses : Seq(Hypothesis), escalate : BOOLEAN, by : Makers]
  /\ plan \in [refs : SUBSET Refs, score : 0 .. 100, recommended : BOOLEAN,
                changes : SUBSET {"suspect"}, by : Makers]
  /\ report \subseteq Refs
  /\ embedded \in {"nothing", "texts", "vectors"}
  /\ log \in [Lists -> Seq(Entries)]
  /\ DOMAIN streamed \subseteq Lists
  /\ \A l \in DOMAIN streamed : streamed[l] \in Seq(Entries)
  /\ asked \subseteq Prompts
  /\ fileOf \in Reach

(* Hypotheses and plans cite nothing that was made up, and no source whose *)
(* read was skipped, forbidden, unavailable or cut off, whoever made them: *)
(* the model, the rules, or the rules after the model failed.              *)
CitationsRead ==
  /\ Cited \subseteq {Known} \cup Collectors
  /\ \A s \in Cited \cap Collectors :
       status[s] \notin {"pending", "skipped", "forbidden", "unavailable", "timeout"}

(* The remediation agent reads files of allowed repositories only, though  *)
(* it does not look at the allowlist, and though the repository may have   *)
(* been guessed from a service name that the monitoring model gave.        *)
FileReadAllowed == fileOf # "unknown" => fileOf = "allowed"

(* An RCA that is not the model's escalates if nothing was read; one that  *)
(* is the model's, if it is unsure of a claim.  A plan that is not the     *)
(* model's passes the escalation on: no pull request, high risk.           *)
EscalationHolds ==
  /\ rca.by \in {"rules", "rejected", "fallback"} /\ EvidenceSources = {Known} => rca.escalate
  /\ rca.by = "model" =>
       \A n \in DOMAIN rca.hypotheses :
         rca.hypotheses[n].confidence < MinConfidence => rca.escalate
  /\ plan.by \in {"rules", "fallback"} /\ rca.escalate => ~plan.recommended /\ High(plan.score)

(* run_streaming, which the activity uses, returns what the graph itself   *)
(* computes, although it merges the nodes' updates in its own way.         *)
StreamedIsState ==
  \A l \in Lists : log[l] = IF l \in DOMAIN streamed THEN streamed[l] ELSE <<>>

(* At the end, every prompt for an RCA, a plan or a report is recorded     *)
(* once, answered or not, and no call is recorded that was not made.       *)
CallsAudited ==
  node = "end" =>
    LET recorded == streamed["model_calls"] IN
    /\ \A n \in DOMAIN recorded : recorded[n] \in asked
    /\ \A prompt \in asked \cap {"rca", "plan", "report"} :
         Cardinality({n \in DOMAIN recorded : recorded[n] = prompt}) = 1

(* plan3.md: the rules escalate if there is too little evidence, as when   *)
(* no read succeeded, in whole or in part, by the statuses of the RCA's    *)
(* own tool calls.                                                         *)
LowEvidenceEscalates ==
  rca.by = "rules" /\ (\A s \in Collectors : status[s] \notin {"partial", "completed"})
    => rca.escalate

-----------------------------------------------------------------------------
(* The inductive invariant.                                                *)

(* What a source gave, its status and the reads made agree, and GitHub     *)
(* gave something only if the repository is allowed.                       *)
ReadInv ==
  /\ \A s \in Collectors :
       /\ status[s] = "pending" => bundle[s] = "none"
       /\ status[s] = "pending" => tries[s] = 0 \/ tries[s] < ReadAttempts
       /\ bundle[s] # "none" => status[s] \in {"partial", "completed", "failed"}
  /\ bundle["github"] # "none" => repository = "allowed"

(* Nothing is read before the collection, nothing is concluded before its  *)
(* end, and the lists that only one node writes are not there before it.   *)
OrderInv ==
  /\ node \in {"monitoring", "correlation"} => \A s \in Collectors : status[s] = "pending"
  /\ node \in {"monitoring", "correlation", "collect"} =>
       rca = NoRca /\ plan = NoPlan /\ "rca_hypotheses" \notin DOMAIN streamed
  /\ node = "remediation" => plan = NoPlan
  /\ node \notin {"end", "failed"} => "embedding_texts" \notin DOMAIN streamed

(* Hypotheses and plans cite sources of evidence only.                     *)
GroundInv ==
  /\ \A n \in DOMAIN rca.hypotheses : rca.hypotheses[n].refs \subseteq EvidenceSources
  /\ plan.refs \subseteq EvidenceSources

GraphInv ==
  /\ GraphTypeOK /\ ReadInv /\ OrderInv /\ GroundInv
  /\ EscalationHolds /\ FileReadAllowed /\ StreamedIsState

=============================================================================
