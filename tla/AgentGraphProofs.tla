--------------------------- MODULE AgentGraphProofs ---------------------------
(***************************************************************************)
(* What holds of a run of the agent graph for all settings, all answers of *)
(* models, all results of reads and any number of retries.                 *)
(***************************************************************************)
EXTENDS AgentGraph, TLAPS

-----------------------------------------------------------------------------
(* The pieces the nodes are made of.                                       *)

LEMMA SetupTypes ==
  ASSUME NEW x \in SetupShape
  PROVE  /\ x.llm \in BOOLEAN /\ x.reader \in BOOLEAN /\ x.repository \in Reach
         /\ x.namespace \in Reach /\ x.critical \in BOOLEAN
         /\ \A named \in BOOLEAN : [x EXCEPT !.service = @ \/ named] \in SetupShape
  BY DEF SetupShape

LEMMA Single ==
  ASSUME NEW refs \in SUBSET Refs, NEW confidence \in 0 .. 100
  PROVE  /\ One(refs, confidence) \in Seq(Hypothesis)
         /\ DOMAIN One(refs, confidence) = {1}
         /\ One(refs, confidence)[1].refs = refs
         /\ One(refs, confidence)[1].confidence = confidence
  BY DEF One, Hypothesis

LEMMA SourceTypes == EvidenceSources \in SUBSET Refs /\ Known \in EvidenceSources
  BY DEF EvidenceSources, Refs

(* Whoever makes the hypotheses, they cite sources; if it is not the       *)
(* model, it escalates unless a source was read, and the model's           *)
(* hypotheses escalate if one is unsure.                                   *)
Sound(result) ==
  /\ result \in [hypotheses : Seq(Hypothesis), escalate : BOOLEAN, by : Makers]
  /\ \A n \in DOMAIN result.hypotheses : result.hypotheses[n].refs \subseteq EvidenceSources
  /\ result.by \in {"rules", "rejected", "fallback"} /\ EvidenceSources = {Known} =>
       result.escalate
  /\ result.by = "model" =>
       \A n \in DOMAIN result.hypotheses :
         result.hypotheses[n].confidence < MinConfidence => result.escalate

LEMMA OneSound ==
  ASSUME NEW refs \in SUBSET EvidenceSources, NEW confidence \in 0 .. 100,
         NEW escalate \in BOOLEAN, NEW by \in {"rules", "rejected", "fallback"},
         escalate \/ EvidenceSources # {Known}
  PROVE  Sound([hypotheses |-> One(refs, confidence), escalate |-> escalate, by |-> by])
<1> DEFINE result == [hypotheses |-> One(refs, confidence), escalate |-> escalate, by |-> by]
<1>1. /\ One(refs, confidence) \in Seq(Hypothesis)
      /\ DOMAIN One(refs, confidence) = {1}
      /\ One(refs, confidence)[1].refs = refs
  BY SourceTypes, Single
<1>2. /\ result.hypotheses = One(refs, confidence)
      /\ result.escalate = escalate /\ result.by = by
  OBVIOUS
<1>3. result \in [hypotheses : Seq(Hypothesis), escalate : BOOLEAN, by : Makers]
  BY <1>1 DEF Makers
<1> HIDE DEF result
<1>4. Sound(result)
  BY <1>1, <1>2, <1>3 DEF Sound
<1> QED
  BY <1>4 DEF result

LEMMA RulesSound == Sound(RulesRca)
<1>1. CASE EvidenceSources \cap Collectors = {}
  <2>1. RulesRca = [hypotheses |-> One(EvidenceSources, 25), escalate |-> TRUE, by |-> "rules"]
    BY <1>1 DEF RulesRca
  <2>2. Sound([hypotheses |-> One(EvidenceSources, 25), escalate |-> TRUE, by |-> "rules"])
    <3>1. /\ EvidenceSources \in SUBSET EvidenceSources /\ 25 \in 0 .. 100 /\ TRUE \in BOOLEAN
          /\ "rules" \in {"rules", "rejected", "fallback"}
      OBVIOUS
    <3> QED
      BY <3>1, OneSound
  <2> QED
    BY <2>1, <2>2
<1>2. CASE EvidenceSources \cap Collectors # {}
  <2> DEFINE refs == EvidenceSources \cap Collectors
  <2>1. EvidenceSources # {Known}
    BY <1>2 DEF Known, Collectors
  <2>2. RulesRca = [hypotheses |-> One(refs, 55), escalate |-> FALSE, by |-> "rules"]
    BY <1>2 DEF RulesRca
  <2>3. Sound([hypotheses |-> One(refs, 55), escalate |-> FALSE, by |-> "rules"])
    <3>1. /\ refs \in SUBSET EvidenceSources /\ 55 \in 0 .. 100 /\ FALSE \in BOOLEAN
          /\ "rules" \in {"rules", "rejected", "fallback"}
      OBVIOUS
    <3> HIDE DEF refs
    <3> QED
      BY <2>1, <3>1, OneSound
  <2> QED
    BY <2>2, <2>3
<1> QED
  BY <1>1, <1>2

LEMMA FailedSound ==
  ASSUME NEW by \in {"rejected", "fallback"}
  PROVE  Sound(FailedRca(by))
<1>1. Sound([hypotheses |-> One(EvidenceSources, 10), escalate |-> TRUE, by |-> by])
  <2>1. /\ EvidenceSources \in SUBSET EvidenceSources /\ 10 \in 0 .. 100 /\ TRUE \in BOOLEAN
        /\ by \in {"rules", "rejected", "fallback"}
    OBVIOUS
  <2> QED
    BY <2>1, OneSound
<1> QED
  BY <1>1 DEF FailedRca

LEMMA GroundedSound ==
  ASSUME NEW answer \in RcaAnswers
  PROVE  Sound(Grounded(answer))
<1> DEFINE claims == {answer.hypotheses[n] : n \in DOMAIN answer.hypotheses}
<1>1. answer.hypotheses \in Seq(Hypothesis) /\ answer.escalate \in BOOLEAN
  BY GraphAssumption DEF RcaShape
<1>2. CASE \E h \in claims : h.refs = {} \/ ~(h.refs \subseteq EvidenceSources)
  <2>1. Grounded(answer) = FailedRca("rejected")
    BY <1>2 DEF Grounded
  <2> QED
    BY <2>1, FailedSound
<1>3. CASE ~\E h \in claims : h.refs = {} \/ ~(h.refs \subseteq EvidenceSources)
  <2>1. Grounded(answer) =
          [hypotheses |-> answer.hypotheses,
           escalate |-> answer.escalate \/ \E h \in claims : h.confidence < MinConfidence,
           by |-> "model"]
    BY <1>3 DEF Grounded
  <2>2. \A n \in DOMAIN answer.hypotheses : answer.hypotheses[n] \in claims
    OBVIOUS
  <2> HIDE DEF claims
  <2>3. (answer.escalate \/ \E h \in claims : h.confidence < MinConfidence) \in BOOLEAN
    OBVIOUS
  <2> DEFINE result == Grounded(answer)
  <2>4. result \in [hypotheses : Seq(Hypothesis), escalate : BOOLEAN, by : Makers]
    BY <1>1, <2>1, <2>3 DEF Makers
  <2>5. result.hypotheses = answer.hypotheses /\ result.by = "model"
    BY <2>1
  <2>6. result.escalate = (answer.escalate \/ \E h \in claims : h.confidence < MinConfidence)
    BY <2>1
  <2> HIDE DEF result
  <2>7. \A n \in DOMAIN answer.hypotheses : answer.hypotheses[n].refs \subseteq EvidenceSources
    BY <1>3, <2>2
  <2>8. \A n \in DOMAIN answer.hypotheses :
          answer.hypotheses[n].confidence < MinConfidence => result.escalate
    BY <2>2, <2>6
  <2>9. Sound(result)
    BY <2>4, <2>5, <2>7, <2>8 DEF Sound
  <2> QED
    BY <2>9 DEF result
<1> QED
  BY <1>2, <1>3

(* Whoever makes the plan, it cites sources; if it is not the model, it    *)
(* passes an escalation on.                                                *)
PlanTypes == [refs : SUBSET Refs, score : 0 .. 100, recommended : BOOLEAN,
              changes : SUBSET {"suspect"}, by : Makers]

SoundPlan(result) ==
  /\ result \in PlanTypes
  /\ result.refs \subseteq EvidenceSources
  /\ result.by \in {"rules", "fallback"} /\ rca.escalate =>
       ~result.recommended /\ High(result.score)

LEMMA Defaults ==
  ASSUME GroundInv
  PROVE  DefaultRefs \in SUBSET Refs /\ DefaultRefs \subseteq EvidenceSources
  BY SourceTypes DEF GroundInv, DefaultRefs

LEMMA Scores ==
  ASSUME GraphTypeOK
  PROVE  RiskScore \in 0 .. 100 /\ (rca.escalate => RiskScore = 90)
<1>1. rca.escalate \in BOOLEAN /\ setup.critical \in BOOLEAN
  BY DEF GraphTypeOK, SetupShape
<1>2. CASE rca.escalate
  BY <1>2 DEF RiskScore
<1>3. CASE ~rca.escalate /\ setup.critical
  BY <1>3 DEF RiskScore
<1>4. CASE ~rca.escalate /\ ~setup.critical
  BY <1>4 DEF RiskScore
<1> QED
  BY <1>1, <1>2, <1>3, <1>4

LEMMA RulesPlanSound ==
  ASSUME GraphTypeOK, GroundInv
  PROVE  SoundPlan(RulesPlan) /\ SoundPlan([RulesPlan EXCEPT !.by = "fallback"])
<1>1. /\ RulesPlan.refs = DefaultRefs /\ RulesPlan.score = RiskScore
      /\ RulesPlan.recommended = (repository # "unknown" /\ ~rca.escalate)
      /\ RulesPlan.by = "rules"
  BY DEF RulesPlan
<1>2. RulesPlan \in PlanTypes
  BY Defaults, Scores DEF RulesPlan, PlanTypes, Makers
<1>3. rca.escalate => ~RulesPlan.recommended /\ High(RulesPlan.score)
  <2>1. SUFFICES ASSUME rca.escalate PROVE ~RulesPlan.recommended /\ High(RulesPlan.score)
    OBVIOUS
  <2>2. ~RulesPlan.recommended
    BY <1>1, <2>1, Zenon
  <2>3. RulesPlan.score = 90
    BY <1>1, <2>1, Scores
  <2> QED
    BY <2>2, <2>3 DEF High
<1>4. SoundPlan(RulesPlan)
  BY <1>1, <1>2, <1>3, Defaults DEF SoundPlan
<1> DEFINE fallback == [RulesPlan EXCEPT !.by = "fallback"]
<1>5. /\ fallback.refs = RulesPlan.refs /\ fallback.score = RulesPlan.score
      /\ fallback.recommended = RulesPlan.recommended /\ fallback.by = "fallback"
      /\ fallback \in PlanTypes
  BY <1>2 DEF PlanTypes, Makers
<1> HIDE DEF fallback
<1>6. SoundPlan(fallback)
  BY <1>1, <1>3, <1>5, Defaults DEF SoundPlan
<1> QED
  BY <1>4, <1>6 DEF fallback

LEMMA GroundedPlanSound ==
  ASSUME GraphTypeOK, GroundInv, NEW answer \in PlanAnswers
  PROVE  SoundPlan(GroundedPlan(answer))
<1>1. /\ answer.refs \in SUBSET Refs /\ answer.score \in 0 .. 100
      /\ answer.recommended \in BOOLEAN
  BY GraphAssumption DEF PlanShape
<1> DEFINE refs == IF answer.refs \cap DefaultRefs # {} THEN answer.refs \cap DefaultRefs
                   ELSE DefaultRefs
<1>2. refs \in SUBSET Refs /\ refs \subseteq EvidenceSources
  BY <1>1, Defaults
<1>3. GroundedPlan(answer) = [refs |-> refs, score |-> answer.score,
        recommended |-> answer.recommended, changes |-> {}, by |-> "model"]
  BY DEF GroundedPlan
<1> HIDE DEF refs
<1> QED
  BY <1>1, <1>2, <1>3 DEF SoundPlan, PlanTypes, Makers

-----------------------------------------------------------------------------
(* The lists.                                                              *)

LEMMA Joined ==
  ASSUME NEW s \in Seq(Entries), NEW t \in Seq(Entries)
  PROVE  s \o t \in Seq(Entries) /\ <<>> \o t = t
  OBVIOUS

(* A node's update may touch model_calls whenever it likes, and the others *)
(* before they are in the streamed state.                                  *)
LEMMA Updated ==
  ASSUME GraphTypeOK, StreamedIsState, NEW update, Update(update),
         DOMAIN update \subseteq Lists,
         \A l \in DOMAIN update : update[l] \in Seq(Entries),
         \A l \in DOMAIN update \cap DOMAIN streamed : l \in Annotated
  PROVE  /\ log' \in [Lists -> Seq(Entries)]
         /\ DOMAIN streamed' = DOMAIN streamed \cup DOMAIN update
         /\ \A l \in DOMAIN streamed' : streamed'[l] \in Seq(Entries)
         /\ StreamedIsState'
<1>1. /\ log \in [Lists -> Seq(Entries)]
      /\ \A l \in DOMAIN streamed : streamed[l] \in Seq(Entries)
      /\ DOMAIN streamed \subseteq Lists
  BY DEF GraphTypeOK
<1>2. /\ log' = Reduced(update) /\ streamed' = Merged(update)
  BY DEF Update
<1>3. DOMAIN streamed' = DOMAIN streamed \cup DOMAIN update
  BY <1>2 DEF Merged
<1>4. \A l \in DOMAIN streamed' : streamed'[l] \in Seq(Entries)
  BY <1>1, <1>2, <1>3, Joined DEF Merged
<1>5. log' \in [Lists -> Seq(Entries)]
  BY <1>1, <1>2, Joined DEF Reduced
<1>6. ASSUME NEW l \in Lists
      PROVE  log'[l] = IF l \in DOMAIN streamed' THEN streamed'[l] ELSE <<>>
  <2>1. log[l] = IF l \in DOMAIN streamed THEN streamed[l] ELSE <<>>
    BY DEF StreamedIsState
  <2>2. CASE l \notin DOMAIN update
    BY <1>2, <1>3, <2>1, <2>2 DEF Reduced, Merged
  <2>3. CASE l \in DOMAIN update /\ l \in DOMAIN streamed
    BY <1>2, <1>3, <2>1, <2>3 DEF Reduced, Merged
  <2>4. CASE l \in DOMAIN update /\ l \notin DOMAIN streamed
    <3>1. log'[l] = IF l \in Annotated THEN <<>> \o update[l] ELSE update[l]
      BY <1>2, <2>1, <2>4 DEF Reduced
    <3>2. streamed'[l] = update[l]
      BY <1>2, <1>3, <2>4 DEF Merged
    <3> QED
      BY <1>1, <1>3, <2>4, <3>1, <3>2, Joined
  <2> QED
    BY <2>2, <2>3, <2>4
<1> QED
  BY <1>3, <1>4, <1>5, <1>6 DEF StreamedIsState

-----------------------------------------------------------------------------
(* Each action keeps the invariant.                                        *)

LEMMA InitInv == GraphInit => GraphInv
<1> SUFFICES ASSUME GraphInit PROVE GraphInv
  OBVIOUS
<1>1. GraphTypeOK
  <2>1. NoRca \in [hypotheses : Seq(Hypothesis), escalate : BOOLEAN, by : Makers]
    BY DEF NoRca, Makers
  <2>2. NoPlan \in PlanTypes
    BY DEF NoPlan, PlanTypes, Makers
  <2>3. setup \in SetupShape
    BY GraphAssumption DEF GraphInit
  <2>4. log \in [Lists -> Seq(Entries)]
    BY DEF GraphInit
  <2> QED
    BY <2>1, <2>2, <2>3, <2>4
    DEF GraphInit, GraphTypeOK, PlanTypes, Nodes, Reach, Statuses, Lists
<1>2. ReadInv /\ OrderInv
  BY DEF GraphInit, ReadInv, OrderInv, Collectors
<1>3. GroundInv
  BY DEF GraphInit, GroundInv, NoRca, NoPlan
<1>4. EscalationHolds
  BY DEF GraphInit, EscalationHolds, NoRca, NoPlan
<1>5. FileReadAllowed /\ StreamedIsState
  BY DEF GraphInit, FileReadAllowed, StreamedIsState
<1> QED
  BY <1>1, <1>2, <1>3, <1>4, <1>5 DEF GraphInv

(* Steps that only the node and the context of the run are changed by.     *)
LEMMA MonitorStep ==
  ASSUME GraphInv, Monitor
  PROVE  GraphInv'
<1>1. setup' \in SetupShape /\ asked' \subseteq Prompts
  BY SetupTypes DEF GraphInv, GraphTypeOK, Monitor, Ask, Prompts
<1>2. GraphTypeOK'
  BY <1>1 DEF GraphInv, GraphTypeOK, Monitor, Nodes
<1>3. ReadInv' /\ OrderInv'
  BY DEF GraphInv, ReadInv, OrderInv, Monitor
<1>4. GroundInv' /\ EscalationHolds' /\ FileReadAllowed' /\ StreamedIsState'
  BY DEF GraphInv, GroundInv, EvidenceSources, EscalationHolds, FileReadAllowed,
         StreamedIsState, Monitor
<1> QED
  BY <1>2, <1>3, <1>4 DEF GraphInv

LEMMA CorrelateStep ==
  ASSUME GraphInv, Correlate
  PROVE  GraphInv'
<1>1. repository' \in Reach
  BY SetupTypes DEF GraphInv, GraphTypeOK, Correlate
<1>2. GraphTypeOK'
  BY <1>1 DEF GraphInv, GraphTypeOK, Correlate, Nodes
<1>3. bundle["github"] = "none"
  BY DEF GraphInv, OrderInv, ReadInv, Correlate, Collectors
<1>4. ReadInv' /\ OrderInv'
  BY <1>3 DEF GraphInv, ReadInv, OrderInv, Correlate
<1>5. GroundInv' /\ EscalationHolds' /\ FileReadAllowed' /\ StreamedIsState'
  BY DEF GraphInv, GroundInv, EvidenceSources, EscalationHolds, FileReadAllowed,
         StreamedIsState, Correlate
<1> QED
  BY <1>2, <1>4, <1>5 DEF GraphInv

LEMMA FailStep ==
  ASSUME GraphInv, StreamFails
  PROVE  GraphInv'
<1>1. GraphTypeOK'
  BY DEF GraphInv, GraphTypeOK, StreamFails, Nodes
<1>2. ReadInv' /\ OrderInv'
  BY DEF GraphInv, ReadInv, OrderInv, StreamFails
<1>3. GroundInv' /\ EscalationHolds' /\ FileReadAllowed' /\ StreamedIsState'
  BY DEF GraphInv, GroundInv, EvidenceSources, EscalationHolds, FileReadAllowed,
         StreamedIsState, StreamFails
<1> QED
  BY <1>1, <1>2, <1>3 DEF GraphInv

(* While sources are read nothing has been concluded, so what is concluded *)
(* rests on all of them.                                                   *)
Collecting(s) ==
  /\ Reading(s)
  /\ UNCHANGED <<node, setup, repository, rca, plan, report, embedded,
                 log, streamed, asked, fileOf>>

LEMMA CollectKeeps ==
  ASSUME GraphInv, NEW s \in Collectors, Collecting(s)
  PROVE  OrderInv' /\ GroundInv' /\ EscalationHolds' /\ FileReadAllowed' /\ StreamedIsState'
<1>1. node = "collect" /\ rca = NoRca /\ plan = NoPlan
  BY DEF Collecting, Reading, GraphInv, OrderInv
<1>2. OrderInv' /\ FileReadAllowed' /\ StreamedIsState'
  BY <1>1 DEF Collecting, GraphInv, OrderInv, FileReadAllowed, StreamedIsState
<1>3. GroundInv' /\ EscalationHolds'
  BY <1>1 DEF Collecting, GroundInv, EscalationHolds, NoRca, NoPlan
<1> QED
  BY <1>2, <1>3

LEMMA CollectTypes ==
  ASSUME GraphInv, NEW s \in Collectors, Collecting(s),
         bundle' \in [Collectors -> {"none", "empty", "rows"}],
         status' \in [Collectors -> Statuses],
         tries' \in [Collectors -> {n \in Nat : n <= 1 \/ n <= ReadAttempts}]
  PROVE  GraphTypeOK'
  BY DEF Collecting, GraphInv, GraphTypeOK

LEMMA RefuseStep ==
  ASSUME GraphInv, NEW s \in Collectors, Refuse(s)
  PROVE  GraphInv'
<1>1. Collecting(s)
  BY DEF Refuse, Collecting
<1>2. GraphTypeOK'
  BY <1>1, CollectTypes DEF Refuse, GraphInv, GraphTypeOK, Statuses
<1>3. ReadInv'
  BY DEF Refuse, Reading, GraphInv, GraphTypeOK, ReadInv
<1> QED
  BY <1>1, <1>2, <1>3, CollectKeeps DEF GraphInv

LEMMA RetryStep ==
  ASSUME GraphInv, NEW s \in Collectors, RetryRead(s)
  PROVE  GraphInv'
<1>1. Collecting(s)
  BY DEF RetryRead, Collecting
<1>2. tries[s] \in Nat /\ ReadAttempts \in Nat /\ tries[s] + 1 < ReadAttempts
  BY GraphAssumption DEF RetryRead, MayRetry, GraphInv, GraphTypeOK
<1>3. GraphTypeOK'
  BY <1>1, <1>2, CollectTypes DEF RetryRead, GraphInv, GraphTypeOK
<1>4. ReadInv'
  BY <1>2 DEF RetryRead, GraphInv, GraphTypeOK, ReadInv
<1> QED
  BY <1>1, <1>3, <1>4, CollectKeeps DEF GraphInv

LEMMA ReadStep ==
  ASSUME GraphInv, NEW s \in Collectors, Read(s)
  PROVE  GraphInv'
<1>1. Collecting(s)
  BY DEF Read, Collecting
<1>2. PICK outcome \in Outcomes(s) :
        /\ bundle' = [bundle EXCEPT ![s] = Given(outcome)]
        /\ status' = [status EXCEPT ![s] = StatusOf(outcome)]
  BY DEF Read
<1>3. Given(outcome) \in {"none", "empty", "rows"}
  BY DEF Given
<1>4. StatusOf(outcome) \in {"completed", "partial", "unavailable", "timeout", "failed"}
  BY DEF StatusOf
<1>5. Given(outcome) # "none" => StatusOf(outcome) \in {"completed", "partial", "failed"}
  BY DEF Given, StatusOf
<1>6. tries[s] \in Nat /\ ReadAttempts \in Nat /\ (tries[s] = 0 \/ tries[s] < ReadAttempts)
  BY GraphAssumption DEF Read, Reading, GraphInv, GraphTypeOK, ReadInv
<1>7. GraphTypeOK'
  <2>1. bundle' \in [Collectors -> {"none", "empty", "rows"}]
    BY <1>2, <1>3 DEF GraphInv, GraphTypeOK
  <2>2. status' \in [Collectors -> Statuses]
    BY <1>2, <1>4 DEF GraphInv, GraphTypeOK, Statuses
  <2>3. tries' \in [Collectors -> {n \in Nat : n <= 1 \/ n <= ReadAttempts}]
    BY <1>6 DEF Read, GraphInv, GraphTypeOK
  <2> QED
    BY <1>1, <2>1, <2>2, <2>3, CollectTypes
<1>8. ReadInv'
  <2>1. ASSUME NEW r \in Collectors
        PROVE  /\ status'[r] = "pending" => bundle'[r] = "none"
               /\ status'[r] = "pending" => tries'[r] = 0 \/ tries'[r] < ReadAttempts
               /\ bundle'[r] # "none" => status'[r] \in {"partial", "completed", "failed"}
    <3>1. CASE r = s
      BY <1>2, <1>4, <1>5, <3>1 DEF GraphInv, GraphTypeOK
    <3>2. CASE r # s
      BY <1>2, <3>2 DEF Read, GraphInv, GraphTypeOK, ReadInv
    <3> QED
      BY <3>1, <3>2
  <2>2. bundle'["github"] # "none" => repository' = "allowed"
    <3>1. CASE s = "github"
      BY <3>1 DEF Read, Admitted, Target
    <3>2. CASE s # "github"
      BY <1>2, <3>2 DEF Read, GraphInv, ReadInv, GraphTypeOK, Collectors
    <3> QED
      BY <3>1, <3>2
  <2> QED
    BY <2>1, <2>2 DEF ReadInv
<1> QED
  BY <1>1, <1>7, <1>8, CollectKeeps DEF GraphInv

(* The RCA node returns a sound result, whichever way it was made.         *)
LEMMA ConcludeStep ==
  ASSUME GraphInv, NEW result, Sound(result), NEW prompts \in Seq(Prompts),
         Conclude(result, prompts), asked' \subseteq Prompts, UNCHANGED repository
  PROVE  GraphInv'
<1> DEFINE named == [n \in DOMAIN result.hypotheses |-> "rca"]
           update == [l \in {"model_calls", "rca_hypotheses"} |->
                        IF l = "model_calls" THEN prompts ELSE named]
<1>1. /\ node = "collect" /\ node' = "remediation" /\ rca' = result
      /\ plan = NoPlan /\ "rca_hypotheses" \notin DOMAIN streamed
      /\ "embedding_texts" \notin DOMAIN streamed
      /\ Update(update)
      /\ UNCHANGED <<setup, bundle, status, tries, plan, report, embedded, fileOf>>
  BY DEF Conclude, GraphInv, OrderInv
<1>2. named \in Seq(Entries)
  <2>1. result.hypotheses \in Seq(Hypothesis)
    BY DEF Sound
  <2>2. PICK k \in Nat : DOMAIN result.hypotheses = 1 .. k
    BY <2>1
  <2> QED
    BY <2>2 DEF Entries, Prompts
<1>3. DOMAIN update = {"model_calls", "rca_hypotheses"}
  OBVIOUS
<1>4. \A l \in DOMAIN update : update[l] \in Seq(Entries)
  <2>1. prompts \in Seq(Entries)
    BY DEF Entries
  <2> HIDE DEF named
  <2> QED
    BY <1>2, <2>1
<1> HIDE DEF update
<1>5. /\ log' \in [Lists -> Seq(Entries)]
      /\ DOMAIN streamed' = DOMAIN streamed \cup {"model_calls", "rca_hypotheses"}
      /\ \A l \in DOMAIN streamed' : streamed'[l] \in Seq(Entries)
      /\ StreamedIsState'
  BY <1>1, <1>3, <1>4, Updated DEF GraphInv, Lists, Annotated
<1>6. GraphTypeOK'
  BY <1>1, <1>5 DEF Sound, GraphInv, GraphTypeOK, Nodes, Lists
<1>7. ReadInv'
  BY <1>1 DEF GraphInv, ReadInv
<1>8. OrderInv'
  BY <1>1, <1>5 DEF OrderInv
<1>9. EvidenceSources' = EvidenceSources
  BY <1>1 DEF EvidenceSources
<1>10. GroundInv'
  BY <1>1, <1>9 DEF GroundInv, Sound, NoPlan
<1>11. EscalationHolds'
  BY <1>1, <1>9 DEF EscalationHolds, Sound, NoPlan
<1>12. FileReadAllowed'
  BY <1>1 DEF GraphInv, FileReadAllowed
<1> QED
  BY <1>5, <1>6, <1>7, <1>8, <1>10, <1>11, <1>12 DEF GraphInv

LEMMA HypothesizeStep ==
  ASSUME GraphInv, HypothesizeByRules \/ HypothesisFails \/ Hypothesize
  PROVE  GraphInv'
<1>1. <<>> \in Seq(Prompts) /\ <<"rca">> \in Seq(Prompts)
  BY DEF Prompts
<1>2. asked \subseteq Prompts /\ asked \cup {"rca"} \subseteq Prompts
  BY DEF GraphInv, GraphTypeOK, Prompts
<1>3. CASE HypothesizeByRules
  BY <1>1, <1>2, <1>3, RulesSound, ConcludeStep DEF HypothesizeByRules, Conclude
<1>4. CASE HypothesisFails
  BY <1>1, <1>2, <1>4, FailedSound, ConcludeStep DEF HypothesisFails, Ask, Conclude
<1>5. CASE Hypothesize
  BY <1>1, <1>2, <1>5, GroundedSound, ConcludeStep DEF Hypothesize, Ask, Conclude
<1> QED
  BY <1>3, <1>4, <1>5

(* A sound plan is drafted.                                                *)
LEMMA DraftStep ==
  ASSUME GraphInv, NEW result, SoundPlan(result), Draft(result), asked' \subseteq Prompts
  PROVE  GraphInv'
<1>1. GraphTypeOK'
  BY DEF Draft, SoundPlan, PlanTypes, GraphInv, GraphTypeOK, Nodes
<1>2. ReadInv' /\ OrderInv'
  BY DEF Draft, GraphInv, ReadInv, OrderInv
<1>3. EvidenceSources' = EvidenceSources /\ rca' = rca /\ plan' = result
  BY DEF Draft, EvidenceSources
<1>4. GroundInv'
  BY <1>3 DEF SoundPlan, GraphInv, GroundInv
<1>5. EscalationHolds'
  BY <1>3 DEF SoundPlan, GraphInv, EscalationHolds
<1>6. FileReadAllowed' /\ StreamedIsState'
  BY DEF Draft, GraphInv, FileReadAllowed, StreamedIsState
<1> QED
  BY <1>1, <1>2, <1>4, <1>5, <1>6 DEF GraphInv

LEMMA PlanStep ==
  ASSUME GraphInv, PlanByRules \/ PlanFails \/ MakePlan
  PROVE  GraphInv'
<1>1. asked \subseteq Prompts /\ asked \cup {"plan"} \subseteq Prompts
  BY DEF GraphInv, GraphTypeOK, Prompts
<1>2. /\ SoundPlan(RulesPlan) /\ SoundPlan([RulesPlan EXCEPT !.by = "fallback"])
      /\ \A answer \in PlanAnswers : SoundPlan(GroundedPlan(answer))
  BY RulesPlanSound, GroundedPlanSound DEF GraphInv
<1>3. CASE PlanByRules
  BY <1>1, <1>2, <1>3, DraftStep DEF PlanByRules
<1>4. CASE PlanFails
  BY <1>1, <1>2, <1>4, DraftStep DEF PlanFails, Ask
<1>5. CASE MakePlan
  BY <1>1, <1>2, <1>5, DraftStep DEF MakePlan, Ask
<1> QED
  BY <1>3, <1>4, <1>5

(* The nodes after the RCA keep the evidence and the hypotheses, and write *)
(* one list each.                                                          *)
Writes(list, entries) ==
  Update([l \in {list} |-> entries])

LEMMA LaterStep ==
  ASSUME GraphInv, NEW list \in Lists, NEW entries \in Seq(Entries), Writes(list, entries),
         list \in Annotated \/ list = "embedding_texts",
         node \in {"fix", "patch", "documentation", "embedding"},
         node' \in {"documentation", "embedding", "end"},
         list = "embedding_texts" => node' = "end" /\ node = "embedding",
         plan' \in PlanTypes, plan'.refs = plan.refs, plan'.by = plan.by,
         plan'.score = plan.score, plan'.recommended = plan.recommended,
         report' \subseteq Refs, embedded' \in {"nothing", "texts", "vectors"},
         asked' \subseteq Prompts,
         UNCHANGED <<setup, repository, bundle, status, tries, rca, fileOf>>
  PROVE  GraphInv'
<1> DEFINE update == [l \in {list} |-> entries]
<1>1. DOMAIN update = {list} /\ update[list] = entries
  OBVIOUS
<1>2. Update(update)
  BY DEF Writes
<1> HIDE DEF update
<1>3. \A l \in {list} \cap DOMAIN streamed : l \in Annotated
  BY DEF GraphInv, OrderInv
<1>4. /\ log' \in [Lists -> Seq(Entries)]
      /\ DOMAIN streamed' = DOMAIN streamed \cup {list}
      /\ \A l \in DOMAIN streamed' : streamed'[l] \in Seq(Entries)
      /\ StreamedIsState'
  BY <1>1, <1>2, <1>3, Updated DEF GraphInv
<1>5. GraphTypeOK'
  BY <1>4 DEF PlanTypes, GraphInv, GraphTypeOK, Nodes
<1>6. ReadInv'
  BY DEF GraphInv, ReadInv
<1>7. OrderInv'
  BY <1>4 DEF GraphInv, OrderInv, Annotated
<1>8. GroundInv'
  BY DEF GraphInv, GroundInv, EvidenceSources
<1>9. EscalationHolds' /\ FileReadAllowed'
  BY DEF GraphInv, EscalationHolds, EvidenceSources, FileReadAllowed
<1> QED
  BY <1>4, <1>5, <1>6, <1>7, <1>8, <1>9 DEF GraphInv

LEMMA CallLists ==
  /\ "model_calls" \in Lists /\ "model_calls" \in Annotated /\ "model_calls" # "embedding_texts"
  /\ <<>> \in Seq(Entries) /\ <<"plan">> \in Seq(Entries) /\ <<"fix">> \in Seq(Entries)
  /\ <<"report">> \in Seq(Entries) /\ <<"texts">> \in Seq(Entries)
  BY DEF Lists, Annotated, Entries, Prompts

LEMMA PlannedWrites ==
  ASSUME NEW prompts \in {<<>>, <<"fix">>}, Planned(prompts)
  PROVE  \E entries \in Seq(Entries) : Writes("model_calls", entries)
<1> DEFINE first == IF setup.llm THEN <<"plan">> ELSE <<>>
<1>1. first \in Seq(Entries) /\ prompts \in Seq(Entries)
  BY CallLists
<1>2. Writes("model_calls", first \o prompts)
  BY DEF Planned, Recorded, Writes
<1> HIDE DEF first
<1>3. first \o prompts \in Seq(Entries)
  BY <1>1, Joined
<1> QED
  BY <1>2, <1>3

LEMMA SkipStep ==
  ASSUME GraphInv, SkipFix
  PROVE  GraphInv'
<1>1. PICK entries \in Seq(Entries) : Writes("model_calls", entries)
  BY PlannedWrites DEF SkipFix
<1> QED
  BY <1>1, CallLists, LaterStep
  DEF SkipFix, Planned, GraphInv, GraphTypeOK, PlanTypes

LEMMA ReadSuspectStep ==
  ASSUME GraphInv, ReadSuspect
  PROVE  GraphInv'
<1>1. fileOf' = "allowed" /\ fileOf' \in Reach
  BY DEF ReadSuspect, GraphInv, ReadInv, Reach
<1>2. GraphTypeOK'
  BY <1>1 DEF ReadSuspect, GraphInv, GraphTypeOK, Nodes
<1>3. ReadInv' /\ OrderInv'
  BY DEF ReadSuspect, GraphInv, ReadInv, OrderInv
<1>4. FileReadAllowed'
  BY <1>1 DEF FileReadAllowed
<1>5. GroundInv' /\ EscalationHolds' /\ StreamedIsState'
  BY DEF ReadSuspect, GraphInv, GroundInv, EvidenceSources, EscalationHolds, StreamedIsState
<1> QED
  BY <1>2, <1>3, <1>4, <1>5 DEF GraphInv

LEMMA ProposeStep ==
  ASSUME GraphInv, ProposeFix
  PROVE  GraphInv'
<1>1. /\ node = "patch" /\ node' = "documentation"
      /\ UNCHANGED <<setup, repository, bundle, status, tries, rca, report, embedded, fileOf>>
  BY DEF ProposeFix, Planned
<1>2. PICK entries \in Seq(Entries) : Writes("model_calls", entries)
  BY PlannedWrites DEF ProposeFix
<1>3. asked' \subseteq Prompts
  BY DEF ProposeFix, Ask, GraphInv, GraphTypeOK, Prompts
<1>4. plan \in PlanTypes
  BY DEF GraphInv, GraphTypeOK, PlanTypes
<1>5. /\ plan' \in PlanTypes /\ plan'.refs = plan.refs /\ plan'.by = plan.by
      /\ plan'.score = plan.score /\ plan'.recommended = plan.recommended
  <2>1. CASE UNCHANGED plan
    BY <1>4, <2>1
  <2>2. ASSUME NEW changes \in SUBSET {"suspect", "other", "same"},
               plan' = [plan EXCEPT !.changes = changes \cap {"suspect"}]
        PROVE  /\ plan' \in PlanTypes /\ plan'.refs = plan.refs /\ plan'.by = plan.by
               /\ plan'.score = plan.score /\ plan'.recommended = plan.recommended
    BY <1>4, <2>2 DEF PlanTypes
  <2> QED
    BY <2>1, <2>2 DEF ProposeFix
<1>6. report' \subseteq Refs /\ embedded' \in {"nothing", "texts", "vectors"}
  BY <1>1 DEF GraphInv, GraphTypeOK
<1> QED
  BY <1>1, <1>2, <1>3, <1>5, <1>6, CallLists, LaterStep

LEMMA DocumentStep ==
  ASSUME GraphInv, NEW refs \in SUBSET Refs, NEW entries \in Seq(Entries),
         Document(refs, entries), asked' \subseteq Prompts
  PROVE  GraphInv'
<1>1. /\ node = "documentation" /\ node' = "embedding" /\ report' = refs
      /\ Writes("model_calls", entries)
      /\ UNCHANGED <<setup, repository, bundle, status, tries, rca, plan, embedded, fileOf>>
  BY DEF Document, Recorded, Writes
<1>2. plan' \in PlanTypes /\ embedded' \in {"nothing", "texts", "vectors"}
  BY <1>1 DEF GraphInv, GraphTypeOK, PlanTypes
<1> QED
  BY <1>1, <1>2, CallLists, LaterStep

LEMMA ReportStep ==
  ASSUME GraphInv, ReportByRules \/ ReportFails \/ MakeReport
  PROVE  GraphInv'
<1>1. asked \subseteq Prompts /\ asked \cup {"report"} \subseteq Prompts
  BY DEF GraphInv, GraphTypeOK, Prompts
<1>2. DefaultRefs \cup plan.refs \in SUBSET Refs
  BY Defaults, SourceTypes DEF GraphInv, GroundInv
<1>3. ReportAnswers \subseteq SUBSET Refs
  BY GraphAssumption
<1>4. CASE ReportByRules
  BY <1>1, <1>2, <1>4, CallLists, DocumentStep DEF ReportByRules
<1>5. CASE ReportFails
  BY <1>1, <1>2, <1>5, CallLists, DocumentStep DEF ReportFails, Ask
<1>6. CASE MakeReport
  BY <1>1, <1>3, <1>6, CallLists, DocumentStep DEF MakeReport, Ask
<1> QED
  BY <1>4, <1>5, <1>6

LEMMA EmbedStep ==
  ASSUME GraphInv, Embed
  PROVE  GraphInv'
<1>1. /\ node = "embedding" /\ node' = "end"
      /\ UNCHANGED <<setup, repository, bundle, status, tries, rca, plan, report, asked, fileOf>>
  BY DEF Embed
<1>2. embedded' \in {"nothing", "texts", "vectors"}
  BY DEF Embed
<1> DEFINE entries == IF embedded' = "nothing" THEN <<>> ELSE <<"texts">>
<1>3. entries \in Seq(Entries)
  BY CallLists
<1>4. Writes("embedding_texts", entries) /\ "embedding_texts" \in Lists
  BY DEF Embed, Writes, Lists
<1> HIDE DEF entries
<1>5. plan' \in PlanTypes /\ report' \subseteq Refs /\ asked' \subseteq Prompts
  BY <1>1 DEF GraphInv, GraphTypeOK, PlanTypes
<1> QED
  BY <1>1, <1>2, <1>3, <1>4, <1>5, LaterStep

-----------------------------------------------------------------------------
(* The invariant holds of every run.                                       *)
THEOREM GraphInvariance == GraphSpec => []GraphInv
<1>1. GraphInv /\ [GraphNext]_graphVars => GraphInv'
  <2> SUFFICES ASSUME GraphInv, [GraphNext]_graphVars PROVE GraphInv'
    OBVIOUS
  <2>1. CASE UNCHANGED graphVars
    BY <2>1
    DEF graphVars, GraphInv, GraphTypeOK, ReadInv, OrderInv, GroundInv, EvidenceSources,
        EscalationHolds, FileReadAllowed, StreamedIsState
  <2>2. CASE Monitor \/ Correlate \/ StreamFails
    BY <2>2, MonitorStep, CorrelateStep, FailStep
  <2>3. CASE \E s \in Collectors : Refuse(s) \/ RetryRead(s) \/ Read(s)
    BY <2>3, RefuseStep, RetryStep, ReadStep
  <2>4. CASE HypothesizeByRules \/ HypothesisFails \/ Hypothesize
    BY <2>4, HypothesizeStep
  <2>5. CASE PlanByRules \/ PlanFails \/ MakePlan
    BY <2>5, PlanStep
  <2>6. CASE SkipFix \/ ReadSuspect \/ ProposeFix
    BY <2>6, SkipStep, ReadSuspectStep, ProposeStep
  <2>7. CASE ReportByRules \/ ReportFails \/ MakeReport \/ Embed
    BY <2>7, ReportStep, EmbedStep
  <2> QED
    BY <2>1, <2>2, <2>3, <2>4, <2>5, <2>6, <2>7 DEF GraphNext
<1> QED
  BY InitInv, <1>1, PTL DEF GraphSpec

(* Every state of a run is well typed, and no source is read more often    *)
(* than read_with_retries allows.                                          *)
THEOREM GraphTypeCorrect == GraphSpec => []GraphTypeOK
<1>1. GraphInv => GraphTypeOK
  BY DEF GraphInv
<1> QED
  BY GraphInvariance, <1>1, PTL

(* No answer of a model and no failure of a read makes a hypothesis or a   *)
(* plan cite what was made up, or a source that was not read.              *)
THEOREM Citations == GraphSpec => []CitationsRead
<1>1. GraphInv => CitationsRead
  <2> SUFFICES ASSUME GraphInv PROVE CitationsRead
    OBVIOUS
  <2>1. Cited \subseteq EvidenceSources
    BY DEF GraphInv, GroundInv, Cited
  <2>2. EvidenceSources \subseteq {Known} \cup Collectors
    BY DEF EvidenceSources
  <2>3. ASSUME NEW s \in Cited \cap Collectors
        PROVE  status[s] \notin {"pending", "skipped", "forbidden", "unavailable", "timeout"}
    <3>1. bundle[s] # "none"
      BY <2>1 DEF EvidenceSources, Known, Collectors
    <3> QED
      BY <3>1 DEF GraphInv, ReadInv
  <2> QED
    BY <2>1, <2>2, <2>3 DEF CitationsRead
<1> QED
  BY GraphInvariance, <1>1, PTL

(* The remediation agent reads files of allowed repositories only.         *)
THEOREM FilesAllowed == GraphSpec => []FileReadAllowed
<1>1. GraphInv => FileReadAllowed
  BY DEF GraphInv
<1> QED
  BY GraphInvariance, <1>1, PTL

(* What has to escalate does, and a plan by the rules passes it on.        *)
THEOREM Escalation == GraphSpec => []EscalationHolds
<1>1. GraphInv => EscalationHolds
  BY DEF GraphInv
<1> QED
  BY GraphInvariance, <1>1, PTL

(* run_streaming returns the lists that the graph itself would return.     *)
THEOREM Streamed == GraphSpec => []StreamedIsState
<1>1. GraphInv => StreamedIsState
  BY DEF GraphInv
<1> QED
  BY GraphInvariance, <1>1, PTL

=============================================================================
