-------------------------- MODULE IncidentWorkflow --------------------------
(***************************************************************************)
(* The Temporal workflow of one incident (workflows/incident.py), the      *)
(* activities it awaits (workflows/activities.py) and the worker that runs *)
(* them.  The workflow walks                                               *)
(*                                                                         *)
(*   validate -> graph -> issue -> slack -> pr -> wait for signals         *)
(*                                                                         *)
(* and after every external action that succeeded writes the incident's    *)
(* status and a step event.  An activity is retried from its first line    *)
(* when an attempt raises, is lost with its worker or exceeds its          *)
(* start-to-close time-out; no activity heartbeats, so an attempt that     *)
(* timed out may still be running, and writing, beside its successor.      *)
(***************************************************************************)
EXTENDS Naturals, Sequences, FiniteSets

CONSTANTS
  Slots,          (* activity slots of the workers                          *)
  NoSlot,         (* the pending attempt is not running anywhere            *)
  Plans,          (* contents a remediation plan may have                   *)
  NoPlan,         (* no plan, no pull request                               *)
  Enabled,        (* external actions whose policy flag is on               *)
  MaxAttempts,    (* maximum_attempts of each activity's retry policy       *)
  MaxSignals,     (* bound: signals sent to the workflow                    *)
  FaultBudgets    (* bounds: faults of each kind, and writes of the API     *)

Activities == {"status", "event", "graph", "issue", "slack", "pr"}
External == {"issue", "slack", "pr"}
FaultKinds == {"crash", "slow", "error", "lag", "api"}

ASSUME SlotsAssumption == NoSlot \notin Slots
ASSUME PlansAssumption == NoPlan \notin Plans
ASSUME EnabledAssumption == Enabled \subseteq External
ASSUME AttemptsAssumption == MaxAttempts \in [Activities -> Nat \ {0}]
ASSUME BoundsAssumption == MaxSignals \in Nat /\ FaultBudgets \subseteq [FaultKinds -> Nat]

VARIABLES
  step,       (* the await the workflow is at                               *)
  wfStatus,   (* state.status of the workflow                               *)
  queue,      (* _signals                                                   *)
  handled,    (* signal_history: the last one may still be in hand          *)
  attempt,    (* number of the pending activity's current attempt           *)
  current,    (* the slot that runs this attempt                            *)
  running,    (* what each slot is doing                                    *)
  status,     (* incidents.status                                           *)
  closed,     (* incidents.closed_at is set                                 *)
  recorded,   (* kinds of artifact (issue, slack, pr) the database links    *)
  plans,      (* contents of the remediation_plans rows, oldest first       *)
  marked,     (* positions in plans of the rows with status PR_CREATED      *)
  issues,     (* GitHub: issues with this incident's marker                 *)
  posts,      (* Slack: notifications posted for this incident              *)
  pr,         (* GitHub: the plan the open remediation PR carries           *)
  faults      (* history: faults of each kind, and writes of the API        *)

workflow == <<step, wfStatus, handled>>
server == <<attempt, current>>
database == <<status, closed, recorded, plans, marked>>
world == <<issues, posts, pr>>
vars == <<workflow, queue, server, running, database, world, faults>>

-----------------------------------------------------------------------------
(* Statuses, signals and the steps of run().                               *)

Statuses == {"received", "validated", "rca_issue_created", "slack_notified",
             "pr_created", "approved", "escalated", "closed"}
Terminal == {"escalated", "closed"}

(* Mutant: resume puts the incident back to validated.                     *)
SignalStatusResumes == [approve |-> "approved", reject |-> "escalated",
                        escalate |-> "escalated", close |-> "closed",
                        resume |-> "validated"]

(* The status each signal writes; pause and resume only record an event.   *)
SignalStatus == [approve |-> "approved", reject |-> "escalated",
                 escalate |-> "escalated", close |-> "closed"]
Signals == {"pause", "resume"} \cup DOMAIN SignalStatus
Ending == {"reject", "escalate", "close"}

(* The status each step of the pipeline writes.                            *)
StepStatus == [validate |-> "validated", issue_status |-> "rca_issue_created",
               slack_status |-> "slack_notified", pr_status |-> "pr_created"]

(* The step that follows when the activity returned what it was asked for  *)
(* ("ok"), and where an external action that was skipped or failed leads   *)
(* (mutant: to the same place).                                            *)
Success == [validate |-> "graph", graph |-> "graph_event", graph_event |-> "issue",
            issue |-> "issue_status", issue_status |-> "issue_event",
            issue_event |-> "slack",
            slack |-> "slack_status", slack_status |-> "slack_event",
            slack_event |-> "pr",
            pr |-> "pr_status", pr_status |-> "pr_event", pr_event |-> "wait"]
SkipUnchecked == [issue |-> "issue_status", slack |-> "slack_status", pr |-> "pr_status"]
Skip == [issue |-> "slack", slack |-> "pr", pr |-> "wait"]

Pipeline == DOMAIN Success
Awaiting == Pipeline \cup {"handle"}
Ended == {"completed", "failed"}
Steps == Awaiting \cup Ended \cup {"wait"}

LastSignal == handled[Len(handled)]

(* The activity the workflow awaits, and the status it is to write.        *)
StatusArgument ==
  CASE step \in DOMAIN StepStatus -> StepStatus[step]
    [] step = "handle" /\ LastSignal \in DOMAIN SignalStatus -> SignalStatus[LastSignal]
    [] OTHER -> "received"

Activity ==
  CASE step \in DOMAIN StepStatus -> "status"
    [] step = "handle" /\ LastSignal \in DOMAIN SignalStatus -> "status"
    [] step \in External \cup {"graph"} -> step
    [] OTHER -> "event"

-----------------------------------------------------------------------------
(* Executions of activities.                                               *)

FirstPoint == [status |-> "write", event |-> "write", graph |-> "analyse",
               issue |-> "begin", slack |-> "begin", pr |-> "begin"]
Outcomes == {"ok", "notok"}
TryPoints == {"lookup", "create", "record"}
Points == {"idle", "write", "analyse", "list", "add", "begin", "plan", "catch"}
            \cup TryPoints \cup Outcomes

Executions == [act : Activities, to : Statuses, at : Points, plan : Plans \cup {NoPlan}]
Idle == [act |-> "event", to |-> "received", at |-> "idle", plan |-> NoPlan]

At(s, act, point) == running[s].act = act /\ running[s].at = point

Move(s, point) == running' = [running EXCEPT ![s].at = point]

(* A run stays within one of the budgets.                                  *)
Fault(kind) ==
  /\ \E budget \in FaultBudgets :
       /\ faults[kind] < budget[kind]
       /\ \A other \in FaultKinds : faults[other] <= budget[other]
  /\ faults' = [faults EXCEPT ![kind] = @ + 1]

Init ==
  /\ step = "validate"
  /\ wfStatus = "received"
  /\ queue = <<>>
  /\ handled = <<>>
  /\ attempt = 1
  /\ current = NoSlot
  /\ running = [s \in Slots |-> Idle]
  /\ status = "received"
  /\ closed = FALSE
  /\ recorded = {}
  /\ plans = <<>>
  /\ marked = {}
  /\ issues = 0
  /\ posts = 0
  /\ pr = NoPlan
  /\ faults = [kind \in FaultKinds |-> 0]

-----------------------------------------------------------------------------
(* The workflow and the Temporal server.                                   *)

(* A signal is delivered while the workflow runs, whatever it awaits.      *)
Signal(sig) ==
  /\ step \notin Ended
  /\ Len(handled) + Len(queue) < MaxSignals
  /\ queue' = Append(queue, sig)
  /\ UNCHANGED <<workflow, server, running, database, world, faults>>

Await(next) ==
  /\ step' = next
  /\ attempt' = 1
  /\ current' = NoSlot

(* Mutant: the queue is cleared once its first signal is taken.            *)
TakeSignalClears ==
  /\ step = "wait"
  /\ queue # <<>>
  /\ Await("handle")
  /\ queue' = <<>>
  /\ handled' = Append(handled, Head(queue))
  /\ wfStatus' = IF Head(queue) \in DOMAIN SignalStatus
                 THEN SignalStatus[Head(queue)] ELSE wfStatus
  /\ UNCHANGED <<running, database, world, faults>>

TakeSignal ==
  /\ step = "wait"
  /\ queue # <<>>
  /\ Await("handle")
  /\ queue' = Tail(queue)
  /\ handled' = Append(handled, Head(queue))
  /\ wfStatus' = IF Head(queue) \in DOMAIN SignalStatus
                 THEN SignalStatus[Head(queue)] ELSE wfStatus
  /\ UNCHANGED <<running, database, world, faults>>

(* run() sets its status after the first update and before the later ones. *)
StatusAfter(outcome) ==
  CASE step = "validate" -> "validated"
    [] step \in External /\ outcome = "ok" -> StepStatus[Success[step]]
    [] OTHER -> wfStatus

(* Mutant: only close completes the workflow.                              *)
AdvanceOnlyCloses(outcome) ==
  /\ Await(CASE step = "handle" -> IF LastSignal = "close" THEN "completed" ELSE "wait"
             [] step \in External /\ outcome = "notok" -> Skip[step]
             [] OTHER -> Success[step])
  /\ wfStatus' = StatusAfter(outcome)
  /\ UNCHANGED handled

Advance(outcome) ==
  /\ Await(CASE step = "handle" -> IF LastSignal \in Ending THEN "completed" ELSE "wait"
             [] step \in External /\ outcome = "notok" -> Skip[step]
             [] OTHER -> Success[step])
  /\ wfStatus' = StatusAfter(outcome)
  /\ UNCHANGED handled

Dispatch(s) ==
  /\ step \in Awaiting
  /\ current = NoSlot
  /\ running[s] = Idle
  /\ current' = s
  /\ running' = [running EXCEPT ![s] =
       [act |-> Activity, to |-> StatusArgument, at |-> FirstPoint[Activity], plan |-> NoPlan]]
  /\ UNCHANGED <<workflow, queue, attempt, database, world, faults>>

(* The result of an attempt the server has given up is rejected.           *)
Report(s) ==
  /\ running[s].at \in Outcomes
  /\ running' = [running EXCEPT ![s] = Idle]
  /\ IF s = current THEN Advance(running[s].at) ELSE UNCHANGED <<workflow, server>>
  /\ UNCHANGED <<queue, database, world, faults>>

(* Mutant: a status update that failed for good is swallowed.              *)
GiveUpCompletes ==
  /\ current' = NoSlot
  /\ IF attempt < MaxAttempts[Activity]
     THEN attempt' = attempt + 1 /\ UNCHANGED step
     ELSE /\ step' = IF step = "handle" THEN "completed" ELSE "failed"
          /\ UNCHANGED attempt
  /\ UNCHANGED <<wfStatus, handled>>

(* The current attempt is over without a result: retry, or fail the        *)
(* activity and with it the workflow, which catches nothing.               *)
GiveUp ==
  /\ current' = NoSlot
  /\ IF attempt < MaxAttempts[Activity]
     THEN attempt' = attempt + 1 /\ UNCHANGED step
     ELSE step' = "failed" /\ UNCHANGED attempt
  /\ UNCHANGED <<wfStatus, handled>>

(* Mutant: a first attempt has no time-out.                                *)
TimeOutRetriesOnly ==
  /\ current # NoSlot
  /\ running[current] = Idle
  /\ attempt > 1
  /\ GiveUp
  /\ UNCHANGED <<queue, running, database, world, faults>>

(* Start-to-close time-out of an attempt that is gone.                     *)
TimeOutLost ==
  /\ current # NoSlot
  /\ running[current] = Idle
  /\ GiveUp
  /\ UNCHANGED <<queue, running, database, world, faults>>

(* Start-to-close time-out of an attempt that is only slow.                *)
TimeOutSlow ==
  /\ current # NoSlot
  /\ running[current] # Idle
  /\ Fault("slow")
  /\ GiveUp
  /\ UNCHANGED <<queue, running, database, world>>

(* The worker dies, or an attempt that timed out is cancelled.             *)
Lose(s) ==
  /\ running[s] # Idle
  /\ running' = [running EXCEPT ![s] = Idle]
  /\ IF s = current THEN Fault("crash") ELSE UNCHANGED faults
  /\ UNCHANGED <<workflow, queue, server, database, world>>

-----------------------------------------------------------------------------
(* incident_update_status and incident_record_workflow_event.              *)

SetStatus(new) ==
  /\ status' = new
  /\ closed' = (closed \/ new \in Terminal)
  /\ UNCHANGED <<recorded, plans, marked>>

Write(s) ==
  /\ running[s].at = "write"
  /\ Move(s, "ok")
  /\ IF running[s].act = "status" THEN SetStatus(running[s].to) ELSE UNCHANGED database
  /\ UNCHANGED <<workflow, queue, server, world, faults>>

(* Mutant: an empty remediation result is stored like any other.           *)
AnalyseUnchecked(s) ==
  /\ At(s, "graph", "analyse")
  /\ \E p \in Plans \cup {NoPlan} :
       running' = [running EXCEPT ![s].plan = p, ![s].at = "list"]
  /\ UNCHANGED <<workflow, queue, server, database, world, faults>>

(* agent_graph_run: the graph's remediation result, if any, is stored      *)
(* unless a plan with the same content is there already.                   *)
Analyse(s) ==
  /\ At(s, "graph", "analyse")
  /\ \E p \in Plans \cup {NoPlan} :
       running' = [running EXCEPT ![s].plan = p,
                                  ![s].at = IF p = NoPlan THEN "ok" ELSE "list"]
  /\ UNCHANGED <<workflow, queue, server, database, world, faults>>

Stored(p) == \E n \in DOMAIN plans : plans[n] = p

ListPlans(s) ==
  /\ At(s, "graph", "list")
  /\ Move(s, IF Stored(running[s].plan) THEN "ok" ELSE "add")
  /\ UNCHANGED <<workflow, queue, server, database, world, faults>>

AddPlan(s) ==
  /\ At(s, "graph", "add")
  /\ Move(s, "ok")
  /\ plans' = Append(plans, running[s].plan)
  /\ UNCHANGED <<workflow, queue, server, status, closed, recorded, marked, world, faults>>

-----------------------------------------------------------------------------
(* The three external actions.  Each begins with its policy flag; those on *)
(* GitHub also need a repository that resolves and is allowed.             *)

BeginIssue(s) ==
  /\ At(s, "issue", "begin")
  /\ \/ "issue" \in Enabled /\ Move(s, "lookup")
     \/ Move(s, "notok")
  /\ UNCHANGED <<workflow, queue, server, database, world, faults>>

BeginSlack(s) ==
  /\ At(s, "slack", "begin")
  /\ Move(s, IF "slack" \in Enabled THEN "create" ELSE "notok")
  /\ UNCHANGED <<workflow, queue, server, database, world, faults>>

BeginPr(s) ==
  /\ At(s, "pr", "begin")
  /\ \/ "pr" \in Enabled /\ Move(s, "plan")
     \/ Move(s, "notok")
  /\ UNCHANGED <<workflow, queue, server, database, world, faults>>

(* Mutant: the lookup by marker is left out.                               *)
NoLookup(s) ==
  /\ At(s, "issue", "lookup")
  /\ Move(s, "create")
  /\ UNCHANGED <<workflow, queue, server, database, world, faults>>

(* Found issues are not created again; GitHub's search may lag behind.     *)
LookupIssue(s) ==
  /\ At(s, "issue", "lookup")
  /\ \/ Move(s, IF issues > 0 THEN "record" ELSE "create") /\ UNCHANGED faults
     \/ /\ issues > 0
        /\ Fault("lag")
        /\ Move(s, "create")
  /\ UNCHANGED <<workflow, queue, server, database, world>>

(* The newest plan is read before the try block.                           *)
ReadPlan(s) ==
  /\ At(s, "pr", "plan")
  /\ running' = IF plans = <<>>
                THEN [running EXCEPT ![s].at = "notok"]
                ELSE [running EXCEPT ![s].at = "create", ![s].plan = plans[Len(plans)]]
  /\ UNCHANGED <<workflow, queue, server, database, world, faults>>

OpenIssue(s) ==
  /\ running[s].act = "issue"
  /\ issues' = issues + 1
  /\ UNCHANGED <<posts, pr>>

(* Mutant: the Slack request is retried inside the client.                 *)
PostTwice(s) ==
  /\ running[s].act = "slack"
  /\ posts' = posts + 2
  /\ UNCHANGED <<issues, pr>>

Post(s) ==
  /\ running[s].act = "slack"
  /\ posts' = posts + 1
  /\ UNCHANGED <<issues, pr>>

(* An open pull request of the remediation branch is returned as it is.    *)
OpenPr(s) ==
  /\ running[s].act = "pr"
  /\ pr' = IF pr = NoPlan THEN running[s].plan ELSE pr
  /\ UNCHANGED <<issues, posts>>

Effect(s) == OpenIssue(s) \/ Post(s) \/ OpenPr(s)

Create(s) ==
  /\ running[s].at = "create"
  /\ Effect(s)
  /\ Move(s, "record")
  /\ UNCHANGED <<workflow, queue, server, database, faults>>

LinkIssue(s) ==
  /\ running[s].act = "issue"
  /\ recorded' = recorded \cup {"issue"}
  /\ UNCHANGED <<status, closed, plans, marked>>

LinkSlack(s) ==
  /\ running[s].act = "slack"
  /\ recorded' = recorded \cup {"slack"}
  /\ UNCHANGED <<status, closed, plans, marked>>

(* Mutant: the plan is looked up oldest first.                             *)
LinkPrOldest(s) ==
  /\ running[s].act = "pr"
  /\ recorded' = recorded \cup {"pr"}
  /\ marked' = IF plans = <<>> THEN marked ELSE marked \cup {1}
  /\ UNCHANGED <<status, closed, plans>>

(* The artifact, and the status of what is by now the newest plan.         *)
LinkPr(s) ==
  /\ running[s].act = "pr"
  /\ recorded' = recorded \cup {"pr"}
  /\ marked' = IF plans = <<>> THEN marked ELSE marked \cup {Len(plans)}
  /\ UNCHANGED <<status, closed, plans>>

Link(s) == LinkIssue(s) \/ LinkSlack(s) \/ LinkPr(s)

Record(s) ==
  /\ running[s].at = "record"
  /\ Link(s)
  /\ Move(s, "ok")
  /\ UNCHANGED <<workflow, queue, server, world, faults>>

(* An exception inside the try block.  A request that timed out may have   *)
(* had its effect, and a commit may be followed by a failing refresh.      *)
Caught(s) ==
  /\ running[s].at \in TryPoints
  /\ Fault("error")
  /\ Move(s, "catch")
  /\ \/ UNCHANGED <<database, world>>
     \/ running[s].at = "create" /\ Effect(s) /\ UNCHANGED database
     \/ running[s].at = "record" /\ Link(s) /\ UNCHANGED world
  /\ UNCHANGED <<workflow, queue, server>>

(* The except branch stores the failure and returns it as a result.        *)
RecordFailure(s) ==
  /\ running[s].at = "catch"
  /\ Move(s, "notok")
  /\ UNCHANGED <<workflow, queue, server, database, world, faults>>

(* An exception outside the try block ends the attempt.                    *)
Raise(s) ==
  /\ running[s].at \notin {"idle"} \cup TryPoints \cup Outcomes
  /\ Fault("error")
  /\ running' = [running EXCEPT ![s] = Idle]
  /\ IF s = current THEN GiveUp ELSE UNCHANGED <<workflow, server>>
  /\ UNCHANGED <<queue, database, world>>

-----------------------------------------------------------------------------
(* The REST API beside the workflow: it writes any status and adds plans.  *)

ApiStatus(new) ==
  /\ Fault("api")
  /\ SetStatus(new)
  /\ UNCHANGED <<workflow, queue, server, running, world>>

ApiPlan(p) ==
  /\ Fault("api")
  /\ plans' = Append(plans, p)
  /\ UNCHANGED <<workflow, queue, server, running, status, closed, recorded, marked, world>>

-----------------------------------------------------------------------------
Work(s) ==
  \/ Write(s) \/ Analyse(s) \/ ListPlans(s) \/ AddPlan(s)
  \/ BeginIssue(s) \/ BeginSlack(s) \/ BeginPr(s) \/ LookupIssue(s) \/ ReadPlan(s)
  \/ Create(s) \/ Record(s) \/ RecordFailure(s)

Interference ==
  \/ TimeOutSlow
  \/ \E sig \in Signals : Signal(sig)
  \/ \E s \in Slots : Lose(s) \/ Caught(s) \/ Raise(s)
  \/ \E new \in Statuses : ApiStatus(new)
  \/ \E p \in Plans : ApiPlan(p)

Next ==
  \/ Interference
  \/ TakeSignal
  \/ TimeOutLost
  \/ \E s \in Slots : Dispatch(s) \/ Work(s) \/ Report(s)

Spec == Init /\ [][Next]_vars

(* Workers poll and their awaits return, the server fires its timers and   *)
(* the workflow is woken: nothing is assumed of operators or of faults.    *)
Fairness ==
  /\ WF_vars(TakeSignal)
  /\ WF_vars(TimeOutLost)
  /\ WF_vars(\E s \in Slots : Dispatch(s))
  /\ \A s \in Slots : WF_vars(Work(s) \/ Report(s))

FairSpec == Spec /\ Fairness

-----------------------------------------------------------------------------
(* The type invariant: the workflow, the slots and the stores.             *)
TypeOK ==
  /\ step \in Steps
  /\ wfStatus \in Statuses
  /\ queue \in Seq(Signals)
  /\ handled \in Seq(Signals)
  /\ step = "handle" => handled # <<>>
  /\ attempt \in Nat
  /\ current \in Slots \cup {NoSlot}
  /\ running \in [Slots -> Executions]
  /\ status \in Statuses
  /\ closed \in BOOLEAN
  /\ recorded \subseteq External
  /\ plans \in Seq(Plans)
  /\ marked \subseteq DOMAIN plans
  /\ issues \in Nat
  /\ posts \in Nat
  /\ pr \in Plans \cup {NoPlan}
  /\ faults \in [FaultKinds -> Nat]

(* The idempotency marker holds back every retry of                        *)
(* incident_create_github_issue except one that overlaps an attempt which  *)
(* timed out, or one whose search does not see the issue yet.              *)
IssueDuplicatesNeedOverlap == issues <= 1 + faults["slow"] + faults["lag"]

(* incident_send_slack_notification has no such marker: each lost or slow  *)
(* attempt may cost one more post.  An error after the post is caught and  *)
(* not retried, so only a second error, in the except branch, repeats it.  *)
SlackRepeatsNeedRetry ==
  posts <= 1 + faults["slow"] + faults["crash"] + faults["error"] \div 2

(* The artifact each status of the pipeline announces.                     *)
Announced == [rca_issue_created |-> "issue", slack_notified |-> "slack", pr_created |-> "pr"]

Backed(st) == st \in DOMAIN Announced => Announced[st] \in recorded

(* The workflow's own statuses never run ahead of what they announce: the  *)
(* issue, Slack message or pull request is linked before its status shows. *)
StatusHasArtifact == faults["api"] = 0 => Backed(status)

(* Crashes, retries and errors never leave the database behind the         *)
(* workflow: once it completes, the incident has its final status and is   *)
(* closed.  Only a slow attempt or the API can overwrite it.               *)
CompletedStatusStored ==
  step = "completed" /\ faults["slow"] + faults["api"] = 0 =>
    status = wfStatus /\ closed

(* The first reject, escalate or close ends the workflow, signals before   *)
(* it do not, and none is handled after it.                                *)
FirstEndingSignalWins ==
  /\ \A n \in 1 .. Len(handled) - 1 : handled[n] \notin Ending
  /\ step = "wait" => \A n \in DOMAIN handled : handled[n] \notin Ending
  /\ step = "completed" => LastSignal \in Ending

(* incident_create_remediation_pr reads the newest plan twice: the plan it *)
(* marks PR_CREATED is the one the pull request carries, unless a slow     *)
(* graph or the API adds a plan in between; even then the pull request     *)
(* carries no plan younger than the marked one.                            *)
MarkedPlanIsInPr ==
  /\ faults["slow"] + faults["api"] = 0 => \A n \in marked : plans[n] = pr
  /\ \A n \in marked : \E m \in 1 .. n : plans[m] = pr

Rank == [received |-> 0, validated |-> 1, rca_issue_created |-> 2, slack_notified |-> 3,
         pr_created |-> 4, approved |-> 5, escalated |-> 6, closed |-> 6]

(* The incident's status only moves forward through the lifecycle, however *)
(* often activities are retried; the exceptions are slow attempts and the  *)
(* API.                                                                    *)
StatusForward ==
  [][faults'["slow"] + faults'["api"] = 0 /\ status' # status =>
       Rank[status'] > Rank[status]]_vars

(* An operator's reject, escalate or close is acted upon: the workflow     *)
(* ends, whatever it was doing when the signal came.                       *)
EndingSignalEnds ==
  \A sig \in Ending : (\E n \in DOMAIN queue : queue[n] = sig) ~> step \in Ended

(* The pipeline itself never hangs: it comes to wait for signals or ends.  *)
PipelineSettles == <>(step \in Ended \cup {"wait"})

-----------------------------------------------------------------------------
(* Why they hold, as inductive invariants.                                 *)

(* An execution is only ever at the points of its activity.                *)
ExecutionOK(e) ==
  /\ e.at = "write" => e.act \in {"status", "event"}
  /\ e.at \in TryPoints \cup {"begin", "plan", "catch"} => e.act \in External
  /\ e.at \in {"list", "add"} => e.act = "graph" /\ e.plan \in Plans

(* The attempt the server counts on runs the activity the workflow awaits, *)
(* and no signal is handled before the pipeline is over.                   *)
AttemptInv ==
  /\ \A s \in Slots : ExecutionOK(running[s])
  /\ step \in Pipeline => handled = <<>>
  /\ current # NoSlot => step \in Awaiting
  /\ current # NoSlot /\ running[current] # Idle =>
       running[current].act = Activity /\ running[current].to = StatusArgument

(* Whoever is about to write a status, the workflow or any attempt however *)
(* old, announces something that is already linked.                        *)
ArtifactInv ==
  /\ step \in DOMAIN StepStatus => Backed(StepStatus[step])
  /\ \A s \in Slots :
       /\ running[s].act = "status" => Backed(running[s].to)
       /\ running[s].act \in External /\ running[s].at = "ok" => running[s].act \in recorded
  /\ StatusHasArtifact

IInv == TypeOK /\ AttemptInv /\ FirstEndingSignalWins /\ ArtifactInv

-----------------------------------------------------------------------------
(* What the documents say.                                                 *)

(* plan.md:557: "Failed RCA or remediation escalates with the evidence     *)
(* bundle."                                                                *)
FailedRcaEscalates == step = "failed" ~> status = "escalated"

(* plan.md:393: "After approval, the Remediation Agent uses the GitHub MCP *)
(* Server to create a branch and pull request".                            *)
PrNeedsApproval == pr # NoPlan => \E n \in DOMAIN handled : handled[n] = "approve"

=============================================================================
