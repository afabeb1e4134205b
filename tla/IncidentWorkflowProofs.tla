----------------------- MODULE IncidentWorkflowProofs -----------------------
(***************************************************************************)
(* What holds of IncidentWorkflow for any number of slots, any policy      *)
(* flags and retry limits, and any number of crashes, slow attempts,       *)
(* errors and writes of the API.                                           *)
(***************************************************************************)
EXTENDS IncidentWorkflow, TLAPS

-----------------------------------------------------------------------------
(* The tables of the workflow.                                             *)

LEMMA Tables ==
  /\ Pipeline = {"validate", "graph", "graph_event", "issue", "issue_status",
                 "issue_event", "slack", "slack_status", "slack_event",
                 "pr", "pr_status", "pr_event"}
  /\ DOMAIN StepStatus = {"validate", "issue_status", "slack_status", "pr_status"}
  /\ DOMAIN SignalStatus = {"approve", "reject", "escalate", "close"}
  /\ DOMAIN Announced = {"rca_issue_created", "slack_notified", "pr_created"}
  BY DEF Pipeline, Success, StepStatus, SignalStatus, Announced

LEMMA TableValues ==
  /\ \A p \in Pipeline : Success[p] \in Pipeline \cup {"wait"}
  /\ \A p \in External : Skip[p] \in Pipeline \cup {"wait"}
  /\ \A p \in DOMAIN StepStatus : StepStatus[p] \in Statuses
  /\ \A g \in DOMAIN SignalStatus : SignalStatus[g] \in Statuses
  BY Tables DEF Success, Skip, StepStatus, SignalStatus, External, Statuses

(* What the workflow awaits at each of its steps.                          *)
LEMMA AwaitedActivity ==
  /\ Activity \in Activities
  /\ Activity \in External => step = Activity
  /\ step \in External \cup {"graph"} => Activity = step
  BY Tables DEF Activity, Activities, External

LEMMA AwaitedStatus ==
  ASSUME TypeOK
  PROVE  StatusArgument \in Statuses
  BY TableValues DEF StatusArgument, TypeOK, Statuses

(* Signals as elements of sequences.                                       *)
LEMMA QueueHead ==
  ASSUME NEW q \in Seq(Signals), q # <<>>
  PROVE  Head(q) \in Signals /\ Tail(q) \in Seq(Signals)
  OBVIOUS

LEMMA Appended ==
  ASSUME NEW S, NEW h \in Seq(S), NEW x \in S
  PROVE  /\ Append(h, x) \in Seq(S)
         /\ Len(Append(h, x)) = Len(h) + 1
         /\ DOMAIN Append(h, x) = 1 .. Len(h) + 1
         /\ \A n \in DOMAIN h : Append(h, x)[n] = h[n]
         /\ Append(h, x)[Len(h) + 1] = x
         /\ Append(h, x) # <<>>
  OBVIOUS

-----------------------------------------------------------------------------
(* How a step may move the workflow: a signal is taken, the awaited        *)
(* activity returns, or one of its attempts is given up.                   *)
LEMMA WorkflowMoves ==
  ASSUME Next
  PROVE  \/ UNCHANGED <<workflow, server>>
         \/ UNCHANGED workflow /\ \E s \in Slots : Dispatch(s)
         \/ TakeSignal
         \/ /\ current # NoSlot
            /\ GiveUp
         \/ /\ current \in Slots
            /\ running[current].at \in Outcomes
            /\ Advance(running[current].at)
<1> USE SlotsAssumption DEF workflow, server
<1>1. CASE TimeOutSlow \/ TimeOutLost
  BY <1>1 DEF TimeOutSlow, TimeOutLost
<1>2. ASSUME NEW sig \in Signals, Signal(sig) PROVE UNCHANGED <<workflow, server>>
  BY <1>2 DEF Signal
<1>3. ASSUME NEW s \in Slots, Lose(s) \/ Caught(s) PROVE UNCHANGED <<workflow, server>>
  BY <1>3 DEF Lose, Caught
<1>4. ASSUME NEW s \in Slots, Raise(s)
      PROVE  UNCHANGED <<workflow, server>> \/ (current # NoSlot /\ GiveUp)
  BY <1>4 DEF Raise
<1>5. ASSUME NEW new \in Statuses, ApiStatus(new) PROVE UNCHANGED <<workflow, server>>
  BY <1>5 DEF ApiStatus
<1>6. ASSUME NEW p \in Plans, ApiPlan(p) PROVE UNCHANGED <<workflow, server>>
  BY <1>6 DEF ApiPlan
<1>7. ASSUME NEW s \in Slots, Dispatch(s) PROVE UNCHANGED workflow
  BY <1>7 DEF Dispatch
<1>8. ASSUME NEW s \in Slots, Work(s) PROVE UNCHANGED <<workflow, server>>
  BY <1>8 DEF Work, Write, Analyse, ListPlans, AddPlan, BeginIssue, BeginSlack, BeginPr, LookupIssue, ReadPlan,
              Create, Record, RecordFailure
<1>9. ASSUME NEW s \in Slots, Report(s)
      PROVE  \/ UNCHANGED <<workflow, server>>
             \/ /\ current \in Slots
                /\ running[current].at \in Outcomes
                /\ Advance(running[current].at)
  BY <1>9 DEF Report
<1> QED BY <1>1, <1>2, <1>3, <1>4, <1>5, <1>6, <1>7, <1>8, <1>9 DEF Next, Interference

(* What an await leaves behind.                                            *)
LEMMA AdvanceShape ==
  ASSUME TypeOK, step \in Awaiting, NEW outcome \in Outcomes, Advance(outcome)
  PROVE  /\ step' \in Pipeline \cup {"wait", "completed"}
         /\ step' \in Pipeline => step \in Pipeline
         /\ step = "handle" => step' = IF LastSignal \in Ending THEN "completed" ELSE "wait"
         /\ step' = "completed" => step = "handle"
         /\ wfStatus' \in Statuses
         /\ attempt' = 1 /\ current' = NoSlot /\ handled' = handled
<1>1. CASE step = "handle"
  BY <1>1, Tables DEF Advance, Await, StatusAfter, External, TypeOK
<1>2. CASE step \in Pipeline
  <2>1. step # "handle" /\ step \notin {"wait", "completed"}
    BY <1>2, Tables
  <2>2. step' \in Pipeline \cup {"wait"}
    BY <1>2, <2>1, TableValues DEF Advance, Await
  <2>3. wfStatus' \in Statuses
    <3>1. step \in External => Success[step] \in DOMAIN StepStatus
      BY Tables DEF External, Success
    <3> QED BY <3>1, TableValues DEF Advance, StatusAfter, TypeOK, Statuses
  <2>4. "wait" \notin Pipeline /\ "completed" \notin Pipeline
    BY Tables
  <2> QED BY <1>2, <2>1, <2>2, <2>3, <2>4 DEF Advance, Await
<1> QED BY <1>1, <1>2 DEF Awaiting

LEMMA GiveUpShape ==
  ASSUME TypeOK, GiveUp
  PROVE  /\ step' \in {step, "failed"}
         /\ attempt' \in Nat
         /\ current' = NoSlot
         /\ wfStatus' = wfStatus /\ handled' = handled
  BY DEF GiveUp, TypeOK

LEMMA TakeSignalShape ==
  ASSUME TypeOK, TakeSignal
  PROVE  /\ step = "wait" /\ step' = "handle"
         /\ attempt' = 1 /\ current' = NoSlot
         /\ handled' = Append(handled, Head(queue)) /\ Head(queue) \in Signals
         /\ queue' \in Seq(Signals)
         /\ wfStatus' \in Statuses
<1>1. queue \in Seq(Signals) /\ queue # <<>>
  BY DEF TypeOK, TakeSignal
<1>2. wfStatus' \in Statuses
  BY TableValues DEF TakeSignal, TypeOK
<1> QED BY <1>1, <1>2, QueueHead DEF TakeSignal, Await

-----------------------------------------------------------------------------
(* Type correctness.                                                       *)

LEMMA TypeInit == Init => TypeOK /\ AttemptInv
<1> SUFFICES ASSUME Init PROVE TypeOK /\ AttemptInv
  OBVIOUS
<1>1. Idle \in Executions
  BY DEF Idle, Executions, Activities, Statuses, Points
<1>2. TypeOK
  <2>1. step \in Steps /\ step # "handle" /\ wfStatus \in Statuses /\ status \in Statuses
    BY Tables DEF Init, Steps, Awaiting, Statuses
  <2>2. queue \in Seq(Signals) /\ handled \in Seq(Signals) /\ plans \in Seq(Plans)
    BY DEF Init
  <2>3. running \in [Slots -> Executions] /\ faults \in [FaultKinds -> Nat]
    BY <1>1 DEF Init
  <2> QED BY <2>1, <2>2, <2>3 DEF Init, TypeOK
<1>3. AttemptInv
  BY Tables DEF Init, AttemptInv, ExecutionOK, Idle, TryPoints
<1> QED BY <1>2, <1>3

LEMMA FaultType ==
  ASSUME TypeOK, NEW kind \in FaultKinds, Fault(kind)
  PROVE  faults' \in [FaultKinds -> Nat]
  BY DEF TypeOK, Fault

(* The part of the type invariant about the workflow and the server.       *)
LEMMA WorkflowType ==
  ASSUME TypeOK, AttemptInv, Next
  PROVE  /\ step' \in Steps /\ wfStatus' \in Statuses
         /\ queue' \in Seq(Signals) /\ handled' \in Seq(Signals)
         /\ step' = "handle" => handled' # <<>>
         /\ attempt' \in Nat /\ current' \in Slots \cup {NoSlot}
<1>1. queue' \in Seq(Signals)
  <2>1. ASSUME NEW sig \in Signals, Signal(sig) PROVE queue' \in Seq(Signals)
    BY <2>1, Appended DEF Signal, TypeOK
  <2>2. CASE TakeSignal
    BY <2>2, TakeSignalShape
  <2>3. CASE UNCHANGED queue
    BY <2>3 DEF TypeOK
  <2>4. \/ UNCHANGED queue \/ TakeSignal \/ \E sig \in Signals : Signal(sig)
    BY DEF Next, Interference, TimeOutSlow, TimeOutLost, Lose, Caught, Raise, ApiStatus,
           ApiPlan, Dispatch, Report, Work, Write, Analyse, ListPlans, AddPlan, BeginIssue, BeginSlack, BeginPr,
           LookupIssue, ReadPlan, Create, Record, RecordFailure
  <2> QED BY <2>1, <2>2, <2>3, <2>4
<1>2. CASE UNCHANGED <<workflow, server>>
  BY <1>1, <1>2 DEF workflow, server, TypeOK
<1>3. ASSUME UNCHANGED workflow, NEW s \in Slots, Dispatch(s)
      PROVE  /\ step' \in Steps /\ wfStatus' \in Statuses /\ handled' \in Seq(Signals)
             /\ step' = "handle" => handled' # <<>>
             /\ attempt' \in Nat /\ current' \in Slots \cup {NoSlot}
  BY <1>3 DEF Dispatch, workflow, TypeOK
<1>4. CASE TakeSignal
  <2>1. handled \in Seq(Signals) /\ Head(queue) \in Signals
    BY <1>4, TakeSignalShape DEF TypeOK
  <2>2. handled' \in Seq(Signals) /\ handled' # <<>>
    BY <1>4, <2>1, TakeSignalShape, Appended
  <2> QED BY <1>1, <1>4, <2>2, TakeSignalShape DEF Steps, Awaiting
<1>5. CASE current # NoSlot /\ GiveUp
  BY <1>1, <1>5, GiveUpShape DEF TypeOK, Steps, Ended
<1>6. ASSUME current \in Slots, NEW outcome \in Outcomes, Advance(outcome)
      PROVE  /\ step' \in Steps /\ wfStatus' \in Statuses /\ handled' \in Seq(Signals)
             /\ step' = "handle" => handled' # <<>>
             /\ attempt' \in Nat /\ current' \in Slots \cup {NoSlot}
  <2>1. step \in Awaiting
    BY <1>6, SlotsAssumption DEF AttemptInv
  <2>2. "handle" \notin Pipeline \cup {"wait", "completed"}
    BY Tables
  <2> QED BY <1>6, <2>1, <2>2, AdvanceShape DEF TypeOK, Steps, Awaiting, Ended
<1> QED BY <1>1, <1>2, <1>3, <1>4, <1>5, <1>6, WorkflowMoves

-----------------------------------------------------------------------------
(* How a step may move a slot: it is emptied, is given the awaited         *)
(* activity, or goes on with its own and links the artifact before it      *)
(* reports success.                                                        *)

Carries(s, e) == e.act = running[s].act /\ e.to = running[s].to

Moved(s) ==
  \E e \in Executions :
    /\ running' = [running EXCEPT ![s] = e]
    /\ ExecutionOK(e)
    /\ \/ e = Idle
       \/ e.act = Activity /\ e.to = StatusArgument /\ e.at # "ok"
       \/ /\ running[s].at # "idle"
          /\ Carries(s, e)
          /\ e.act \in External /\ e.at = "ok" => e.act \in recorded'

LEMMA Emptied ==
  ASSUME NEW s \in Slots, running' = [running EXCEPT ![s] = Idle]
  PROVE  Moved(s)
<1>1. Idle \in Executions /\ ExecutionOK(Idle)
  BY DEF Idle, Executions, Activities, Statuses, Points, ExecutionOK, TryPoints
<1> QED BY <1>1 DEF Moved

LEMMA MovedOn ==
  ASSUME TypeOK, NEW s \in Slots, NEW point \in Points, Move(s, point),
         running[s].at # "idle",
         point = "write" => running[s].act \in {"status", "event"},
         point \in TryPoints \cup {"begin", "plan", "catch"} => running[s].act \in External,
         point \in {"list", "add"} => running[s].act = "graph" /\ running[s].plan \in Plans,
         running[s].act \in External /\ point = "ok" => running[s].act \in recorded'
  PROVE  Moved(s)
<1> DEFINE e == [running[s] EXCEPT !.at = point]
<1>1. running[s] \in Executions
  BY DEF TypeOK
<1>2. /\ e \in Executions
      /\ e.act = running[s].act /\ e.to = running[s].to /\ e.plan = running[s].plan
      /\ e.at = point
  BY <1>1 DEF Executions
<1>3. running' = [running EXCEPT ![s] = e]
  BY DEF Move
<1> HIDE DEF e
<1> QED BY <1>2, <1>3 DEF Moved, Carries, ExecutionOK

LEMMA SlotMoves ==
  ASSUME TypeOK, AttemptInv, Next
  PROVE  UNCHANGED running \/ \E s \in Slots : Moved(s)
<1>0. \A s \in Slots : running[s] \in Executions /\ ExecutionOK(running[s])
  BY DEF TypeOK, AttemptInv
<1>1. CASE UNCHANGED running
  BY <1>1
<1>2. ASSUME NEW s \in Slots, Lose(s) \/ Raise(s) \/ Report(s) PROVE Moved(s)
  BY <1>2, Emptied DEF Lose, Raise, Report
<1>3. ASSUME NEW s \in Slots, Caught(s) PROVE Moved(s)
  BY <1>0, <1>3, MovedOn DEF Caught, ExecutionOK, Points, TryPoints
<1>4. ASSUME NEW s \in Slots, Dispatch(s) PROVE Moved(s)
  <2> DEFINE e == [act |-> Activity, to |-> StatusArgument, at |-> FirstPoint[Activity],
                   plan |-> NoPlan]
  <2>1. FirstPoint[Activity] \in Points /\ FirstPoint[Activity] # "ok"
    BY AwaitedActivity DEF FirstPoint, Activities, Points
  <2>2. e \in Executions
    BY <2>1, AwaitedActivity, AwaitedStatus DEF Executions
  <2>3. ExecutionOK(e)
    BY AwaitedActivity DEF ExecutionOK, FirstPoint, Activities, TryPoints, External
  <2>4. running' = [running EXCEPT ![s] = e]
    BY <1>4 DEF Dispatch
  <2>5. e.act = Activity /\ e.to = StatusArgument /\ e.at # "ok"
    BY <2>1
  <2> HIDE DEF e
  <2> QED BY <2>2, <2>3, <2>4, <2>5 DEF Moved
<1>5. ASSUME NEW s \in Slots, Write(s) PROVE Moved(s)
  BY <1>0, <1>5, MovedOn DEF Write, ExecutionOK, Points, Outcomes, TryPoints, External
<1>6. ASSUME NEW s \in Slots, Analyse(s) PROVE Moved(s)
  <2>1. PICK p \in Plans \cup {NoPlan} :
          running' = [running EXCEPT ![s].plan = p,
                                     ![s].at = IF p = NoPlan THEN "ok" ELSE "list"]
    BY <1>6 DEF Analyse
  <2> DEFINE e == [running[s] EXCEPT !.plan = p,
                                     !.at = IF p = NoPlan THEN "ok" ELSE "list"]
  <2>2. /\ e \in Executions
        /\ e.act = running[s].act /\ e.to = running[s].to /\ e.plan = p
        /\ e.at = IF p = NoPlan THEN "ok" ELSE "list"
    BY <1>0 DEF Executions, Points, Outcomes
  <2>3. running' = [running EXCEPT ![s] = e]
    BY <2>1
  <2>4. running[s].act = "graph" /\ running[s].at = "analyse"
    BY <1>6 DEF Analyse, At
  <2> HIDE DEF e
  <2> QED BY <2>2, <2>3, <2>4, PlansAssumption
          DEF Moved, Carries, ExecutionOK, External, TryPoints
<1>7. ASSUME NEW s \in Slots, ListPlans(s) \/ AddPlan(s) PROVE Moved(s)
  BY <1>0, <1>7, MovedOn
     DEF ListPlans, AddPlan, At, ExecutionOK, Points, Outcomes, TryPoints, External
<1>8. ASSUME NEW s \in Slots, BeginIssue(s) \/ BeginSlack(s) \/ BeginPr(s) PROVE Moved(s)
  BY <1>0, <1>8, MovedOn
     DEF BeginIssue, BeginSlack, BeginPr, At, ExecutionOK, Points, Outcomes, TryPoints, External
<1>9. ASSUME NEW s \in Slots, LookupIssue(s) PROVE Moved(s)
  BY <1>0, <1>9, MovedOn DEF LookupIssue, At, ExecutionOK, Points, TryPoints, External
<1>10. ASSUME NEW s \in Slots, ReadPlan(s) PROVE Moved(s)
  <2>1. running[s].act = "pr" /\ running[s].at = "plan"
    BY <1>10 DEF ReadPlan, At
  <2>2. CASE plans = <<>>
    <3>1. Move(s, "notok")
      BY <1>10, <2>2 DEF ReadPlan, Move
    <3> QED BY <2>1, <3>1, MovedOn DEF Points, Outcomes, TryPoints
  <2>3. CASE plans # <<>>
    <3> DEFINE e == [running[s] EXCEPT !.at = "create", !.plan = plans[Len(plans)]]
    <3>1. plans[Len(plans)] \in Plans
      BY <2>3 DEF TypeOK
    <3>2. /\ e \in Executions
          /\ e.act = "pr" /\ e.to = running[s].to /\ e.at = "create"
      BY <1>0, <2>1, <3>1 DEF Executions, Points, TryPoints
    <3>3. running' = [running EXCEPT ![s] = e]
      BY <1>10, <2>3 DEF ReadPlan
    <3> HIDE DEF e
    <3> QED BY <2>1, <3>2, <3>3 DEF Moved, Carries, ExecutionOK, External, TryPoints
  <2> QED BY <2>2, <2>3
<1>11. ASSUME NEW s \in Slots, Create(s) PROVE Moved(s)
  BY <1>0, <1>11, MovedOn DEF Create, ExecutionOK, Points, TryPoints, External
<1>12. ASSUME NEW s \in Slots, Record(s) PROVE Moved(s)
  BY <1>0, <1>12, MovedOn
     DEF Record, Link, LinkIssue, LinkSlack, LinkPr, ExecutionOK, Points, Outcomes, TryPoints, External
<1>13. ASSUME NEW s \in Slots, RecordFailure(s) PROVE Moved(s)
  BY <1>0, <1>13, MovedOn DEF RecordFailure, ExecutionOK, Points, Outcomes, TryPoints, External
<1>14. \/ UNCHANGED running
       \/ \E s \in Slots : Lose(s) \/ Raise(s) \/ Report(s) \/ Caught(s) \/ Dispatch(s)
                            \/ Work(s)
  BY DEF Next, Interference, TimeOutSlow, TimeOutLost, Signal, TakeSignal, ApiStatus, ApiPlan
<1> QED BY <1>2, <1>3, <1>4, <1>5, <1>6, <1>7, <1>8, <1>9, <1>10, <1>11, <1>12, <1>13, <1>14
        DEF Work

(* The part of the type invariant about the database, the world outside    *)
(* and the faults.                                                         *)
LEMMA StoresType ==
  ASSUME TypeOK, AttemptInv, Next
  PROVE  /\ status' \in Statuses /\ closed' \in BOOLEAN
         /\ recorded' \subseteq External
         /\ plans' \in Seq(Plans) /\ marked' \subseteq DOMAIN plans'
         /\ issues' \in Nat /\ posts' \in Nat /\ pr' \in Plans \cup {NoPlan}
         /\ faults' \in [FaultKinds -> Nat]
<1> DEFINE Stores ==
      /\ status' \in Statuses /\ closed' \in BOOLEAN
      /\ recorded' \subseteq External
      /\ plans' \in Seq(Plans) /\ marked' \subseteq DOMAIN plans'
      /\ issues' \in Nat /\ posts' \in Nat /\ pr' \in Plans \cup {NoPlan}
      /\ faults' \in [FaultKinds -> Nat]
<1> SUFFICES Stores
  OBVIOUS
<1> DEFINE Untouched == UNCHANGED <<database, world, faults>>
<1>0. \A s \in Slots : running[s] \in Executions /\ ExecutionOK(running[s])
  BY DEF TypeOK, AttemptInv
<1>1. CASE UNCHANGED <<database, world>> /\ faults' \in [FaultKinds -> Nat]
  BY <1>1 DEF database, world, TypeOK
<1>2. ASSUME NEW new \in Statuses, SetStatus(new),
             UNCHANGED world, faults' \in [FaultKinds -> Nat]
      PROVE  Stores
  BY <1>2 DEF SetStatus, world, TypeOK
<1>3. ASSUME NEW p \in Plans, plans' = Append(plans, p),
             UNCHANGED <<status, closed, recorded, marked, world>>,
             faults' \in [FaultKinds -> Nat]
      PROVE  Stores
  <2>1. plans \in Seq(Plans)
    BY DEF TypeOK
  <2>2. plans' \in Seq(Plans) /\ DOMAIN plans' = 1 .. Len(plans) + 1
    BY <1>3, <2>1, Appended
  <2>3. DOMAIN plans \subseteq DOMAIN plans'
    BY <2>1, <2>2
  <2> QED BY <1>3, <2>2, <2>3 DEF world, TypeOK
<1>4. ASSUME NEW s \in Slots, Effect(s), UNCHANGED database, faults' \in [FaultKinds -> Nat]
      PROVE  Stores
  <2>1. running[s].plan \in Plans \cup {NoPlan}
    BY <1>0 DEF Executions
  <2> QED BY <1>4, <2>1 DEF Effect, OpenIssue, Post, OpenPr, database, TypeOK
<1>5. ASSUME NEW s \in Slots, Link(s), UNCHANGED world, faults' \in [FaultKinds -> Nat]
      PROVE  Stores
  <2>1. plans # <<>> => Len(plans) \in DOMAIN plans
    BY DEF TypeOK
  <2> QED BY <1>5, <2>1 DEF Link, LinkIssue, LinkSlack, LinkPr, External, world, TypeOK
<1>6. ASSUME NEW s \in Slots, Write(s) PROVE Stores
  <2>1. running[s].to \in Statuses
    BY <1>0 DEF Executions
  <2> QED BY <1>1, <1>2, <1>6, <2>1 DEF Write, TypeOK
<1>7. ASSUME NEW s \in Slots, AddPlan(s) PROVE Stores
  <2>1. running[s].plan \in Plans
    BY <1>0, <1>7 DEF AddPlan, At, ExecutionOK
  <2> QED BY <1>3, <1>7, <2>1 DEF AddPlan, TypeOK
<1>8. ASSUME NEW s \in Slots, Create(s) \/ Record(s) PROVE Stores
  BY <1>4, <1>5, <1>8 DEF Create, Record, TypeOK
<1>9. ASSUME NEW s \in Slots, Caught(s) PROVE Stores
  <2>1. faults' \in [FaultKinds -> Nat]
    BY <1>9, FaultType DEF Caught, FaultKinds
  <2> QED BY <1>1, <1>4, <1>5, <1>9, <2>1 DEF Caught
<1>10. ASSUME NEW new \in Statuses, ApiStatus(new) PROVE Stores
  BY <1>2, <1>10, FaultType DEF ApiStatus, FaultKinds
<1>11. ASSUME NEW p \in Plans, ApiPlan(p) PROVE Stores
  BY <1>3, <1>11, FaultType DEF ApiPlan, FaultKinds
<1>12. ASSUME NEW s \in Slots, Lose(s) \/ Raise(s) \/ LookupIssue(s) PROVE Stores
  BY <1>1, <1>12, FaultType DEF Lose, Raise, LookupIssue, FaultKinds, TypeOK
<1>13. CASE TimeOutSlow
  BY <1>1, <1>13, FaultType DEF TimeOutSlow, FaultKinds
<1>14. CASE Untouched
  BY <1>1, <1>14 DEF TypeOK
<1>15. \/ Untouched
       \/ TimeOutSlow
       \/ \E s \in Slots : \/ Record(s) \/ Write(s) \/ AddPlan(s) \/ Create(s) \/ Caught(s)
                            \/ Lose(s) \/ Raise(s) \/ LookupIssue(s)
       \/ \E new \in Statuses : ApiStatus(new)
       \/ \E p \in Plans : ApiPlan(p)
  BY DEF Next, Interference, TimeOutLost, Signal, TakeSignal, Dispatch, Report, Work,
         Analyse, ListPlans, BeginIssue, BeginSlack, BeginPr, ReadPlan, RecordFailure
<1> HIDE DEF Stores, Untouched
<1>16. ASSUME NEW s \in Slots,
              \/ Record(s) \/ Write(s) \/ AddPlan(s) \/ Create(s) \/ Caught(s)
              \/ Lose(s) \/ Raise(s) \/ LookupIssue(s)
       PROVE  Stores
  BY <1>6, <1>7, <1>8, <1>9, <1>12, <1>16
<1> QED BY <1>10, <1>11, <1>13, <1>14, <1>15, <1>16

LEMMA TypeNext ==
  ASSUME TypeOK, AttemptInv, Next
  PROVE  TypeOK'
<1>1. running' \in [Slots -> Executions]
  BY SlotMoves DEF Moved, TypeOK
<1> QED BY <1>1, WorkflowType, StoresType DEF TypeOK

(* What the workflow awaits depends on its step and the signal in hand.    *)
LEMMA AwaitedUnchanged ==
  ASSUME step' = step, handled' = handled
  PROVE  Activity' = Activity /\ StatusArgument' = StatusArgument
  BY DEF Activity, StatusArgument, LastSignal

(* No step of a slot or of the workflow lets the attempt the server counts *)
(* on diverge from what the workflow awaits.                               *)
LEMMA AttemptNext ==
  ASSUME TypeOK, AttemptInv, Next
  PROVE  AttemptInv'
<1>1. \A s \in Slots : ExecutionOK(running'[s])
  <2>1. CASE UNCHANGED running
    BY <2>1 DEF AttemptInv
  <2>2. ASSUME NEW s \in Slots, Moved(s)
        PROVE  \A t \in Slots : ExecutionOK(running'[t])
    BY <2>2 DEF Moved, AttemptInv, TypeOK
  <2> QED BY <2>1, <2>2, SlotMoves
<1>2. \A s \in Slots : ExecutionOK(running[s])'
  BY <1>1 DEF ExecutionOK
<1>3. \A s \in Slots : running[s].at # "idle" => running[s] # Idle
  BY DEF Idle
<1>4. CASE UNCHANGED <<workflow, server>>
  <2>1. UNCHANGED <<step, handled, current>>
    BY <1>4 DEF workflow, server
  <2>2. Activity' = Activity /\ StatusArgument' = StatusArgument
    BY <2>1, AwaitedUnchanged
  <2>3. CASE UNCHANGED running
    BY <1>2, <2>1, <2>2, <2>3 DEF AttemptInv
  <2>4. ASSUME NEW s \in Slots, Moved(s),
               current # NoSlot, running'[current] # Idle
        PROVE  running'[current].act = Activity /\ running'[current].to = StatusArgument
    <3>1. PICK e \in Executions :
            /\ running' = [running EXCEPT ![s] = e]
            /\ \/ e = Idle
               \/ e.act = Activity /\ e.to = StatusArgument
               \/ running[s].at # "idle" /\ Carries(s, e)
      BY <2>4 DEF Moved
    <3>2. running \in [Slots -> Executions] /\ current \in Slots
      BY <2>4 DEF TypeOK
    <3>3. CASE s = current
      BY <1>3, <2>4, <3>1, <3>2, <3>3 DEF Carries, AttemptInv
    <3>4. CASE s # current
      BY <2>4, <3>1, <3>2, <3>4 DEF AttemptInv
    <3> QED BY <3>3, <3>4
  <2> QED BY <1>2, <2>1, <2>2, <2>3, <2>4, SlotMoves DEF AttemptInv
<1>5. ASSUME UNCHANGED workflow, NEW s \in Slots, Dispatch(s) PROVE AttemptInv'
  <2>1. UNCHANGED <<step, handled>> /\ current' = s /\ step \in Awaiting
    BY <1>5 DEF workflow, Dispatch
  <2>2. Activity' = Activity /\ StatusArgument' = StatusArgument
    BY <2>1, AwaitedUnchanged
  <2>3. running'[s].act = Activity /\ running'[s].to = StatusArgument
    BY <1>5 DEF Dispatch, TypeOK
  <2> QED BY <1>2, <2>1, <2>2, <2>3 DEF AttemptInv
<1>6. CASE TakeSignal
  <2>1. "handle" \notin Pipeline
    BY Tables
  <2> QED BY <1>2, <1>6, <2>1, TakeSignalShape DEF AttemptInv
<1>7. CASE current # NoSlot /\ GiveUp
  <2>1. "failed" \notin Pipeline
    BY Tables
  <2> QED BY <1>2, <1>7, <2>1, GiveUpShape DEF AttemptInv
<1>8. CASE /\ current \in Slots
           /\ running[current].at \in Outcomes
           /\ Advance(running[current].at)
  <2>1. step \in Awaiting
    BY <1>8, SlotsAssumption DEF AttemptInv
  <2> QED BY <1>2, <1>8, <2>1, AdvanceShape DEF AttemptInv
<1> QED BY <1>4, <1>5, <1>6, <1>7, <1>8, WorkflowMoves

-----------------------------------------------------------------------------
(* Signals.  Only a signal that ends nothing leads back to waiting.        *)

LEMMA WinsNext ==
  ASSUME TypeOK, AttemptInv, FirstEndingSignalWins, Next
  PROVE  FirstEndingSignalWins'
<1>0. handled \in Seq(Signals)
  BY DEF TypeOK
<1>1. CASE UNCHANGED workflow
  BY <1>1 DEF workflow, FirstEndingSignalWins, LastSignal
<1>2. CASE TakeSignal
  <2>1. /\ step = "wait" /\ step' = "handle"
        /\ handled' = Append(handled, Head(queue)) /\ Head(queue) \in Signals
    BY <1>2, TakeSignalShape
  <2>2. \A n \in 1 .. Len(handled') - 1 : n \in DOMAIN handled /\ handled'[n] = handled[n]
    BY <1>0, <2>1, Appended
  <2> QED BY <2>1, <2>2 DEF FirstEndingSignalWins
<1>3. CASE current # NoSlot /\ GiveUp
  BY <1>3, GiveUpShape DEF FirstEndingSignalWins, LastSignal
<1>4. CASE /\ current \in Slots
           /\ running[current].at \in Outcomes
           /\ Advance(running[current].at)
  <2>1. step \in Awaiting
    BY <1>4, SlotsAssumption DEF AttemptInv
  <2>2. /\ step' \in Pipeline \cup {"wait", "completed"}
        /\ step = "handle" => step' = IF LastSignal \in Ending THEN "completed" ELSE "wait"
        /\ step' = "completed" => step = "handle"
        /\ handled' = handled
    BY <1>4, <2>1, AdvanceShape
  <2>3. CASE step \in Pipeline
    <3>1. step # "handle" /\ handled = <<>>
      BY <2>3, Tables DEF AttemptInv
    <3> QED BY <2>2, <3>1 DEF FirstEndingSignalWins
  <2>4. CASE step = "handle"
    <3>1. handled # <<>>
      BY <2>4 DEF TypeOK
    <3>2. \A n \in DOMAIN handled : n \in 1 .. Len(handled) - 1 \/ n = Len(handled)
      BY <1>0
    <3>3. "completed" \notin Pipeline /\ "wait" \notin Pipeline
      BY Tables
    <3> QED BY <2>2, <2>4, <3>1, <3>2, <3>3 DEF FirstEndingSignalWins, LastSignal
  <2> QED BY <2>1, <2>3, <2>4 DEF Awaiting
<1> QED BY <1>1, <1>2, <1>3, <1>4, WorkflowMoves DEF workflow

-----------------------------------------------------------------------------
(* Artifacts.  What is linked stays linked, and an external action that    *)
(* reports success has linked its artifact.                                *)

LEMMA LinksStay ==
  ASSUME Next
  PROVE  recorded \subseteq recorded'
  BY DEF Next, Interference, TimeOutSlow, TimeOutLost, Signal, TakeSignal, Lose, Caught, Raise,
         ApiStatus, ApiPlan, SetStatus, Dispatch, Report, Work, Write, Analyse, ListPlans,
         AddPlan, BeginIssue, BeginSlack, BeginPr, LookupIssue, ReadPlan, Create, Record,
         RecordFailure, Link, LinkIssue, LinkSlack, LinkPr, database

(* The status an attempt is dispatched with announces a linked artifact.   *)
LEMMA BackedArgument ==
  ASSUME ArtifactInv, step \in Awaiting
  PROVE  Backed(StatusArgument)
<1>1. CASE step \in DOMAIN StepStatus
  <2>1. StatusArgument = StepStatus[step]
    BY <1>1, Tables DEF StatusArgument
  <2> QED BY <1>1, <2>1 DEF ArtifactInv
<1>2. CASE step \notin DOMAIN StepStatus
  <2>1. \A g \in DOMAIN SignalStatus : SignalStatus[g] \notin DOMAIN Announced
    BY Tables DEF SignalStatus
  <2>2. "received" \notin DOMAIN Announced
    BY Tables
  <2>3. StatusArgument \notin DOMAIN Announced
    BY <1>2, <2>1, <2>2 DEF StatusArgument
  <2> QED BY <2>3 DEF Backed
<1> QED BY <1>1, <1>2

(* The status changes through an attempt or through the API.               *)
LEMMA StatusMoves ==
  ASSUME TypeOK, Next, faults'["api"] = 0
  PROVE  /\ faults["api"] = 0
         /\ \/ status' = status
            \/ \E s \in Slots : running[s].act = "status" /\ status' = running[s].to
<1>0. faults \in [FaultKinds -> Nat] /\ "api" \in FaultKinds
  BY DEF TypeOK, FaultKinds
<1>1. \A kind \in FaultKinds : Fault(kind) => faults'["api"] >= faults["api"]
  BY <1>0 DEF Fault
<1>2. ~Fault("api")
  BY <1>0 DEF Fault
<1>3. (UNCHANGED faults \/ \E kind \in FaultKinds : Fault(kind)) => faults["api"] = 0
  BY <1>0, <1>1
<1>4. UNCHANGED faults \/ \E kind \in FaultKinds : Fault(kind)
  BY DEF FaultKinds, Next, Interference, TimeOutSlow, TimeOutLost, Signal, TakeSignal, Lose,
         Caught, Raise, ApiStatus, ApiPlan, Dispatch, Report, Work, Write, Analyse, ListPlans,
         AddPlan, BeginIssue, BeginSlack, BeginPr, LookupIssue, ReadPlan, Create, Record, RecordFailure
<1>5. ASSUME NEW s \in Slots, Write(s)
      PROVE  status' = status \/ (running[s].act = "status" /\ status' = running[s].to)
  BY <1>5 DEF Write, SetStatus, database
<1>6. status' = status \/ \E s \in Slots : Write(s)
  BY <1>2 DEF Next, Interference, TimeOutSlow, TimeOutLost, Signal, TakeSignal, Lose,
         Caught, Raise, ApiStatus, ApiPlan, Dispatch, Report, Work, Analyse, ListPlans,
         AddPlan, BeginIssue, BeginSlack, BeginPr, LookupIssue, ReadPlan, Create, Record,
         RecordFailure, Link, LinkIssue, LinkSlack, LinkPr, database
<1> QED BY <1>3, <1>4, <1>5, <1>6

LEMMA ArtifactNext ==
  ASSUME TypeOK, AttemptInv, ArtifactInv, Next
  PROVE  ArtifactInv'
<1>0. \A st : Backed(st) => (st \in DOMAIN Announced => Announced[st] \in recorded')
  BY LinksStay DEF Backed
<1>1. step' \in DOMAIN StepStatus => Backed(StepStatus[step])'
  <2>1. CASE UNCHANGED workflow
    BY <1>0, <2>1 DEF workflow, ArtifactInv, Backed
  <2>2. CASE TakeSignal
    BY <2>2, TakeSignalShape, Tables
  <2>3. CASE current # NoSlot /\ GiveUp
    BY <1>0, <2>3, GiveUpShape, Tables DEF ArtifactInv, Backed
  <2>4. ASSUME current \in Slots, running[current].at \in Outcomes,
               Advance(running[current].at), step' \in DOMAIN StepStatus
        PROVE  Backed(StepStatus[step])'
    <3>1. step \in Awaiting /\ current # NoSlot
      BY <2>4, SlotsAssumption DEF AttemptInv
    <3>2. step \in External /\ running[current].at = "ok" /\ step' = Success[step]
      BY <2>4, <3>1, Tables DEF Advance, Await, Awaiting, External, Success, Skip, Outcomes
    <3>3. running[current].act = step
      <4>1. running[current] # Idle
        BY <3>2 DEF Idle
      <4> QED BY <3>1, <3>2, <4>1, AwaitedActivity DEF AttemptInv
    <3>4. step \in recorded
      BY <2>4, <3>2, <3>3 DEF ArtifactInv
    <3>5. StepStatus[step'] \in DOMAIN Announced => Announced[StepStatus[step']] = step
      BY <3>2 DEF External, Success, StepStatus, Announced
    <3> QED BY <3>4, <3>5, LinksStay DEF Backed
  <2> QED BY <2>1, <2>2, <2>3, <2>4, WorkflowMoves DEF workflow
<1>2. \A s \in Slots :
        /\ running'[s].act = "status" => Backed(running[s].to)'
        /\ running'[s].act \in External /\ running'[s].at = "ok"
             => running'[s].act \in recorded'
  <2>1. CASE UNCHANGED running
    BY <1>0, <2>1, LinksStay DEF ArtifactInv, Backed
  <2>2. ASSUME NEW s \in Slots, Moved(s), NEW t \in Slots
        PROVE  /\ running'[t].act = "status" => Backed(running[t].to)'
               /\ running'[t].act \in External /\ running'[t].at = "ok"
                    => running'[t].act \in recorded'
    <3>1. CASE t # s
      <4>1. running'[t] = running[t]
        BY <2>2, <3>1 DEF Moved, TypeOK
      <4> QED BY <1>0, <4>1, LinksStay DEF ArtifactInv, Backed
    <3>2. CASE t = s
      <4>1. PICK e \in Executions :
              /\ running' = [running EXCEPT ![s] = e]
              /\ \/ e = Idle
                 \/ e.act = Activity /\ e.to = StatusArgument /\ e.at # "ok"
                 \/ /\ Carries(s, e)
                    /\ e.act \in External /\ e.at = "ok" => e.act \in recorded'
        BY <2>2 DEF Moved
      <4>2. running'[t] = e
        BY <3>2, <4>1 DEF TypeOK
      <4>3. e.act \in External /\ e.at = "ok" => e.act \in recorded'
        BY <4>1 DEF Idle
      <4>4. ASSUME e.act = "status"
            PROVE  e.to \in DOMAIN Announced => Announced[e.to] \in recorded'
        <5>1. CASE e.act = Activity /\ e.to = StatusArgument
          <6>1. CASE step \in Awaiting
            BY <1>0, <5>1, <6>1, BackedArgument
          <6>2. CASE step \notin Awaiting
            BY <4>4, <5>1, <6>2, Tables DEF Activity, Awaiting, External
          <6> QED BY <6>1, <6>2
        <5>2. CASE Carries(s, e)
          BY <1>0, <4>4, <5>2 DEF Carries, ArtifactInv
        <5> QED BY <4>1, <4>4, <5>1, <5>2 DEF Idle
      <4> QED BY <4>2, <4>3, <4>4 DEF Backed
    <3> QED BY <3>1, <3>2
  <2> QED BY <2>1, <2>2, SlotMoves
<1>3. StatusHasArtifact'
  <2> SUFFICES ASSUME faults'["api"] = 0
               PROVE  status' \in DOMAIN Announced => Announced[status'] \in recorded'
    BY DEF StatusHasArtifact, Backed
  <2>1. Backed(status)
    BY StatusMoves DEF ArtifactInv, StatusHasArtifact
  <2>2. \A s \in Slots : running[s].act = "status" => Backed(running[s].to)
    BY DEF ArtifactInv
  <2> QED BY <1>0, <2>1, <2>2, StatusMoves
<1> QED BY <1>1, <1>2, <1>3 DEF ArtifactInv

-----------------------------------------------------------------------------
(* The inductive invariant.                                                *)

LEMMA InvInit == Init => IInv
<1> SUFFICES ASSUME Init PROVE IInv
  OBVIOUS
<1>1. FirstEndingSignalWins
  BY DEF Init, FirstEndingSignalWins
<1>2. ArtifactInv
  <2>1. \A s \in Slots : running[s].act = "event"
    BY DEF Init, Idle
  <2>2. Backed("received") /\ Backed("validated")
    BY Tables DEF Backed
  <2> QED BY <2>1, <2>2 DEF Init, ArtifactInv, StatusHasArtifact, StepStatus, External
<1> QED BY <1>1, <1>2, TypeInit DEF IInv

LEMMA InvNext == IInv /\ [Next]_vars => IInv'
<1>1. CASE Next
  BY <1>1, TypeNext, AttemptNext, WinsNext, ArtifactNext DEF IInv
<1>2. CASE UNCHANGED vars
  <2> SUFFICES ASSUME IInv PROVE IInv'
    BY <1>2
  <2>1. UNCHANGED <<step, wfStatus, handled, queue, attempt, current, running, status, closed,
                    recorded, plans, marked, issues, posts, pr, faults>>
    BY <1>2 DEF vars, workflow, server, database, world
  <2>2. TypeOK'
    BY <2>1 DEF IInv, TypeOK
  <2>3. Activity' = Activity /\ StatusArgument' = StatusArgument
    BY <2>1, AwaitedUnchanged
  <2>4. AttemptInv'
    BY <2>1, <2>3 DEF IInv, AttemptInv, ExecutionOK
  <2>5. FirstEndingSignalWins'
    BY <2>1 DEF IInv, FirstEndingSignalWins, LastSignal
  <2>6. ArtifactInv'
    BY <2>1 DEF IInv, ArtifactInv, StatusHasArtifact, Backed
  <2> QED BY <2>2, <2>4, <2>5, <2>6 DEF IInv
<1> QED BY <1>1, <1>2

(* In every reachable state the workflow, its attempts and the stores are  *)
(* well typed, the counted attempt runs what is awaited, and no status     *)
(* that is or will be written is ahead of its artifact.                    *)
THEOREM Invariance == Spec => []IInv
  BY InvInit, InvNext, PTL DEF Spec

(* Type correctness of the workflow, its attempts and the stores they      *)
(* write, for all slots, retry limits and faults.                          *)
THEOREM TypeCorrect == Spec => []TypeOK
<1>1. IInv => TypeOK
  BY DEF IInv
<1> QED BY <1>1, Invariance, PTL

(* The first reject, escalate or close an operator sends ends the          *)
(* workflow, whatever is retried or lost around it; no signal is handled   *)
(* after it and no other signal completes the workflow.                    *)
THEOREM FirstWins == Spec => []FirstEndingSignalWins
<1>1. IInv => FirstEndingSignalWins
  BY DEF IInv
<1> QED BY <1>1, Invariance, PTL

(* An attempt that timed out long ago may still write its status, and no   *)
(* crash or retry makes any attempt announce an issue, a Slack message or  *)
(* a pull request that the database does not link.                         *)
THEOREM StatusBacked == Spec => [](ArtifactInv /\ StatusHasArtifact)
<1>1. IInv => ArtifactInv /\ StatusHasArtifact
  BY DEF IInv, ArtifactInv
<1> QED BY <1>1, Invariance, PTL

=============================================================================
