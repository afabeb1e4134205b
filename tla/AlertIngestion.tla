--------------------------- MODULE AlertIngestion ---------------------------
(***************************************************************************)
(* The alert consumers (workers/alert_consumer.py) and the ingestion       *)
(* service they call (services/alert_ingestion_service.py).  A consumer    *)
(* takes a message off the alert topic, normalises it into a batch of      *)
(* alerts and walks each alert through                                     *)
(*                                                                         *)
(*   check -> claim -> lookup -> insert -> validate -> start -> attach     *)
(*                                              `-> record                 *)
(*                                                                         *)
(* where every arrow is an await on Redis, PostgreSQL or Temporal: another *)
(* consumer may run, the call may raise, or the process may die there.     *)
(* An alert is its dedupe key; the remapping of generic service names has  *)
(* already happened in AlertsOf.                                           *)
(***************************************************************************)
EXTENDS Naturals, Sequences, FiniteSets

CONSTANTS
  Consumers,         (* consumer processes                                  *)
  Messages,          (* messages that may be published on the alert topic   *)
  Keys,              (* dedupe keys                                         *)
  Ids,               (* incident primary keys (uuid4)                       *)
  NoKey,             (* no row has this id yet                              *)
  NoId,              (* a consumer that holds no incident                   *)
  AlertsOf,          (* the dedupe keys of the alerts of each message       *)
  SharedOffsets,     (* TRUE: Kafka group; FALSE: Event Hubs clients        *)
  ResumeAtLatest,    (* auto_offset_reset of a restarted Event Hubs client  *)
  StartWorkflows,    (* temporal_start_workflows                            *)
  MaxRebalances,     (* bound: evictions from the Kafka group               *)
  MaxCrashes,        (* bound: process deaths                               *)
  MaxErrors,         (* bound: exceptions that escape ingestion             *)
  MaxStartFailures   (* bound: start_incident_workflow calls that raise     *)

ASSUME KeysAssumption == NoKey \notin Keys
ASSUME IdsAssumption == NoId \notin Ids
ASSUME AlertsAssumption == AlertsOf \in [Messages -> Seq(Keys)]
ASSUME SettingsAssumption ==
  /\ SharedOffsets \in BOOLEAN
  /\ ResumeAtLatest \in BOOLEAN
  /\ StartWorkflows \in BOOLEAN
ASSUME BoundsAssumption ==
  /\ MaxRebalances \in Nat
  /\ MaxCrashes \in Nat
  /\ MaxErrors \in Nat
  /\ MaxStartFailures \in Nat

VARIABLES
  published,    (* messages on the topic                                    *)
  todo,         (* per consumer: messages the transport will still deliver  *)
  fetched,      (* per consumer: polled, offset not committed yet (Kafka)   *)
  pc,           (* per consumer: the next step for the alert in hand        *)
  batch,        (* per consumer: alerts left in the message, head in hand   *)
  mine,         (* per consumer: the incident it has created                *)
  claims,       (* dedupe keys set in Redis and not expired                 *)
  incident,     (* incidents table: the idempotency key of each row         *)
  validated,    (* incidents with an "alert.validated" event                *)
  startFailed,  (* incidents with a "workflow.start_failed" event           *)
  attached,     (* incidents whose workflow_id is set                       *)
  workflows,    (* incidents Temporal has a workflow execution for          *)
  starts,       (* history: start requests sent for each incident           *)
  faults        (* history: faults of each kind so far                      *)

transport == <<published, todo, fetched>>
local == <<pc, batch, mine>>
rows == <<incident, validated, startFailed, attached>>
temporal == <<workflows, starts>>
vars == <<transport, local, claims, rows, temporal, faults>>

Steps == {"idle", "check", "claim", "lookup", "insert",
          "validate", "start", "record", "attach"}

(* The steps at which a consumer holds the id of a row it has created.     *)
HoldingSteps == {"validate", "start", "record", "attach"}

FaultKinds == {"rebalance", "crash", "error", "start"}

Bound == [rebalance |-> MaxRebalances, crash |-> MaxCrashes,
          error |-> MaxErrors, start |-> MaxStartFailures]

Fault(kind) ==
  /\ faults[kind] < Bound[kind]
  /\ faults' = [faults EXCEPT ![kind] = @ + 1]

Init ==
  /\ published = {}
  /\ todo = [c \in Consumers |-> {}]
  /\ fetched = [c \in Consumers |-> {}]
  /\ pc = [c \in Consumers |-> "idle"]
  /\ batch = [c \in Consumers |-> <<>>]
  /\ mine = [c \in Consumers |-> NoId]
  /\ claims = {}
  /\ incident = [i \in Ids |-> NoKey]
  /\ validated = {}
  /\ startFailed = {}
  /\ attached = {}
  /\ workflows = {}
  /\ starts = [i \in Ids |-> 0]
  /\ faults = [kind \in FaultKinds |-> 0]

-----------------------------------------------------------------------------
(* The transport.  A Kafka message goes to one member of the group; an     *)
(* Event Hubs client is built without a checkpoint store, so every client  *)
(* receives every message.                                                 *)

Publish(m) ==
  /\ m \notin published
  /\ published' = published \cup {m}
  /\ todo' = [c \in Consumers |-> todo[c] \cup {m}]
  /\ UNCHANGED <<fetched, local, claims, rows, temporal, faults>>

(* Decoding and normalising touch no shared state; a message that cannot   *)
(* be decoded has no alerts and is passed over.                            *)
Receive(c, m) ==
  /\ pc[c] = "idle"
  /\ m \in todo[c]
  /\ todo' = [d \in Consumers |-> IF SharedOffsets \/ d = c
                                  THEN todo[d] \ {m} ELSE todo[d]]
  /\ fetched' = [fetched EXCEPT ![c] = IF SharedOffsets THEN @ \cup {m} ELSE @]
  /\ batch' = [batch EXCEPT ![c] = AlertsOf[m]]
  /\ pc' = [pc EXCEPT ![c] = IF AlertsOf[m] = <<>> THEN "idle" ELSE "check"]
  /\ UNCHANGED <<published, mine, claims, rows, temporal, faults>>

(* enable.auto.commit: a background thread commits what has been polled,   *)
(* whether or not it has been processed.                                   *)
AutoCommit(c) ==
  /\ fetched[c] # {}
  /\ fetched' = [fetched EXCEPT ![c] = {}]
  /\ UNCHANGED <<published, todo, local, claims, rows, temporal, faults>>

(* The uncommitted messages of c go back to the group.                     *)
Requeue(c) ==
  /\ todo' = [d \in Consumers |-> todo[d] \cup fetched[c]]
  /\ fetched' = [fetched EXCEPT ![c] = {}]

(* The group evicts a consumer that exceeded max.poll.interval.ms; the     *)
(* consumer itself goes on with the message it is processing.              *)
Rebalance(c) ==
  /\ fetched[c] # {}
  /\ Fault("rebalance")
  /\ Requeue(c)
  /\ UNCHANGED <<published, local, claims, rows, temporal>>

Forget(c) ==
  /\ pc' = [pc EXCEPT ![c] = "idle"]
  /\ batch' = [batch EXCEPT ![c] = <<>>]
  /\ mine' = [mine EXCEPT ![c] = NoId]

Crash(c) ==
  /\ Fault("crash")
  /\ Forget(c)
  /\ \/ SharedOffsets /\ Requeue(c)
     \/ /\ ~SharedOffsets
        /\ todo' = [todo EXCEPT ![c] = IF ResumeAtLatest THEN {} ELSE published]
        /\ UNCHANGED fetched
  /\ UNCHANGED <<published, claims, rows, temporal>>

(* Any await of ingestion may raise: the consumer logs the exception and   *)
(* moves on, dropping the rest of the message.                             *)
Fail(c) ==
  /\ pc[c] # "idle"
  /\ Fault("error")
  /\ Forget(c)
  /\ UNCHANGED <<transport, claims, rows, temporal>>

-----------------------------------------------------------------------------
(* One alert.                                                              *)

Alert(c) == Head(batch[c])

Exists(k) == \E i \in Ids : incident[i] = k

Goto(c, step) ==
  /\ pc' = [pc EXCEPT ![c] = step]
  /\ UNCHANGED <<batch, mine>>

(* Mutants: the incident of the last alert stays in hand; one alert that   *)
(* is passed over ends the whole batch.                                    *)
NextAlertKeepsIncident(c) ==
  /\ batch' = [batch EXCEPT ![c] = Tail(@)]
  /\ pc' = [pc EXCEPT ![c] = IF Tail(batch[c]) = <<>> THEN "idle" ELSE "check"]
  /\ UNCHANGED mine

NextAlertDropsBatch(c) == Forget(c)

NextAlert(c) ==
  /\ batch' = [batch EXCEPT ![c] = Tail(@)]
  /\ pc' = [pc EXCEPT ![c] = IF Tail(batch[c]) = <<>> THEN "idle" ELSE "check"]
  /\ mine' = [mine EXCEPT ![c] = NoId]

CheckExisting(c) ==
  /\ pc[c] = "check"
  /\ IF Exists(Alert(c)) THEN NextAlert(c) ELSE Goto(c, "claim")
  /\ UNCHANGED <<transport, claims, rows, temporal, faults>>

(* SET NX EX                                                               *)
Claim(c) ==
  /\ pc[c] = "claim"
  /\ IF Alert(c) \in claims THEN NextAlert(c) ELSE Goto(c, "lookup")
  /\ claims' = claims \cup {Alert(c)}
  /\ UNCHANGED <<transport, rows, temporal, faults>>

ExpireClaim(k) ==
  /\ k \in claims
  /\ claims' = claims \ {k}
  /\ UNCHANGED <<transport, local, rows, temporal, faults>>

(* Mutant: an existing row is taken over as if it had just been created.   *)
LookupAdopts(c) ==
  /\ pc[c] = "lookup"
  /\ IF Exists(Alert(c))
     THEN /\ mine' = [mine EXCEPT ![c] = CHOOSE i \in Ids : incident[i] = Alert(c)]
          /\ pc' = [pc EXCEPT ![c] = "validate"]
          /\ UNCHANGED batch
     ELSE Goto(c, "insert")
  /\ UNCHANGED <<transport, claims, rows, temporal, faults>>

Lookup(c) ==
  /\ pc[c] = "lookup"
  /\ IF Exists(Alert(c)) THEN NextAlert(c) ELSE Goto(c, "insert")
  /\ UNCHANGED <<transport, claims, rows, temporal, faults>>

(* Mutant: the workflow is started before the alert is stored.             *)
InsertRowSkipsValidate(c) ==
  \E i \in Ids :
    /\ incident[i] = NoKey
    /\ incident' = [incident EXCEPT ![i] = Alert(c)]
    /\ mine' = [mine EXCEPT ![c] = i]
    /\ pc' = [pc EXCEPT ![c] = "start"]
    /\ UNCHANGED batch

(* Row and "incident.created" event commit together; the unique constraint *)
(* on the key turns a lost race into "not created".                        *)
InsertRow(c) ==
  \E i \in Ids :
    /\ incident[i] = NoKey
    /\ incident' = [incident EXCEPT ![i] = Alert(c)]
    /\ mine' = [mine EXCEPT ![c] = i]
    /\ pc' = [pc EXCEPT ![c] = "validate"]
    /\ UNCHANGED batch

(* Mutant: no unique constraint on the idempotency key.                    *)
InsertUnchecked(c) ==
  /\ pc[c] = "insert"
  /\ InsertRow(c)
  /\ UNCHANGED <<transport, claims, validated, startFailed, attached, temporal, faults>>

Insert(c) ==
  /\ pc[c] = "insert"
  /\ IF Exists(Alert(c))
     THEN NextAlert(c) /\ UNCHANGED incident
     ELSE InsertRow(c)
  /\ UNCHANGED <<transport, claims, validated, startFailed, attached, temporal, faults>>

Validate(c) ==
  /\ pc[c] = "validate"
  /\ validated' = validated \cup {mine[c]}
  /\ Goto(c, "start")
  /\ UNCHANGED <<transport, claims, incident, startFailed, attached, temporal, faults>>

NoStarter(c) ==
  /\ pc[c] = "start"
  /\ ~StartWorkflows
  /\ NextAlert(c)
  /\ UNCHANGED <<transport, claims, rows, temporal, faults>>

SendStart(c) ==
  /\ pc[c] = "start"
  /\ StartWorkflows
  /\ starts' = [starts EXCEPT ![mine[c]] = @ + 1]
  /\ UNCHANGED <<transport, claims, rows>>

StartWorkflow(c) ==
  /\ SendStart(c)
  /\ workflows' = workflows \cup {mine[c]}
  /\ Goto(c, "attach")
  /\ UNCHANGED faults

(* Mutant: an exception of the call is not told from success.              *)
StartRaisesUnnoticed(c) ==
  /\ SendStart(c)
  /\ Fault("start")
  /\ workflows' \in {workflows, workflows \cup {mine[c]}}
  /\ Goto(c, "attach")

(* The call raises; a time-out leaves it open whether Temporal started.    *)
StartRaises(c) ==
  /\ SendStart(c)
  /\ Fault("start")
  /\ workflows' \in {workflows, workflows \cup {mine[c]}}
  /\ Goto(c, "record")

(* Mutant: the failure is logged and not stored.                           *)
RecordNothing(c) ==
  /\ pc[c] = "record"
  /\ NextAlert(c)
  /\ UNCHANGED <<transport, claims, rows, temporal, faults>>

RecordStartFailure(c) ==
  /\ pc[c] = "record"
  /\ startFailed' = startFailed \cup {mine[c]}
  /\ NextAlert(c)
  /\ UNCHANGED <<transport, claims, incident, validated, attached, temporal, faults>>

(* Mutant: the handle that start_incident_workflow returns is dropped.     *)
AttachNothing(c) ==
  /\ pc[c] = "attach"
  /\ NextAlert(c)
  /\ UNCHANGED <<transport, claims, rows, temporal, faults>>

AttachWorkflow(c) ==
  /\ pc[c] = "attach"
  /\ attached' = attached \cup {mine[c]}
  /\ NextAlert(c)
  /\ UNCHANGED <<transport, claims, incident, validated, startFailed, temporal, faults>>

-----------------------------------------------------------------------------
Ingest(c) ==
  \/ CheckExisting(c) \/ Claim(c) \/ Lookup(c) \/ Insert(c) \/ Validate(c)
  \/ NoStarter(c) \/ StartWorkflow(c) \/ RecordStartFailure(c) \/ AttachWorkflow(c)

Environment ==
  \/ \E m \in Messages : Publish(m)
  \/ \E k \in Keys : ExpireClaim(k)
  \/ \E c \in Consumers :
       AutoCommit(c) \/ Rebalance(c) \/ Crash(c) \/ Fail(c) \/ StartRaises(c)

Next ==
  \/ Environment
  \/ \E c \in Consumers : Ingest(c) \/ \E m \in Messages : Receive(c, m)

Spec == Init /\ [][Next]_vars

(* A live consumer keeps polling and its awaits return; nothing is assumed *)
(* of publishers, of Redis expiry or of the faults.                        *)
Fairness ==
  \A c \in Consumers :
    /\ WF_vars(Ingest(c))
    /\ \A m \in Messages : WF_vars(Receive(c, m))

FairSpec == Spec /\ Fairness

-----------------------------------------------------------------------------
(* A consumer is idle exactly when it has no alert left, and holds an      *)
(* incident exactly from the insert to the end of the alert.               *)
LocalsOK ==
  /\ pc \in [Consumers -> Steps]
  /\ batch \in [Consumers -> Seq(Keys)]
  /\ mine \in [Consumers -> Ids \cup {NoId}]
  /\ \A c \in Consumers :
       /\ pc[c] = "idle" <=> batch[c] = <<>>
       /\ pc[c] \in HoldingSteps <=> mine[c] # NoId

(* The type invariant: the tables, the topic and the consumers' locals.    *)
TypeOK ==
  /\ published \subseteq Messages
  /\ todo \in [Consumers -> SUBSET Messages]
  /\ fetched \in [Consumers -> SUBSET Messages]
  /\ LocalsOK
  /\ claims \subseteq Keys
  /\ incident \in [Ids -> Keys \cup {NoKey}]
  /\ validated \subseteq Ids
  /\ startFailed \subseteq Ids
  /\ attached \subseteq Ids
  /\ workflows \subseteq Ids
  /\ starts \in [Ids -> Nat]
  /\ faults \in [FaultKinds -> Nat]

(* However messages are redelivered, consumers interleave and claims       *)
(* expire, a dedupe key names at most one incident row: the guarantee of   *)
(* create_incident_once and the unique constraint behind it.               *)
OneIncidentPerKey ==
  \A i, j \in Ids : incident[i] # NoKey /\ incident[i] = incident[j] => i = j

(* Only the consumer that created a row drives it: start_incident_workflow *)
(* is requested at most once for an incident, so no second request can     *)
(* meet REJECT_DUPLICATE and mark a healthy incident as failed.            *)
OneStartPerIncident == \A i \in Ids : starts[i] <= 1

(* A workflow only ever runs for an incident whose "alert.validated" event *)
(* is committed: _alert_labels takes the alert's labels from that event.   *)
ValidatedBeforeWorkflow == workflows \subseteq validated

(* workflow_id is only stored for an execution that exists, and never on   *)
(* an incident whose start was recorded as failed.                         *)
AttachedIsRunning == attached \subseteq workflows \ startFailed

(* Rows that no consumer drives any more, with neither a workflow id nor a *)
(* start_failed event to show why.                                         *)
Orphans == {i \in Ids : /\ incident[i] # NoKey
                        /\ i \notin attached \cup startFailed
                        /\ \A c \in Consumers : mine[c] # i}

(* Each crash or escaped exception leaves at most one incident without a   *)
(* trace of its workflow, the one that consumer had in hand; nothing else  *)
(* (a race, a redelivery, an expired claim) ever does.                     *)
OrphansNeedFaults ==
  StartWorkflows => Cardinality(Orphans) <= faults["crash"] + faults["error"]

(* Ingestion as a whole implements the incident registry: a row appears    *)
(* once for its key, then is validated, then has a workflow, then carries  *)
(* its id, and no interleaving skips, repeats or undoes a stage.           *)
StageOf(i) ==
  CASE i \in attached        -> "linked"
    [] i \in workflows \ attached -> "running"
    [] i \in validated \ (workflows \cup attached) -> "validated"
    [] OTHER -> IF incident[i] = NoKey THEN "none" ELSE "open"

Registry == INSTANCE IncidentRegistry
              WITH keyOf <- incident, stage <- [i \in Ids |-> StageOf(i)]

ImplementsRegistry == Registry!Spec

(* Without crashes and exceptions, an alert on the topic ends up as an     *)
(* incident, whichever consumer won its claim.                             *)
AlertBecomesIncident ==
  \A m \in Messages : \A n \in DOMAIN AlertsOf[m] :
    m \in published ~> Exists(AlertsOf[m][n])

(* README.md:125: a durable workflow is started for every newly created    *)
(* incident and its id is stored on the row.                               *)
EveryIncidentGetsWorkflow ==
  \A i \in Ids : incident[i] # NoKey ~> i \in attached

-----------------------------------------------------------------------------
(* Why the safety properties hold, as an inductive invariant.              *)

NotStarted(i) == starts[i] = 0 /\ i \notin workflows \cup attached \cup startFailed

(* The rows in the hands of the consumers: each has one driver, and the    *)
(* driver's step says how far the row has come.                            *)
DriverInv ==
  /\ \A i \in Ids : incident[i] = NoKey => NotStarted(i) /\ i \notin validated
  /\ \A c, d \in Consumers : mine[c] # NoId /\ mine[c] = mine[d] => c = d
  /\ \A c \in Consumers :
       /\ pc[c] \in HoldingSteps => incident[mine[c]] # NoKey
       /\ pc[c] \in {"validate", "start"} => NotStarted(mine[c])
       /\ pc[c] = "start" => mine[c] \in validated
       /\ pc[c] = "record" => mine[c] \notin attached
       /\ pc[c] = "attach" => mine[c] \in workflows \ startFailed

(* The inductive invariant that carries the safety properties: ownership   *)
(* of each row by the one consumer that inserted it, beside the properties *)
(* themselves.                                                             *)
IInv ==
  /\ TypeOK
  /\ DriverInv
  /\ OneIncidentPerKey
  /\ OneStartPerIncident
  /\ ValidatedBeforeWorkflow
  /\ AttachedIsRunning

=============================================================================
