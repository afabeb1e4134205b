------------------------ MODULE AlertIngestionProofs ------------------------
(***************************************************************************)
(* What holds of AlertIngestion for any number of consumers, messages,     *)
(* keys and incidents, both transports, and any bound on the faults.       *)
(***************************************************************************)
EXTENDS AlertIngestion, TLAPS

-----------------------------------------------------------------------------
(* Type correctness.  Each way a step moves a consumer on is treated once. *)

(* Removing the alert in hand leaves a batch.                              *)
LEMMA BatchTail ==
  ASSUME NEW s \in Seq(Keys), s # <<>>
  PROVE  Head(s) \in Keys /\ Tail(s) \in Seq(Keys)
  OBVIOUS

(* The alert of a busy consumer is a dedupe key.                           *)
LEMMA AlertType ==
  ASSUME TypeOK, NEW c \in Consumers, pc[c] # "idle"
  PROVE  Alert(c) \in Keys /\ Tail(batch[c]) \in Seq(Keys)
<1>1. batch[c] \in Seq(Keys) /\ batch[c] # <<>>
  BY DEF TypeOK, LocalsOK
<1> QED BY <1>1, BatchTail DEF Alert

(* A step that holds an incident holds an existing id.                     *)
LEMMA MineType ==
  ASSUME TypeOK, NEW c \in Consumers, pc[c] \in HoldingSteps
  PROVE  mine[c] \in Ids
  BY DEF TypeOK, LocalsOK

LEMMA NextAlertLocals ==
  ASSUME TypeOK, NEW c \in Consumers, pc[c] # "idle", NextAlert(c)
  PROVE  LocalsOK'
<1>1. Tail(batch[c]) \in Seq(Keys)
  BY AlertType
<1> QED BY <1>1, IdsAssumption DEF TypeOK, LocalsOK, NextAlert, Steps, HoldingSteps

LEMMA GotoLocals ==
  ASSUME TypeOK, NEW c \in Consumers, pc[c] # "idle",
         NEW s \in Steps \ {"idle"}, s \in HoldingSteps <=> pc[c] \in HoldingSteps,
         Goto(c, s)
  PROVE  LocalsOK'
  BY DEF TypeOK, LocalsOK, Goto

LEMMA ForgetLocals ==
  ASSUME TypeOK, NEW c \in Consumers, Forget(c)
  PROVE  LocalsOK'
  BY DEF TypeOK, LocalsOK, Forget, Steps, HoldingSteps

LEMMA UnchangedLocals ==
  ASSUME TypeOK, UNCHANGED local
  PROVE  LocalsOK'
  BY DEF TypeOK, LocalsOK, local

LEMMA FaultType ==
  ASSUME TypeOK, NEW kind \in FaultKinds, Fault(kind)
  PROVE  faults' \in [FaultKinds -> Nat]
  BY DEF TypeOK, Fault

LEMMA TypeInit == Init => TypeOK
  BY DEF Init, TypeOK, LocalsOK, Steps, HoldingSteps

(* The transport's actions.                                                *)
LEMMA TypeTransport ==
  ASSUME TypeOK
  PROVE  /\ \A m \in Messages : Publish(m) => TypeOK'
         /\ \A c \in Consumers, m \in Messages : Receive(c, m) => TypeOK'
         /\ \A c \in Consumers : AutoCommit(c) \/ Rebalance(c) => TypeOK'
         /\ \A c \in Consumers : Crash(c) \/ Fail(c) => TypeOK'
<1> USE DEF transport, rows, temporal
<1>1. ASSUME NEW m \in Messages, Publish(m) PROVE TypeOK'
  BY <1>1, UnchangedLocals DEF Publish, TypeOK
<1>2. ASSUME NEW c \in Consumers, NEW m \in Messages, Receive(c, m) PROVE TypeOK'
  <2>1. AlertsOf[m] \in Seq(Keys)
    BY AlertsAssumption
  <2>2. LocalsOK'
    BY <1>2, <2>1 DEF Receive, TypeOK, LocalsOK, Steps, HoldingSteps
  <2>3. todo' \in [Consumers -> SUBSET Messages]
    BY <1>2 DEF Receive, TypeOK
  <2>4. fetched' \in [Consumers -> SUBSET Messages]
    BY <1>2 DEF Receive, TypeOK
  <2> QED BY <1>2, <2>2, <2>3, <2>4 DEF Receive, TypeOK
<1>3. ASSUME NEW c \in Consumers, AutoCommit(c) PROVE TypeOK'
  BY <1>3, UnchangedLocals DEF AutoCommit, TypeOK
<1>4. ASSUME NEW c \in Consumers, Rebalance(c) PROVE TypeOK'
  BY <1>4, UnchangedLocals, FaultType DEF Rebalance, Requeue, TypeOK, FaultKinds
<1>5. ASSUME NEW c \in Consumers, Crash(c) PROVE TypeOK'
  BY <1>5, ForgetLocals, FaultType DEF Crash, Requeue, TypeOK, FaultKinds
<1>6. ASSUME NEW c \in Consumers, Fail(c) PROVE TypeOK'
  BY <1>6, ForgetLocals, FaultType DEF Fail, TypeOK, FaultKinds
<1> QED BY <1>1, <1>2, <1>3, <1>4, <1>5, <1>6

(* The steps of one alert.                                                 *)
LEMMA TypeIngest ==
  ASSUME TypeOK, NEW c \in Consumers, Ingest(c)
  PROVE  TypeOK'
<1> USE DEF transport, rows, temporal
<1>1. CASE CheckExisting(c)
  <2>1. LocalsOK'
    BY <1>1, NextAlertLocals, GotoLocals DEF CheckExisting, Steps, HoldingSteps
  <2> QED BY <1>1, <2>1 DEF CheckExisting, TypeOK
<1>2. CASE Claim(c)
  <2>1. LocalsOK'
    BY <1>2, NextAlertLocals, GotoLocals DEF Claim, Steps, HoldingSteps
  <2>2. Alert(c) \in Keys
    BY <1>2, AlertType DEF Claim
  <2> QED BY <1>2, <2>1, <2>2 DEF Claim, TypeOK
<1>3. CASE Lookup(c)
  <2>1. LocalsOK'
    BY <1>3, NextAlertLocals, GotoLocals DEF Lookup, Steps, HoldingSteps
  <2> QED BY <1>3, <2>1 DEF Lookup, TypeOK
<1>4. CASE Insert(c)
  <2>1. pc[c] = "insert"
    BY <1>4 DEF Insert
  <2>2. Alert(c) \in Keys
    BY <2>1, AlertType
  <2>3. CASE NextAlert(c) /\ UNCHANGED incident
    <3>1. LocalsOK'
      BY <2>1, <2>3, NextAlertLocals
    <3> QED BY <1>4, <2>3, <3>1 DEF Insert, TypeOK
  <2>4. CASE InsertRow(c)
    <3>1. PICK i \in Ids : /\ incident' = [incident EXCEPT ![i] = Alert(c)]
                           /\ mine' = [mine EXCEPT ![c] = i]
                           /\ pc' = [pc EXCEPT ![c] = "validate"]
                           /\ batch' = batch
      BY <2>4 DEF InsertRow
    <3>2. LocalsOK'
      BY <2>1, <3>1, IdsAssumption DEF TypeOK, LocalsOK, Steps, HoldingSteps
    <3>3. incident' \in [Ids -> Keys \cup {NoKey}]
      BY <2>2, <3>1 DEF TypeOK
    <3> QED BY <1>4, <3>2, <3>3 DEF Insert, TypeOK
  <2> QED BY <1>4, <2>3, <2>4 DEF Insert
<1>5. CASE Validate(c)
  <2>1. LocalsOK'
    BY <1>5, GotoLocals DEF Validate, Steps, HoldingSteps
  <2>2. mine[c] \in Ids
    BY <1>5, MineType DEF Validate, HoldingSteps
  <2> QED BY <1>5, <2>1, <2>2 DEF Validate, TypeOK
<1>6. CASE NoStarter(c)
  <2>1. LocalsOK'
    BY <1>6, NextAlertLocals DEF NoStarter
  <2> QED BY <1>6, <2>1 DEF NoStarter, TypeOK
<1>7. CASE StartWorkflow(c)
  <2>1. LocalsOK'
    BY <1>7, GotoLocals DEF StartWorkflow, SendStart, Steps, HoldingSteps
  <2>2. mine[c] \in Ids
    BY <1>7, MineType DEF StartWorkflow, SendStart, HoldingSteps
  <2>3. starts' \in [Ids -> Nat]
    BY <1>7, <2>2 DEF StartWorkflow, SendStart, TypeOK
  <2> QED BY <1>7, <2>1, <2>2, <2>3 DEF StartWorkflow, SendStart, TypeOK
<1>8. CASE RecordStartFailure(c)
  <2>1. LocalsOK'
    BY <1>8, NextAlertLocals DEF RecordStartFailure
  <2>2. mine[c] \in Ids
    BY <1>8, MineType DEF RecordStartFailure, HoldingSteps
  <2> QED BY <1>8, <2>1, <2>2 DEF RecordStartFailure, TypeOK
<1>9. CASE AttachWorkflow(c)
  <2>1. LocalsOK'
    BY <1>9, NextAlertLocals DEF AttachWorkflow
  <2>2. mine[c] \in Ids
    BY <1>9, MineType DEF AttachWorkflow, HoldingSteps
  <2> QED BY <1>9, <2>1, <2>2 DEF AttachWorkflow, TypeOK
<1> QED BY <1>1, <1>2, <1>3, <1>4, <1>5, <1>6, <1>7, <1>8, <1>9 DEF Ingest

LEMMA TypeStartRaises ==
  ASSUME TypeOK, NEW c \in Consumers, StartRaises(c)
  PROVE  TypeOK'
<1> USE DEF transport, rows, temporal
<1>1. LocalsOK'
  BY GotoLocals DEF StartRaises, SendStart, Steps, HoldingSteps
<1>2. mine[c] \in Ids
  BY MineType DEF StartRaises, SendStart, HoldingSteps
<1>3. starts' \in [Ids -> Nat]
  BY <1>2 DEF StartRaises, SendStart, TypeOK
<1>4. faults' \in [FaultKinds -> Nat]
  BY FaultType DEF StartRaises, FaultKinds
<1> QED BY <1>1, <1>2, <1>3, <1>4 DEF StartRaises, SendStart, TypeOK

LEMMA TypeExpire ==
  ASSUME TypeOK, NEW k \in Keys, ExpireClaim(k)
  PROVE  TypeOK'
  BY UnchangedLocals DEF ExpireClaim, TypeOK, transport, rows, temporal

LEMMA TypeNext == TypeOK /\ [Next]_vars => TypeOK'
<1> SUFFICES ASSUME TypeOK, [Next]_vars PROVE TypeOK'
  OBVIOUS
<1>1. CASE Environment
  BY <1>1, TypeTransport, TypeExpire, TypeStartRaises DEF Environment
<1>2. CASE \E c \in Consumers : Ingest(c) \/ \E m \in Messages : Receive(c, m)
  BY <1>2, TypeIngest, TypeTransport
<1>3. CASE UNCHANGED vars
  BY <1>3 DEF vars, transport, local, rows, temporal, TypeOK, LocalsOK
<1> QED BY <1>1, <1>2, <1>3 DEF Next

(* The tables, the topic and the locals of every consumer keep their types *)
(* in every reachable state, for every value of the constants.             *)
THEOREM TypeCorrect == Spec => []TypeOK
  BY TypeInit, TypeNext, PTL DEF Spec

-----------------------------------------------------------------------------
(* Safety, by the inductive invariant IInv.  RowInv is its part beyond     *)
(* types; it only looks at locals, rows and Temporal.                      *)
RowInv ==
  /\ DriverInv
  /\ OneIncidentPerKey
  /\ OneStartPerIncident
  /\ ValidatedBeforeWorkflow
  /\ AttachedIsRunning

LEMMA RowInit == Init => RowInv
  BY IdsAssumption
  DEF Init, RowInv, DriverInv, NotStarted, HoldingSteps, OneIncidentPerKey,
      OneStartPerIncident, ValidatedBeforeWorkflow, AttachedIsRunning

(* A step that moves a consumer on without touching rows or Temporal, and  *)
(* gives nobody a new incident, preserves RowInv if the consumer ends up   *)
(* at a step that claims nothing about its row.                            *)
LEMMA RowUnchanged ==
  ASSUME RowInv, UNCHANGED <<rows, temporal>>, LocalsOK', TypeOK,
         \A c \in Consumers :
            \/ mine'[c] = NoId
            \/ mine'[c] = mine[c] /\ pc'[c] = pc[c]
  PROVE  RowInv'
<1> USE DEF rows, temporal
<1>1. \A c \in Consumers : mine'[c] = NoId => pc'[c] \notin HoldingSteps
  BY DEF LocalsOK
<1>2. DriverInv'
  BY <1>1 DEF RowInv, DriverInv, NotStarted, HoldingSteps
<1> QED BY <1>2 DEF RowInv, OneIncidentPerKey, OneStartPerIncident,
                    ValidatedBeforeWorkflow, AttachedIsRunning

(* Before the insert a consumer holds no row, so the steps up to there,    *)
(* the transport's actions and the faults leave RowInv alone.              *)
LEMMA RowQuiet ==
  ASSUME TypeOK, TypeOK', RowInv
  PROVE  /\ \A m \in Messages : Publish(m) => RowInv'
         /\ \A k \in Keys : ExpireClaim(k) => RowInv'
         /\ \A c \in Consumers, m \in Messages : Receive(c, m) => RowInv'
         /\ \A c \in Consumers : AutoCommit(c) \/ Rebalance(c) => RowInv'
         /\ \A c \in Consumers : Crash(c) \/ Fail(c) => RowInv'
         /\ \A c \in Consumers : CheckExisting(c) \/ Claim(c) \/ Lookup(c) => RowInv'
         /\ \A c \in Consumers : NoStarter(c) => RowInv'
<1>1. LocalsOK /\ LocalsOK'
  BY DEF TypeOK
<1>2. ASSUME NEW m \in Messages, Publish(m) PROVE RowInv'
  BY <1>1, <1>2, RowUnchanged DEF Publish, local
<1>3. ASSUME NEW k \in Keys, ExpireClaim(k) PROVE RowInv'
  BY <1>1, <1>3, RowUnchanged DEF ExpireClaim, local
<1>4. ASSUME NEW c \in Consumers, NEW m \in Messages, Receive(c, m) PROVE RowInv'
  <2>1. mine[c] = NoId
    BY <1>1, <1>4 DEF Receive, LocalsOK, HoldingSteps
  <2>2. \A d \in Consumers : mine'[d] = NoId \/ (mine'[d] = mine[d] /\ pc'[d] = pc[d])
    BY <1>1, <1>4, <2>1 DEF Receive, LocalsOK
  <2> QED BY <1>1, <1>4, <2>2, RowUnchanged DEF Receive
<1>5. ASSUME NEW c \in Consumers, AutoCommit(c) \/ Rebalance(c) PROVE RowInv'
  BY <1>1, <1>5, RowUnchanged DEF AutoCommit, Rebalance, local
<1>6. ASSUME NEW c \in Consumers, Crash(c) \/ Fail(c) PROVE RowInv'
  <2>1. \A d \in Consumers : mine'[d] = NoId \/ (mine'[d] = mine[d] /\ pc'[d] = pc[d])
    BY <1>1, <1>6 DEF Crash, Fail, Forget, LocalsOK
  <2> QED BY <1>1, <1>6, <2>1, RowUnchanged DEF Crash, Fail
<1>7. ASSUME NEW c \in Consumers, CheckExisting(c) \/ Claim(c) \/ Lookup(c) PROVE RowInv'
  <2>1. mine[c] = NoId
    BY <1>1, <1>7 DEF CheckExisting, Claim, Lookup, LocalsOK, HoldingSteps
  <2>2. \A d \in Consumers : mine'[d] = NoId \/ (mine'[d] = mine[d] /\ pc'[d] = pc[d])
    BY <1>1, <1>7, <2>1 DEF CheckExisting, Claim, Lookup, NextAlert, Goto, LocalsOK
  <2> QED BY <1>1, <1>7, <2>2, RowUnchanged DEF CheckExisting, Claim, Lookup
<1>8. ASSUME NEW c \in Consumers, NoStarter(c) PROVE RowInv'
  <2>1. \A d \in Consumers : mine'[d] = NoId \/ (mine'[d] = mine[d] /\ pc'[d] = pc[d])
    BY <1>1, <1>8 DEF NoStarter, NextAlert, LocalsOK
  <2> QED BY <1>1, <1>8, <2>1, RowUnchanged DEF NoStarter
<1> QED BY <1>2, <1>3, <1>4, <1>5, <1>6, <1>7, <1>8

(* The insert: only when no row has the key, so the new row is the only    *)
(* one with it, and nobody else can hold its id.                           *)
LEMMA RowInsert ==
  ASSUME TypeOK, TypeOK', RowInv, NEW c \in Consumers, Insert(c)
  PROVE  RowInv'
<1>1. pc[c] = "insert" /\ mine[c] = NoId
  BY DEF Insert, TypeOK, LocalsOK, HoldingSteps
<1>2. CASE NextAlert(c) /\ UNCHANGED incident
  <2>1. \A d \in Consumers : mine'[d] = NoId \/ (mine'[d] = mine[d] /\ pc'[d] = pc[d])
    BY <1>1, <1>2 DEF NextAlert, TypeOK, LocalsOK
  <2> QED BY <1>2, <2>1, RowUnchanged DEF Insert, TypeOK, rows
<1>3. CASE ~Exists(Alert(c)) /\ InsertRow(c)
  <2>1. PICK i \in Ids : /\ incident[i] = NoKey
                         /\ incident' = [incident EXCEPT ![i] = Alert(c)]
                         /\ mine' = [mine EXCEPT ![c] = i]
                         /\ pc' = [pc EXCEPT ![c] = "validate"]
    BY <1>3 DEF InsertRow
  <2>2. UNCHANGED <<validated, startFailed, attached, workflows, starts>>
    BY DEF Insert, temporal
  <2>3. Alert(c) \in Keys
    BY <1>1, AlertType
  <2>4. \A d \in Consumers : mine[d] # i
    BY <2>1, IdsAssumption DEF RowInv, DriverInv, TypeOK, LocalsOK
  <2>5. /\ incident'[i] = Alert(c)
        /\ \A j \in Ids \ {i} : incident'[j] = incident[j]
    BY <2>1 DEF TypeOK
  <2>6. OneIncidentPerKey'
    BY <1>3, <2>5 DEF RowInv, OneIncidentPerKey, Exists
  <2>7. DriverInv'
    <3>1. \A j \in Ids : incident'[j] = NoKey => incident[j] = NoKey
      BY <2>1, <2>5
    <3>2. \A d \in Consumers \ {c} : mine'[d] = mine[d] /\ pc'[d] = pc[d]
      BY <2>1 DEF TypeOK, LocalsOK
    <3>3. mine'[c] = i /\ pc'[c] = "validate"
      BY <2>1 DEF TypeOK, LocalsOK
    <3>4. \A d \in Consumers, e \in Consumers :
             mine'[d] # NoId /\ mine'[d] = mine'[e] => d = e
      BY <2>4, <3>2, <3>3 DEF RowInv, DriverInv
    <3>5. \A d \in Consumers : pc'[d] \in HoldingSteps => incident'[mine'[d]] # NoKey
      <4> SUFFICES ASSUME NEW d \in Consumers, pc'[d] \in HoldingSteps
                   PROVE  incident'[mine'[d]] # NoKey
        OBVIOUS
      <4>1. CASE d = c
        BY <2>3, <2>5, <3>3, <4>1, KeysAssumption
      <4>2. CASE d # c
        <5>1. pc[d] \in HoldingSteps /\ mine'[d] = mine[d]
          BY <3>2, <4>2
        <5>2. mine[d] \in Ids \ {i}
          BY <2>4, <5>1, MineType
        <5> QED BY <2>5, <5>1, <5>2 DEF RowInv, DriverInv
      <4> QED BY <4>1, <4>2
    <3>6. NotStarted(i) /\ i \notin validated
      BY <2>1 DEF RowInv, DriverInv
    <3> QED BY <2>2, <3>1, <3>2, <3>3, <3>4, <3>5, <3>6 DEF RowInv, DriverInv, NotStarted
  <2> QED BY <2>2, <2>6, <2>7 DEF RowInv, OneStartPerIncident,
                                  ValidatedBeforeWorkflow, AttachedIsRunning
<1> QED BY <1>2, <1>3 DEF Insert

(* From here on the consumer works on its own row: no other consumer holds *)
(* that row, so what the others know about theirs is not disturbed.        *)
LEMMA SoleDriver ==
  ASSUME TypeOK, RowInv, NEW c \in Consumers, pc[c] \in HoldingSteps
  PROVE  /\ mine[c] \in Ids
         /\ incident[mine[c]] # NoKey
         /\ \A d \in Consumers \ {c} : mine[d] # mine[c]
         /\ \A i \in Ids : incident[i] = NoKey => i # mine[c]
<1>1. mine[c] \in Ids
  BY MineType
<1> QED BY <1>1, IdsAssumption DEF RowInv, DriverInv

LEMMA RowValidate ==
  ASSUME TypeOK, TypeOK', RowInv, NEW c \in Consumers, Validate(c)
  PROVE  RowInv'
<1>1. pc[c] = "validate" /\ pc[c] \in HoldingSteps
  BY DEF Validate, HoldingSteps
<1>2. /\ pc' = [pc EXCEPT ![c] = "start"]
      /\ mine' = mine
      /\ validated' = validated \cup {mine[c]}
      /\ UNCHANGED <<incident, startFailed, attached, workflows, starts>>
  BY DEF Validate, Goto, temporal
<1>3. DriverInv'
  <2>1. /\ pc'[c] = "start"
        /\ \A d \in Consumers \ {c} : pc'[d] = pc[d]
    BY <1>2 DEF TypeOK, LocalsOK
  <2> QED BY <1>1, <1>2, <2>1, SoleDriver DEF RowInv, DriverInv, NotStarted
<1> QED BY <1>2, <1>3 DEF RowInv, OneIncidentPerKey, OneStartPerIncident,
                          ValidatedBeforeWorkflow, AttachedIsRunning

(* The start request: the row has never been started before, and is        *)
(* validated.                                                              *)
LEMMA RowStart ==
  ASSUME TypeOK, TypeOK', RowInv, NEW c \in Consumers,
         StartWorkflow(c) \/ StartRaises(c)
  PROVE  RowInv'
<1>1. pc[c] = "start" /\ pc[c] \in HoldingSteps
  BY DEF StartWorkflow, StartRaises, SendStart, HoldingSteps
<1>2. /\ mine' = mine
      /\ starts' = [starts EXCEPT ![mine[c]] = @ + 1]
      /\ workflows' \in {workflows, workflows \cup {mine[c]}}
      /\ UNCHANGED <<incident, validated, startFailed, attached>>
  BY DEF StartWorkflow, StartRaises, SendStart, Goto, rows
<1>3. \/ pc'[c] = "attach" /\ workflows' = workflows \cup {mine[c]}
      \/ pc'[c] = "record"
  BY DEF StartWorkflow, StartRaises, Goto, TypeOK, LocalsOK
<1>4. \A d \in Consumers \ {c} : pc'[d] = pc[d]
  BY DEF StartWorkflow, StartRaises, Goto, TypeOK, LocalsOK
<1>5. mine[c] \in validated /\ NotStarted(mine[c]) /\ mine[c] \in Ids
  BY <1>1, SoleDriver DEF RowInv, DriverInv
<1>6. \A i \in Ids : i # mine[c] => starts'[i] = starts[i]
  BY <1>2 DEF TypeOK
<1>7. starts'[mine[c]] = 1
  BY <1>2, <1>5 DEF TypeOK, NotStarted
<1>8. DriverInv'
  <2>1. \A i \in Ids : incident'[i] = NoKey => (NotStarted(i) /\ i \notin validated)'
    BY <1>1, <1>2, <1>6, SoleDriver DEF RowInv, DriverInv, NotStarted
  <2>2. \A d \in Consumers \ {c} :
          /\ pc'[d] \in HoldingSteps => incident'[mine'[d]] # NoKey
          /\ pc'[d] \in {"validate", "start"} => NotStarted(mine[d])'
          /\ pc'[d] = "start" => mine'[d] \in validated'
          /\ pc'[d] = "record" => mine'[d] \notin attached'
          /\ pc'[d] = "attach" => mine'[d] \in workflows' \ startFailed'
    <3> SUFFICES ASSUME NEW d \in Consumers \ {c}, pc[d] \in HoldingSteps
                 PROVE  /\ incident[mine[d]] # NoKey
                        /\ pc[d] \in {"validate", "start"} => NotStarted(mine[d])'
                        /\ pc[d] = "start" => mine[d] \in validated
                        /\ pc[d] = "record" => mine[d] \notin attached
                        /\ pc[d] = "attach" => mine[d] \in workflows' \ startFailed
      BY <1>2, <1>4 DEF HoldingSteps
    <3>1. mine[d] \in Ids /\ mine[d] # mine[c]
      BY <1>1, SoleDriver
    <3> QED BY <1>2, <1>6, <3>1 DEF RowInv, DriverInv, NotStarted
  <2>3. /\ incident'[mine'[c]] # NoKey
        /\ pc'[c] \notin {"validate", "start"}
        /\ pc'[c] = "record" => mine'[c] \notin attached'
        /\ pc'[c] = "attach" => mine'[c] \in workflows' \ startFailed'
    BY <1>1, <1>2, <1>3, <1>5, SoleDriver DEF NotStarted
  <2>4. \A d, e \in Consumers : mine'[d] # NoId /\ mine'[d] = mine'[e] => d = e
    BY <1>2 DEF RowInv, DriverInv
  <2> QED BY <2>1, <2>2, <2>3, <2>4 DEF DriverInv
<1>9. OneStartPerIncident'
  BY <1>6, <1>7 DEF RowInv, OneStartPerIncident
<1> QED BY <1>2, <1>5, <1>8, <1>9 DEF RowInv, OneIncidentPerKey,
                                      ValidatedBeforeWorkflow, AttachedIsRunning

(* The alert's last step writes the one column, or the one event, that     *)
(* concerns its own row.                                                   *)
LEMMA RowFinish ==
  ASSUME TypeOK, TypeOK', RowInv, NEW c \in Consumers,
         RecordStartFailure(c) \/ AttachWorkflow(c)
  PROVE  RowInv'
<1>1. pc[c] \in {"record", "attach"} /\ pc[c] \in HoldingSteps
  BY DEF RecordStartFailure, AttachWorkflow, HoldingSteps
<1>2. /\ \/ /\ pc[c] = "record"
           /\ startFailed' = startFailed \cup {mine[c]}
           /\ attached' = attached
        \/ /\ pc[c] = "attach"
           /\ attached' = attached \cup {mine[c]}
           /\ startFailed' = startFailed
      /\ UNCHANGED <<incident, validated, workflows, starts>>
  BY DEF RecordStartFailure, AttachWorkflow, temporal
<1>3. /\ mine'[c] = NoId /\ pc'[c] \notin HoldingSteps
      /\ \A d \in Consumers \ {c} : mine'[d] = mine[d] /\ pc'[d] = pc[d]
  <2>1. /\ mine'[c] = NoId
        /\ \A d \in Consumers \ {c} : mine'[d] = mine[d] /\ pc'[d] = pc[d]
    BY DEF RecordStartFailure, AttachWorkflow, NextAlert, TypeOK, LocalsOK
  <2> QED BY <2>1 DEF TypeOK, LocalsOK
<1>4. DriverInv'
  <2>1. \A i \in Ids : incident'[i] = NoKey => (NotStarted(i) /\ i \notin validated)'
    BY <1>1, <1>2, SoleDriver DEF RowInv, DriverInv, NotStarted
  <2>2. \A d \in Consumers \ {c} : mine[d] # mine[c]
    BY <1>1, SoleDriver
  <2> QED BY <1>2, <1>3, <2>1, <2>2 DEF RowInv, DriverInv, NotStarted, HoldingSteps
<1>5. AttachedIsRunning'
  BY <1>2 DEF RowInv, DriverInv, AttachedIsRunning
<1> QED BY <1>2, <1>4, <1>5 DEF RowInv, OneIncidentPerKey, OneStartPerIncident,
                                ValidatedBeforeWorkflow

LEMMA RowNext == TypeOK /\ RowInv /\ [Next]_vars => RowInv'
<1> SUFFICES ASSUME TypeOK, RowInv, [Next]_vars PROVE RowInv'
  OBVIOUS
<1>1. TypeOK'
  BY TypeNext
<1>2. CASE Environment
  BY <1>1, <1>2, RowQuiet, RowStart DEF Environment
<1>3. ASSUME NEW c \in Consumers, Ingest(c) PROVE RowInv'
  BY <1>1, <1>3, RowQuiet, RowInsert, RowValidate, RowStart, RowFinish DEF Ingest
<1>4. ASSUME NEW c \in Consumers, NEW m \in Messages, Receive(c, m) PROVE RowInv'
  BY <1>1, <1>4, RowQuiet
<1>5. CASE UNCHANGED vars
  <2>1. UNCHANGED <<rows, temporal>> /\ UNCHANGED local
    BY <1>5 DEF vars
  <2> QED BY <1>1, <2>1, RowUnchanged DEF local, TypeOK
<1> QED BY <1>2, <1>3, <1>4, <1>5 DEF Next

(* The inductive invariant holds of every reachable state.                 *)
THEOREM Invariance == Spec => []IInv
<1>1. Init => RowInv
  BY RowInit
<1>2. TypeOK /\ RowInv /\ [Next]_vars => RowInv'
  BY RowNext
<1>3. TypeOK /\ RowInv => IInv
  BY DEF RowInv, IInv
<1> QED BY <1>1, <1>2, <1>3, TypeCorrect, PTL DEF Spec

(* A dedupe key never names two incidents: no interleaving of consumers,   *)
(* redelivery or claim expiry gets past the unique constraint.             *)
THEOREM KeyUniqueness == Spec => []OneIncidentPerKey
  BY Invariance, PTL DEF IInv

(* The start of an incident's workflow is requested at most once, by the   *)
(* consumer that inserted the row.                                         *)
THEOREM StartedOnce == Spec => []OneStartPerIncident
  BY Invariance, PTL DEF IInv

(* Every row is driven by at most one consumer, whose step says how far    *)
(* the row has come.                                                       *)
THEOREM Ownership == Spec => []DriverInv
  BY Invariance, PTL DEF IInv

(* No workflow runs for an incident whose alert.validated event, and with  *)
(* it the alert's labels, is not yet stored.                               *)
THEOREM LabelsStored == Spec => []ValidatedBeforeWorkflow
  BY Invariance, PTL DEF IInv

(* No workflow id is stored for a workflow that was not started, or whose  *)
(* start was recorded as failed.                                           *)
THEOREM AttachedRuns == Spec => []AttachedIsRunning
  BY Invariance, PTL DEF IInv

-----------------------------------------------------------------------------
(* Refinement: every step of ingestion is a step of the registry or leaves *)
(* its state alone.                                                        *)

LEMMA StageValues ==
  ASSUME RowInv, NEW i \in Ids
  PROVE  /\ i \in attached => StageOf(i) = "linked"
         /\ i \notin attached /\ i \in workflows => StageOf(i) = "running"
         /\ i \notin workflows /\ i \in validated => StageOf(i) = "validated"
         /\ i \notin validated /\ incident[i] # NoKey => StageOf(i) = "open"
         /\ incident[i] = NoKey => StageOf(i) = "none"
<1>1. attached \subseteq workflows /\ workflows \subseteq validated
  BY DEF RowInv, AttachedIsRunning, ValidatedBeforeWorkflow
<1>2. incident[i] = NoKey => i \notin validated
  BY DEF RowInv, DriverInv
<1> QED BY <1>1, <1>2 DEF StageOf

LEMMA RegistryInit == Init => Registry!Init
<1> SUFFICES ASSUME Init PROVE Registry!Init
  OBVIOUS
<1>1. RowInv
  BY RowInit
<1>2. \A i \in Ids : StageOf(i) = "none"
  BY <1>1, StageValues DEF Init
<1> QED BY <1>2 DEF Init, Registry!Init

(* A step that only takes one row from a stage to the next.                *)
LEMMA RegistryAdvance ==
  ASSUME NEW i \in Ids, UNCHANGED incident,
         \A j \in Ids \ {i} : StageOf(j)' = StageOf(j),
         \/ StageOf(i) = "open" /\ StageOf(i)' = "validated"
         \/ StageOf(i) = "validated" /\ StageOf(i)' = "running"
         \/ StageOf(i) = "running" /\ StageOf(i)' = "linked"
  PROVE  Registry!Next
<1> DEFINE stage == [j \in Ids |-> StageOf(j)]
<1>1. StageOf(i) \in DOMAIN Registry!Successor
  BY DEF Registry!Successor
<1>2. StageOf(i)' = Registry!Successor[StageOf(i)]
  BY DEF Registry!Successor
<1>3. stage' = [stage EXCEPT ![i] = Registry!Successor[@]]
  BY <1>2
<1>4. Registry!Advance(i)
  BY <1>1, <1>3 DEF Registry!Advance
<1> QED BY <1>4 DEF Registry!Next

(* A step that leaves the rows and the executions alone is a stutter.      *)
LEMMA RegistryStutter ==
  ASSUME UNCHANGED <<incident, validated, attached, workflows>>
  PROVE  UNCHANGED Registry!vars
<1>1. \A i \in Ids : StageOf(i)' = StageOf(i)
  BY DEF StageOf
<1> QED BY <1>1 DEF Registry!vars

LEMMA RegistryInsert ==
  ASSUME IInv, IInv', NEW c \in Consumers, Insert(c)
  PROVE  Registry!Next \/ UNCHANGED Registry!vars
<1> USE DEF IInv
<1>1. UNCHANGED <<validated, attached, workflows>>
  BY DEF Insert, temporal
<1>2. CASE UNCHANGED incident
  BY <1>1, <1>2, RegistryStutter
<1>3. CASE ~Exists(Alert(c)) /\ InsertRow(c)
  <2>1. PICK i \in Ids : /\ incident[i] = NoKey
                         /\ incident' = [incident EXCEPT ![i] = Alert(c)]
    BY <1>3 DEF InsertRow
  <2>2. Alert(c) \in Keys
    BY AlertType DEF Insert
  <2>3. RowInv /\ RowInv'
    BY DEF RowInv
  <2>4. /\ incident'[i] = Alert(c) /\ incident'[i] # NoKey
        /\ \A j \in Ids \ {i} : incident'[j] = incident[j]
    BY <2>1, <2>2, KeysAssumption DEF TypeOK
  <2>5. StageOf(i)' = "open"
    <3>1. i \notin validated \cup workflows \cup attached
      BY <2>1 DEF DriverInv, NotStarted
    <3> QED BY <1>1, <2>4, <3>1 DEF StageOf
  <2>6. \A j \in Ids \ {i} : StageOf(j)' = StageOf(j)
    BY <1>1, <2>4 DEF StageOf
  <2>7. [j \in Ids |-> StageOf(j)]' = [[j \in Ids |-> StageOf(j)] EXCEPT ![i] = "open"]
    BY <2>5, <2>6
  <2>8. Registry!Open(i, Alert(c))
    BY <1>3, <2>1, <2>7 DEF Registry!Open, Exists
  <2> QED BY <2>2, <2>8 DEF Registry!Next
<1> QED BY <1>2, <1>3 DEF Insert

LEMMA StageFrame ==
  ASSUME NEW i \in Ids, UNCHANGED incident,
         i \in validated' <=> i \in validated,
         i \in workflows' <=> i \in workflows,
         i \in attached' <=> i \in attached
  PROVE  StageOf(i)' = StageOf(i)
<1> QED BY DEF StageOf

LEMMA StageNext ==
  ASSUME RowInv', NEW i \in Ids
  PROVE  /\ i \in attached' => StageOf(i)' = "linked"
         /\ i \notin attached' /\ i \in workflows' => StageOf(i)' = "running"
         /\ i \notin workflows' /\ i \in validated' => StageOf(i)' = "validated"
<1>1. attached' \subseteq workflows' /\ workflows' \subseteq validated'
  BY DEF RowInv, AttachedIsRunning, ValidatedBeforeWorkflow
<1> QED BY <1>1 DEF StageOf

LEMMA RegistryProgress ==
  ASSUME IInv, IInv', NEW c \in Consumers,
         Validate(c) \/ StartWorkflow(c) \/ StartRaises(c) \/ AttachWorkflow(c)
  PROVE  Registry!Next \/ UNCHANGED Registry!vars
<1>1. RowInv /\ RowInv' /\ TypeOK
  BY DEF RowInv, IInv
<1>2. pc[c] \in HoldingSteps /\ UNCHANGED incident
  BY DEF Validate, StartWorkflow, StartRaises, SendStart, AttachWorkflow, HoldingSteps, rows
<1>3. PICK i \in Ids : i = mine[c] /\ incident[i] # NoKey
  BY <1>1, <1>2, SoleDriver
<1>4. attached \subseteq workflows /\ attached' \subseteq workflows'
  BY <1>1 DEF RowInv, AttachedIsRunning
<1>5. CASE Validate(c)
  <2>1. i \notin workflows /\ validated' = validated \cup {i}
    BY <1>1, <1>3, <1>5 DEF Validate, RowInv, DriverInv, NotStarted
  <2>2. UNCHANGED <<workflows, attached>>
    BY <1>5 DEF Validate, temporal
  <2>3. \A j \in Ids \ {i} : StageOf(j)' = StageOf(j)
    BY <1>2, <2>1, <2>2, StageFrame
  <2>4. StageOf(i)' = "validated"
    BY <1>1, <1>3, <2>1, <2>2, StageNext
  <2>5. CASE i \in validated
    <3>1. UNCHANGED validated
      BY <2>1, <2>5
    <3> QED BY <1>2, <2>2, <3>1, RegistryStutter
  <2>6. CASE i \notin validated
    <3>1. StageOf(i) = "open"
      BY <1>1, <1>3, <2>6, StageValues
    <3> QED BY <1>2, <1>3, <2>3, <2>4, <3>1, RegistryAdvance
  <2> QED BY <2>5, <2>6
<1>6. CASE StartWorkflow(c) \/ StartRaises(c)
  <2>1. /\ i \in validated /\ i \notin workflows
        /\ workflows' \in {workflows, workflows \cup {i}}
        /\ UNCHANGED <<validated, attached>>
    BY <1>1, <1>3, <1>6 DEF StartWorkflow, StartRaises, SendStart, RowInv, DriverInv,
                      NotStarted, rows
  <2>2. CASE workflows' = workflows
    BY <1>2, <2>1, <2>2, RegistryStutter
  <2>3. CASE workflows' = workflows \cup {i}
    <3>1. \A j \in Ids \ {i} : StageOf(j)' = StageOf(j)
      BY <1>2, <2>1, <2>3, StageFrame
    <3>2. StageOf(i) = "validated"
      BY <1>1, <1>3, <2>1, StageValues
    <3>3. StageOf(i)' = "running"
      BY <1>1, <1>3, <1>4, <2>1, <2>3, StageNext
    <3> QED BY <1>2, <1>3, <3>1, <3>2, <3>3, RegistryAdvance
  <2> QED BY <2>1, <2>2, <2>3
<1>7. CASE AttachWorkflow(c)
  <2>1. /\ i \in workflows
        /\ attached' = attached \cup {i}
        /\ UNCHANGED <<validated, workflows>>
    BY <1>1, <1>3, <1>7 DEF AttachWorkflow, RowInv, DriverInv, temporal
  <2>2. CASE i \in attached
    <3>1. UNCHANGED attached
      BY <2>1, <2>2
    <3> QED BY <1>2, <2>1, <3>1, RegistryStutter
  <2>3. CASE i \notin attached
    <3>1. \A j \in Ids \ {i} : StageOf(j)' = StageOf(j)
      BY <1>2, <2>1, StageFrame
    <3>2. StageOf(i) = "running"
      BY <1>1, <1>3, <2>1, <2>3, StageValues
    <3>3. StageOf(i)' = "linked"
      BY <1>1, <1>3, <2>1, StageNext
    <3> QED BY <1>2, <1>3, <3>1, <3>2, <3>3, RegistryAdvance
  <2> QED BY <2>2, <2>3
<1> QED BY <1>5, <1>6, <1>7

LEMMA RegistryStep ==
  IInv /\ IInv' /\ [Next]_vars => Registry!Next \/ UNCHANGED Registry!vars
<1> SUFFICES ASSUME IInv, IInv', [Next]_vars
             PROVE  Registry!Next \/ UNCHANGED Registry!vars
  OBVIOUS
<1>1. CASE Environment
  <2>1. ASSUME NEW c \in Consumers, StartRaises(c)
        PROVE  Registry!Next \/ UNCHANGED Registry!vars
    BY <2>1, RegistryProgress
  <2>2. CASE ~\E c \in Consumers : StartRaises(c)
    <3>1. UNCHANGED <<rows, workflows>>
      BY <1>1, <2>2 DEF Environment, Publish, ExpireClaim, AutoCommit, Rebalance, Crash,
                        Fail, temporal
    <3> QED BY <3>1, RegistryStutter DEF rows
  <2> QED BY <2>1, <2>2
<1>2. ASSUME NEW c \in Consumers, Ingest(c)
      PROVE  Registry!Next \/ UNCHANGED Registry!vars
  <2>1. CASE CheckExisting(c) \/ Claim(c) \/ Lookup(c) \/ NoStarter(c)
    <3>1. UNCHANGED <<rows, workflows>>
      BY <2>1 DEF CheckExisting, Claim, Lookup, NoStarter, temporal
    <3> QED BY <3>1, RegistryStutter DEF rows
  <2>2. CASE RecordStartFailure(c)
    <3>1. UNCHANGED <<incident, validated, attached, workflows>>
      BY <2>2 DEF RecordStartFailure, temporal
    <3> QED BY <3>1, RegistryStutter
  <2> QED BY <1>2, <2>1, <2>2, RegistryInsert, RegistryProgress DEF Ingest
<1>3. ASSUME NEW c \in Consumers, NEW m \in Messages, Receive(c, m)
      PROVE  Registry!Next \/ UNCHANGED Registry!vars
  <2>1. UNCHANGED <<rows, workflows>>
    BY <1>3 DEF Receive, temporal
  <2> QED BY <2>1, RegistryStutter DEF rows
<1>4. CASE UNCHANGED vars
  <2>1. UNCHANGED <<rows, workflows>>
    BY <1>4 DEF vars, temporal
  <2> QED BY <2>1, RegistryStutter DEF rows
<1> QED BY <1>1, <1>2, <1>3, <1>4 DEF Next

(* Ingestion implements the incident registry, whatever the consumers, the *)
(* transport and the faults do.                                            *)
THEOREM Refinement == Spec => ImplementsRegistry
<1>1. Init => Registry!Init
  BY RegistryInit
<1>2. IInv /\ IInv' /\ [Next]_vars => [Registry!Next]_(Registry!vars)
  BY RegistryStep
<1> QED BY <1>1, <1>2, Invariance, PTL DEF Spec, ImplementsRegistry, Registry!Spec

=============================================================================
