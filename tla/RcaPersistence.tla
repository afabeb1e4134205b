---------------------------- MODULE RcaPersistence ----------------------------
(***************************************************************************)
(* What the attempts of agent_graph_run store (workflows/activities.py).   *)
(* An attempt runs the agent graph and then commits its output row by row: *)
(*                                                                         *)
(*   evidence, tool and model calls, hypotheses, their announcements,      *)
(*   the plan, the report and the texts to embed                           *)
(*                                                                         *)
(* The first half is stored by every attempt anew; plan, report and texts  *)
(* are compared by hash with the rows already there.  The activity runs in *)
(* a thread and does not heartbeat: an attempt that timed out goes on      *)
(* beside its successor.                                                   *)
(***************************************************************************)
EXTENDS Naturals, Sequences, FiniteSets

CONSTANTS
  MaxAttempts,   (* maximum_attempts of AGENT_GRAPH_RETRY_POLICY             *)
  Sources,       (* evidence types                                           *)
  Calls,         (* tool calls and model calls                               *)
  Contents,      (* hashes of plans, reports and texts                       *)
  NoContent,     (* the hash of a row that did not come from the graph       *)
  Outputs,       (* what the final state of the agent graph may hold         *)
  ListLimit,     (* rows that are read before one is inserted                *)
  MaxOutside     (* bound: time-outs, and rows posted to the API             *)

Attempts == 1 .. MaxAttempts
Api == 0
Kinds == {"plan", "report", "text"}
Items == Contents \cup {NoContent}

OutputShape ==
  [evidence : Seq(Sources), toolCalls : Seq(Calls), modelCalls : Seq(Calls),
   hypotheses : Seq(SUBSET Sources), items : [Kinds -> Seq(Contents)], vectors : BOOLEAN]

EmptyOutput ==
  [evidence |-> <<>>, toolCalls |-> <<>>, modelCalls |-> <<>>, hypotheses |-> <<>>,
   items |-> [k \in Kinds |-> <<>>], vectors |-> FALSE]

ASSUME AttemptsAssumption == MaxAttempts \in Nat \ {0}
ASSUME ContentsAssumption == NoContent \notin Contents
ASSUME OutputsAssumption ==
  /\ Outputs \subseteq OutputShape
  /\ \A o \in Outputs :
       /\ \A m, n \in DOMAIN o.evidence : o.evidence[m] = o.evidence[n] => m = n
       /\ Len(o.items.plan) <= 1 /\ Len(o.items.report) <= 1
ASSUME BoundsAssumption == ListLimit \in [Kinds -> Nat \ {0}] /\ MaxOutside \in Nat

VARIABLES
  current,      (* the attempt Temporal waits for, 0 before the first        *)
  late,         (* attempts that timed out                                   *)
  at,           (* where each attempt is                                     *)
  kind,         (* the kind of row it is at, of those that are compared      *)
  pos,          (* items of the current list it has stored                   *)
  out,          (* final state of its graph                                  *)
  ids,          (* evidence_ids_by_type: positions in evidence, 0 for none   *)
  known,        (* existing_keys, and the hashes found when listing          *)
  evidence,     (* evidence_items                                            *)
  calls,        (* tool_calls and model_calls                                *)
  hypotheses,   (* rca_hypotheses                                            *)
  rows,         (* remediation_plans, documentation_reports,                 *)
                (* incident_embeddings                                       *)
  told,         (* "... persisted" events of the incident                    *)
  posted        (* history: rows posted to the API                           *)

locals == <<at, kind, pos, out, ids, known>>
database == <<evidence, calls, hypotheses, rows, told>>
vars == <<current, late, locals, database, posted>>

-----------------------------------------------------------------------------
Points == {"idle", "graph", "evidence", "tools", "models", "hypotheses",
           "tellEvidence", "tellHypotheses", "list", "add", "done", "dead"}
Over == {"done", "dead"}
Outside == Cardinality(late) + posted
Running(a) == at[a] \notin {"idle"} \cup Over

Init ==
  /\ current = 0
  /\ late = {}
  /\ at = [a \in Attempts |-> "idle"]
  /\ kind = [a \in Attempts |-> "plan"]
  /\ pos = [a \in Attempts |-> 1]
  /\ out = [a \in Attempts |-> EmptyOutput]
  /\ ids = [a \in Attempts |-> [src \in Sources |-> 0]]
  /\ known = [a \in Attempts |-> {}]
  /\ evidence = <<>>
  /\ calls = <<>>
  /\ hypotheses = <<>>
  /\ rows = [k \in Kinds |-> <<>>]
  /\ told = {}
  /\ posted = 0

-----------------------------------------------------------------------------
(* Temporal: an attempt starts when the one before it ended without a      *)
(* result or timed out.                                                    *)
Launch(a) ==
  /\ a = current + 1
  /\ current \in late \cup {0} \cup {b \in Attempts : at[b] = "dead"}
  /\ current' = a
  /\ at' = [at EXCEPT ![a] = "graph"]
  /\ UNCHANGED <<late, kind, pos, out, ids, known, database, posted>>

TimeOut ==
  /\ current # 0
  /\ Running(current)
  /\ Outside < MaxOutside
  /\ late' = late \cup {current}
  /\ UNCHANGED <<current, locals, database, posted>>

(* An exception or the death of the worker: the rows so far stay, what the *)
(* attempt knew is gone.                                                   *)
Fail(a) ==
  /\ Running(a)
  /\ at' = [at EXCEPT ![a] = "dead"]
  /\ kind' = [kind EXCEPT ![a] = "plan"]
  /\ pos' = [pos EXCEPT ![a] = 1]
  /\ out' = [out EXCEPT ![a] = EmptyOutput]
  /\ ids' = [ids EXCEPT ![a] = [src \in Sources |-> 0]]
  /\ known' = [known EXCEPT ![a] = {}]
  /\ UNCHANGED <<current, late, database, posted>>

Goto(a, point) ==
  /\ at' = [at EXCEPT ![a] = point]
  /\ pos' = [pos EXCEPT ![a] = 1]

Stay(a) ==
  /\ pos' = [pos EXCEPT ![a] = @ + 1]
  /\ UNCHANGED at

Graph(a) ==
  /\ at[a] = "graph"
  /\ Goto(a, "evidence")
  /\ \E o \in Outputs : out' = [out EXCEPT ![a] = o]
  /\ UNCHANGED <<current, late, kind, ids, known, database, posted>>

(* One step of a loop over a list of the output: store(item), or leave.    *)
Loop(a, point, list, next) ==
  /\ at[a] = point
  /\ IF pos[a] <= Len(list) THEN Stay(a) ELSE Goto(a, next)

(* Mutant: the id is looked up by type after the commit.                   *)
StoreEvidenceByType(a) ==
  LET list == out[a].evidence IN
  /\ Loop(a, "evidence", list, "tools")
  /\ IF pos[a] <= Len(list)
     THEN /\ evidence' = Append(evidence, [type |-> list[pos[a]], by |-> a])
          /\ ids' = [ids EXCEPT ![a][list[pos[a]]] =
               CHOOSE n \in DOMAIN evidence' :
                 /\ evidence'[n].type = list[pos[a]]
                 /\ \A m \in 1 .. n - 1 : evidence'[m].type # list[pos[a]]]
     ELSE UNCHANGED <<evidence, ids>>
  /\ UNCHANGED <<current, late, kind, out, known, calls, hypotheses, rows, told, posted>>

StoreEvidence(a) ==
  LET list == out[a].evidence IN
  /\ Loop(a, "evidence", list, "tools")
  /\ IF pos[a] <= Len(list)
     THEN /\ evidence' = Append(evidence, [type |-> list[pos[a]], by |-> a])
          /\ ids' = [ids EXCEPT ![a][list[pos[a]]] = Len(evidence) + 1]
     ELSE UNCHANGED <<evidence, ids>>
  /\ UNCHANGED <<current, late, kind, out, known, calls, hypotheses, rows, told, posted>>

(* _unique_tool_calls: the bundle's calls come a second time in the state. *)
Repeated(list, n) == \E m \in 1 .. n - 1 : list[m] = list[n]

LogToolCall(a) ==
  LET list == out[a].toolCalls \o out[a].toolCalls IN
  /\ Loop(a, "tools", list, "models")
  /\ calls' = IF pos[a] <= Len(list) /\ ~Repeated(list, pos[a])
              THEN Append(calls, [call |-> list[pos[a]], by |-> a])
              ELSE calls
  /\ UNCHANGED <<current, late, kind, out, ids, known, evidence, hypotheses, rows, told, posted>>

LogModelCall(a) ==
  LET list == out[a].modelCalls IN
  /\ Loop(a, "models", list, "hypotheses")
  /\ calls' = IF pos[a] <= Len(list)
              THEN Append(calls, [call |-> list[pos[a]], by |-> a])
              ELSE calls
  /\ UNCHANGED <<current, late, kind, out, ids, known, evidence, hypotheses, rows, told, posted>>

(* Mutant: a type without a stored row yields an empty id.                 *)
SupportingUnchecked(a, refs) == {ids[a][src] : src \in refs}

(* The evidence a hypothesis refers to, as far as this attempt stored it.  *)
Supporting(a, refs) == {ids[a][src] : src \in {r \in refs : ids[a][r] # 0}}

StoreHypothesis(a) ==
  LET list == out[a].hypotheses IN
  /\ Loop(a, "hypotheses", list, "tellEvidence")
  /\ hypotheses' = IF pos[a] <= Len(list)
                   THEN Append(hypotheses, [refs |-> list[pos[a]], by |-> a,
                                            ids |-> Supporting(a, list[pos[a]])])
                   ELSE hypotheses
  /\ UNCHANGED <<current, late, kind, out, ids, known, evidence, calls, rows, told, posted>>

TellEvidence(a) ==
  /\ at[a] = "tellEvidence"
  /\ Goto(a, "tellHypotheses")
  /\ told' = IF out[a].evidence # <<>> THEN told \cup {<<"evidence", a>>} ELSE told
  /\ UNCHANGED <<current, late, kind, out, ids, known, evidence, calls, hypotheses, rows, posted>>

TellHypotheses(a) ==
  /\ at[a] = "tellHypotheses"
  /\ Goto(a, "list")
  /\ told' = IF out[a].hypotheses # <<>> THEN told \cup {<<"hypotheses", a>>} ELSE told
  /\ UNCHANGED <<current, late, kind, out, ids, known, evidence, calls, hypotheses, rows, posted>>

-----------------------------------------------------------------------------
(* Plan, report and texts: list what is there, add what is not, tell.      *)

Wanted(a) == out[a].items[kind[a]]

NextKind(a) ==
  /\ pos' = [pos EXCEPT ![a] = 1]
  /\ IF kind[a] = "text"
     THEN at' = [at EXCEPT ![a] = "done"] /\ UNCHANGED kind
     ELSE /\ at' = [at EXCEPT ![a] = "list"]
          /\ kind' = [kind EXCEPT ![a] = IF kind[a] = "plan" THEN "report" ELSE "text"]

(* Mutant: the oldest rows are listed.                                     *)
ListedOldest(k) == {rows[k][n].content : n \in {m \in DOMAIN rows[k] : m <= ListLimit[k]}}

(* Mutant: any row of the graph counts as the same.                        *)
ListedAny(k) == IF \E n \in DOMAIN rows[k] : rows[k][n].by # Api THEN Contents ELSE {}

(* The newest rows, up to the limit of the query.                          *)
Listed(k) ==
  {rows[k][n].content : n \in {m \in DOMAIN rows[k] : m + ListLimit[k] > Len(rows[k])}}

ListRows(a) ==
  /\ at[a] = "list"
  /\ IF Wanted(a) = <<>>
     THEN NextKind(a) /\ UNCHANGED known
     ELSE /\ Goto(a, "add")
          /\ known' = [known EXCEPT ![a] = Listed(kind[a])]
          /\ UNCHANGED kind
  /\ UNCHANGED <<current, late, out, ids, database, posted>>

(* Mutant: the first known text ends the loop.                             *)
SkipRowEnds(a) ==
  /\ at[a] = "add"
  /\ pos[a] <= Len(Wanted(a))
  /\ Wanted(a)[pos[a]] \in known[a]
  /\ NextKind(a)
  /\ UNCHANGED <<current, late, out, ids, known, database, posted>>

(* A known text is passed over; a known plan or report ends its function.  *)
SkipRow(a) ==
  /\ at[a] = "add"
  /\ pos[a] <= Len(Wanted(a))
  /\ Wanted(a)[pos[a]] \in known[a]
  /\ IF kind[a] = "text" THEN Stay(a) /\ UNCHANGED kind ELSE NextKind(a)
  /\ UNCHANGED <<current, late, out, ids, known, database, posted>>

AddRow(a) ==
  LET item == Wanted(a)[pos[a]] IN
  /\ at[a] = "add"
  /\ pos[a] <= Len(Wanted(a))
  /\ item \notin known[a]
  /\ rows' = [rows EXCEPT ![kind[a]] =
       Append(@, [content |-> item, by |-> a,
                  vector |-> kind[a] = "text" /\ out[a].vectors])]
  /\ known' = [known EXCEPT ![a] = @ \cup {item}]
  /\ Stay(a)
  /\ UNCHANGED <<current, late, kind, out, ids, evidence, calls, hypotheses, told, posted>>

TellRows(a) ==
  /\ at[a] = "add"
  /\ pos[a] > Len(Wanted(a))
  /\ NextKind(a)
  /\ told' = told \cup {<<kind[a], a>>}
  /\ UNCHANGED <<current, late, out, ids, known, evidence, calls, hypotheses, rows, posted>>

-----------------------------------------------------------------------------
(* The REST API stores evidence and plans of its own.                      *)

ApiEvidence(src) ==
  /\ Outside < MaxOutside
  /\ posted' = posted + 1
  /\ evidence' = Append(evidence, [type |-> src, by |-> Api])
  /\ UNCHANGED <<current, late, locals, calls, hypotheses, rows, told>>

ApiPlan ==
  /\ Outside < MaxOutside
  /\ posted' = posted + 1
  /\ rows' = [rows EXCEPT !["plan"] =
       Append(@, [content |-> NoContent, by |-> Api, vector |-> FALSE])]
  /\ UNCHANGED <<current, late, locals, evidence, calls, hypotheses, told>>

-----------------------------------------------------------------------------
Work(a) ==
  \/ Graph(a) \/ StoreEvidence(a) \/ LogToolCall(a) \/ LogModelCall(a)
  \/ StoreHypothesis(a) \/ TellEvidence(a) \/ TellHypotheses(a)
  \/ ListRows(a) \/ SkipRow(a) \/ AddRow(a) \/ TellRows(a)

Next ==
  \/ \E a \in Attempts : Launch(a) \/ Work(a) \/ Fail(a)
  \/ TimeOut
  \/ \E src \in Sources : ApiEvidence(src)
  \/ ApiPlan

Spec == Init /\ [][Next]_vars

-----------------------------------------------------------------------------
EvidenceRows == [type : Sources, by : Attempts \cup {Api}]
CallRows == [call : Calls, by : Attempts]
HypothesisRows == [refs : SUBSET Sources, by : Attempts, ids : SUBSET (Nat \ {0})]
ItemRows == [content : Items, by : Attempts \cup {Api}, vector : BOOLEAN]

(* The type invariant: each attempt's place and output, and the rows.      *)
TypeOK ==
  /\ current \in Attempts \cup {0}
  /\ late \subseteq Attempts
  /\ at \in [Attempts -> Points]
  /\ kind \in [Attempts -> Kinds]
  /\ pos \in [Attempts -> Nat \ {0}]
  /\ out \in [Attempts -> Outputs \cup {EmptyOutput}]
  /\ ids \in [Attempts -> [Sources -> Nat]]
  /\ known \in [Attempts -> SUBSET Items]
  /\ evidence \in Seq(EvidenceRows)
  /\ calls \in Seq(CallRows)
  /\ hypotheses \in Seq(HypothesisRows)
  /\ rows \in [Kinds -> Seq(ItemRows)]
  /\ told \subseteq ({"evidence", "hypotheses"} \cup Kinds) \X Attempts
  /\ posted \in Nat

(* Retries do not store a plan, report or text again: two rows with the    *)
(* same hash come from attempts of which one had timed out, or have so     *)
(* many rows between them that the query did not reach the older one.      *)
DuplicatesNeedOverlap ==
  \A k \in Kinds : \A n \in DOMAIN rows[k] : \A m \in 1 .. n - 1 :
    rows[k][m].content = rows[k][n].content /\ rows[k][n].by # Api =>
      \/ {rows[k][m].by, rows[k][n].by} \cap late # {}
      \/ n - m > ListLimit[k]

(* A hypothesis names exactly the rows that its own attempt stored for the *)
(* types it refers to, never those of another attempt or of the API.       *)
HypothesesBacked ==
  \A h \in DOMAIN hypotheses :
    hypotheses[h].ids = {n \in DOMAIN evidence :
      evidence[n].by = hypotheses[h].by /\ evidence[n].type \in hypotheses[h].refs}

(* When an attempt returns, all of its output is in the database, whatever *)
(* it skipped because of other attempts' rows, and each of its tool calls  *)
(* is there once.                                                          *)
CompletedIsStored ==
  \A a \in Attempts : at[a] = "done" =>
    /\ \A k \in Kinds : \A i \in DOMAIN out[a].items[k] :
         \E n \in DOMAIN rows[k] : rows[k][n].content = out[a].items[k][i]
    /\ \A i \in DOMAIN out[a].evidence :
         \E n \in DOMAIN evidence : evidence[n] = [type |-> out[a].evidence[i], by |-> a]
    /\ \A i \in DOMAIN out[a].toolCalls :
         Cardinality({n \in DOMAIN calls :
           calls[n] = [call |-> out[a].toolCalls[i], by |-> a]}) = 1

(* incident_create_remediation_pr takes the newest plan.  Unless attempts  *)
(* overlapped or the API added plans, it is the plan of the attempt that   *)
(* completed; or this attempt came back to the plan of one attempt after   *)
(* another had stored a different one.                                     *)
NewestPlanIsOwn ==
  LET plans == rows["plan"]
      own == out[current].items["plan"]
  IN current # 0 /\ at[current] = "done" /\ late = {} /\ posted = 0 /\ own # <<>> =>
       \/ plans[Len(plans)].content = own[1]
       \/ \E m \in 1 .. Len(plans) - 1 :
            plans[m].content = own[1] /\ plans[m].by < plans[Len(plans)].by

-----------------------------------------------------------------------------
(* Why they hold, as inductive invariants.                                 *)

(* Only the last attempt may run without having timed out.                 *)
LifeInv ==
  \A a \in Attempts :
    /\ a > current => at[a] = "idle"
    /\ a < current => a \in late \/ at[a] = "dead"

(* What an attempt about to add rows does not know was added beside it, or *)
(* is out of the query's reach.                                            *)
KnownInv ==
  \A a \in Attempts : at[a] = "add" =>
    \A m \in DOMAIN rows[kind[a]] :
      \/ rows[kind[a]][m].content \in known[a] \cup {NoContent}
      \/ {a, rows[kind[a]][m].by} \cap late # {}
      \/ m + ListLimit[kind[a]] <= Len(rows[kind[a]])

(* evidence_ids_by_type lists the rows of the attempt, one for each type.  *)
Accounted(a) ==
  /\ at[a] # "dead" =>
       /\ \A n \in DOMAIN evidence :
            evidence[n].by = a => ids[a][evidence[n].type] = n
       /\ \A src \in Sources : ids[a][src] # 0 =>
            /\ ids[a][src] \in DOMAIN evidence
            /\ evidence[ids[a][src]] = [type |-> src, by |-> a]
  /\ at[a] \in {"idle", "graph"} => pos[a] = 1 /\ \A src \in Sources : ids[a][src] = 0
  /\ at[a] = "evidence" =>
       \A p \in DOMAIN out[a].evidence : p >= pos[a] => ids[a][out[a].evidence[p]] = 0
  /\ at[a] \in {"idle", "graph", "evidence", "tools", "models"} =>
       \A h \in DOMAIN hypotheses : hypotheses[h].by # a

EvidenceInv == \A a \in Attempts : Accounted(a)

IInv ==
  /\ TypeOK /\ LifeInv /\ KnownInv /\ EvidenceInv
  /\ DuplicatesNeedOverlap /\ HypothesesBacked

=============================================================================
