------------------------- MODULE RcaPersistenceProofs -------------------------
(***************************************************************************)
(* What holds of the rows stored by agent_graph_run for any number of      *)
(* attempts, any outputs of the graph and any limits of the queries.       *)
(***************************************************************************)
EXTENDS RcaPersistence, TLAPS

USE AttemptsAssumption DEF Attempts

-----------------------------------------------------------------------------
(* Sequences and outputs.                                                  *)

LEMMA Appended ==
  ASSUME NEW S, NEW s \in Seq(S), NEW x \in S
  PROVE  /\ Append(s, x) \in Seq(S)
         /\ Len(Append(s, x)) = Len(s) + 1
         /\ DOMAIN s = 1 .. Len(s)
         /\ DOMAIN Append(s, x) = 1 .. Len(s) + 1
         /\ \A n \in DOMAIN s : Append(s, x)[n] = s[n]
         /\ Append(s, x)[Len(s) + 1] = x
  OBVIOUS

LEMMA Element ==
  ASSUME NEW S, NEW s \in Seq(S), NEW n \in Nat \ {0}, n <= Len(s)
  PROVE  n \in DOMAIN s /\ s[n] \in S
  OBVIOUS

LEMMA Overridden ==
  ASSUME NEW S, NEW T, NEW f \in [S -> T], NEW x, NEW y \in T
  PROVE  [f EXCEPT ![x] = y] \in [S -> T]
  OBVIOUS

LEMMA EmptyShape == EmptyOutput \in OutputShape
<1>1. /\ <<>> \in Seq(Sources) /\ <<>> \in Seq(Calls)
      /\ <<>> \in Seq(SUBSET Sources) /\ <<>> \in Seq(Contents)
  OBVIOUS
<1> QED
  BY <1>1 DEF EmptyOutput, OutputShape

LEMMA OutputTypes ==
  ASSUME NEW o \in Outputs \cup {EmptyOutput}
  PROVE  /\ o.evidence \in Seq(Sources)
         /\ o.toolCalls \in Seq(Calls)
         /\ o.toolCalls \o o.toolCalls \in Seq(Calls)
         /\ o.modelCalls \in Seq(Calls)
         /\ o.hypotheses \in Seq(SUBSET Sources)
         /\ \A k \in Kinds : o.items[k] \in Seq(Contents)
         /\ o.vectors \in BOOLEAN
         /\ \A m, n \in DOMAIN o.evidence : o.evidence[m] = o.evidence[n] => m = n
<1>1. o \in OutputShape
  BY EmptyShape, OutputsAssumption
<1>2. \A m, n \in DOMAIN o.evidence : o.evidence[m] = o.evidence[n] => m = n
  BY OutputsAssumption DEF EmptyOutput
<1> QED
  BY <1>1, <1>2 DEF OutputShape

-----------------------------------------------------------------------------
(* The pieces the actions are made of keep the types.                      *)

LEMMA GotoTypes ==
  ASSUME TypeOK, NEW a \in Attempts, NEW point \in Points, Goto(a, point)
  PROVE  at' \in [Attempts -> Points] /\ pos' \in [Attempts -> Nat \ {0}]
  BY DEF TypeOK, Goto

LEMMA StayTypes ==
  ASSUME TypeOK, NEW a \in Attempts, Stay(a)
  PROVE  at' \in [Attempts -> Points] /\ pos' \in [Attempts -> Nat \ {0}]
<1>1. pos[a] + 1 \in Nat \ {0}
  BY DEF TypeOK
<1> QED
  BY <1>1 DEF TypeOK, Stay

LEMMA LoopTypes ==
  ASSUME TypeOK, NEW a \in Attempts, NEW point, NEW list, NEW next \in Points,
         Loop(a, point, list, next)
  PROVE  at' \in [Attempts -> Points] /\ pos' \in [Attempts -> Nat \ {0}]
  BY GotoTypes, StayTypes DEF Loop

LEMMA NextKindTypes ==
  ASSUME TypeOK, NEW a \in Attempts, NextKind(a)
  PROVE  /\ at' \in [Attempts -> Points]
         /\ pos' \in [Attempts -> Nat \ {0}]
         /\ kind' \in [Attempts -> Kinds]
<1>1. pos' \in [Attempts -> Nat \ {0}]
  BY DEF TypeOK, NextKind
<1>2. at' \in [Attempts -> Points] /\ kind' \in [Attempts -> Kinds]
  BY DEF TypeOK, NextKind, Points, Kinds
<1> QED
  BY <1>1, <1>2

LEMMA Current ==
  ASSUME TypeOK, NEW a \in Attempts
  PROVE  /\ out[a] \in Outputs \cup {EmptyOutput}
         /\ kind[a] \in Kinds
         /\ pos[a] \in Nat \ {0}
         /\ Wanted(a) \in Seq(Contents)
  BY OutputTypes DEF TypeOK, Wanted

LEMMA ListedTypes ==
  ASSUME TypeOK, NEW k \in Kinds
  PROVE  Listed(k) \in SUBSET Items
<1>1. rows[k] \in Seq(ItemRows)
  BY DEF TypeOK
<1>2. \A n \in DOMAIN rows[k] : rows[k][n] \in ItemRows
  BY <1>1
<1>3. \A n \in DOMAIN rows[k] : rows[k][n].content \in Items
  BY <1>2 DEF ItemRows
<1> QED
  BY <1>3 DEF Listed

-----------------------------------------------------------------------------
(* Type correctness.                                                       *)

LEMMA InitTypes == Init => TypeOK
<1> SUFFICES ASSUME Init PROVE TypeOK
  OBVIOUS
<1>1. /\ <<>> \in Seq(EvidenceRows) /\ <<>> \in Seq(CallRows)
      /\ <<>> \in Seq(HypothesisRows) /\ <<>> \in Seq(ItemRows)
  OBVIOUS
<1> QED
  BY <1>1 DEF Init, TypeOK, Points, Kinds

LEMMA LifeTypes ==
  ASSUME TypeOK, NEW a \in Attempts, Launch(a) \/ TimeOut \/ Fail(a)
  PROVE  TypeOK'
<1>1. CASE Launch(a)
  BY <1>1 DEF TypeOK, Launch, Points, database
<1>2. CASE TimeOut
  BY <1>2 DEF TypeOK, TimeOut, locals, database
<1>3. CASE Fail(a)
  <2>1. /\ at' \in [Attempts -> Points] /\ kind' \in [Attempts -> Kinds]
        /\ pos' \in [Attempts -> Nat \ {0}]
    BY <1>3 DEF TypeOK, Fail, Points, Kinds
  <2>2. /\ out' \in [Attempts -> Outputs \cup {EmptyOutput}]
        /\ ids' \in [Attempts -> [Sources -> Nat]]
        /\ known' \in [Attempts -> SUBSET Items]
    BY <1>3 DEF TypeOK, Fail
  <2> QED
    BY <1>3, <2>1, <2>2 DEF TypeOK, Fail, database
<1> QED
  BY <1>1, <1>2, <1>3

LEMMA GraphTypes ==
  ASSUME TypeOK, NEW a \in Attempts, Graph(a)
  PROVE  TypeOK'
<1>1. "evidence" \in Points
  BY DEF Points
<1>2. at' \in [Attempts -> Points] /\ pos' \in [Attempts -> Nat \ {0}]
  BY <1>1, GotoTypes DEF Graph
<1>3. out' \in [Attempts -> Outputs \cup {EmptyOutput}]
  BY DEF Graph, TypeOK
<1> QED
  BY <1>2, <1>3 DEF TypeOK, Graph, database

LEMMA StoreEvidenceTypes ==
  ASSUME TypeOK, NEW a \in Attempts, StoreEvidence(a)
  PROVE  TypeOK'
<1> DEFINE list == out[a].evidence
<1>1. at' \in [Attempts -> Points] /\ pos' \in [Attempts -> Nat \ {0}]
  <2>1. "tools" \in Points
    BY DEF Points
  <2> QED
    BY <2>1, LoopTypes DEF StoreEvidence
<1>2. evidence' \in Seq(EvidenceRows) /\ ids' \in [Attempts -> [Sources -> Nat]]
  <2>1. CASE pos[a] <= Len(list)
    <3>1. list[pos[a]] \in Sources
      BY <2>1, Current, OutputTypes, Element
    <3>2. [type |-> list[pos[a]], by |-> a] \in EvidenceRows
      BY <3>1 DEF EvidenceRows
    <3>3. evidence \in Seq(EvidenceRows) /\ ids \in [Attempts -> [Sources -> Nat]]
      BY DEF TypeOK
    <3>4. /\ evidence' = Append(evidence, [type |-> list[pos[a]], by |-> a])
          /\ ids' = [ids EXCEPT ![a] = [@ EXCEPT ![list[pos[a]]] = Len(evidence) + 1]]
      BY <2>1 DEF StoreEvidence
    <3>5. [ids[a] EXCEPT ![list[pos[a]]] = Len(evidence) + 1] \in [Sources -> Nat]
      <4>1. ids[a] \in [Sources -> Nat] /\ Len(evidence) + 1 \in Nat
        BY <3>3
      <4> QED
        BY <4>1, Overridden
    <3> QED
      BY <3>2, <3>3, <3>4, <3>5, Appended
  <2>2. CASE ~ (pos[a] <= Len(list))
    BY <2>2 DEF StoreEvidence, TypeOK
  <2> QED
    BY <2>1, <2>2
<1> QED
  BY <1>1, <1>2 DEF TypeOK, StoreEvidence

LEMMA LogTypes ==
  ASSUME TypeOK, NEW a \in Attempts, LogToolCall(a) \/ LogModelCall(a)
  PROVE  TypeOK'
<1> DEFINE tools == out[a].toolCalls \o out[a].toolCalls
           models == out[a].modelCalls
<1>1. tools \in Seq(Calls) /\ models \in Seq(Calls) /\ pos[a] \in Nat \ {0}
  BY Current, OutputTypes
<1>2. at' \in [Attempts -> Points] /\ pos' \in [Attempts -> Nat \ {0}]
  <2>1. {"models", "hypotheses"} \subseteq Points
    BY DEF Points
  <2> QED
    BY <2>1, LoopTypes DEF LogToolCall, LogModelCall
<1>3. calls' \in Seq(CallRows)
  <2>1. \A list \in Seq(Calls) : pos[a] <= Len(list) =>
          Append(calls, [call |-> list[pos[a]], by |-> a]) \in Seq(CallRows)
    <3> SUFFICES ASSUME NEW list \in Seq(Calls), pos[a] <= Len(list)
                 PROVE  Append(calls, [call |-> list[pos[a]], by |-> a]) \in Seq(CallRows)
      OBVIOUS
    <3>1. list[pos[a]] \in Calls
      BY <1>1, Element
    <3>2. [call |-> list[pos[a]], by |-> a] \in CallRows
      BY <3>1 DEF CallRows
    <3> QED
      BY <3>2, Appended DEF TypeOK
  <2>2. CASE LogToolCall(a)
    BY <1>1, <2>1, <2>2 DEF LogToolCall, TypeOK
  <2>3. CASE LogModelCall(a)
    BY <1>1, <2>1, <2>3 DEF LogModelCall, TypeOK
  <2> QED
    BY <2>2, <2>3
<1> QED
  BY <1>2, <1>3 DEF TypeOK, LogToolCall, LogModelCall

LEMMA StoreHypothesisTypes ==
  ASSUME TypeOK, NEW a \in Attempts, StoreHypothesis(a)
  PROVE  TypeOK'
<1> DEFINE list == out[a].hypotheses
<1>1. list \in Seq(SUBSET Sources) /\ pos[a] \in Nat \ {0}
  BY Current, OutputTypes
<1>2. at' \in [Attempts -> Points] /\ pos' \in [Attempts -> Nat \ {0}]
  <2>1. "tellEvidence" \in Points
    BY DEF Points
  <2> QED
    BY <2>1, LoopTypes DEF StoreHypothesis
<1>3. hypotheses' \in Seq(HypothesisRows)
  <2>1. CASE pos[a] <= Len(list)
    <3> DEFINE row == [refs |-> list[pos[a]], by |-> a, ids |-> Supporting(a, list[pos[a]])]
    <3>1. list[pos[a]] \in SUBSET Sources
      BY <1>1, <2>1, Element
    <3>2. ids[a] \in [Sources -> Nat]
      BY DEF TypeOK
    <3>3. Supporting(a, list[pos[a]]) \in SUBSET (Nat \ {0})
      BY <3>1, <3>2 DEF Supporting
    <3>4. row \in HypothesisRows
      BY <3>1, <3>3 DEF HypothesisRows
    <3>5. hypotheses' = Append(hypotheses, row)
      BY <2>1 DEF StoreHypothesis
    <3> QED
      BY <3>4, <3>5, Appended DEF TypeOK
  <2>2. CASE ~ (pos[a] <= Len(list))
    BY <2>2 DEF StoreHypothesis, TypeOK
  <2> QED
    BY <2>1, <2>2
<1> QED
  BY <1>2, <1>3 DEF TypeOK, StoreHypothesis

LEMMA TellTypes ==
  ASSUME TypeOK, NEW a \in Attempts, TellEvidence(a) \/ TellHypotheses(a)
  PROVE  TypeOK'
<1>1. {"tellHypotheses", "list"} \subseteq Points
  BY DEF Points
<1>2. at' \in [Attempts -> Points] /\ pos' \in [Attempts -> Nat \ {0}]
  BY <1>1, GotoTypes DEF TellEvidence, TellHypotheses
<1>3. told' \subseteq ({"evidence", "hypotheses"} \cup Kinds) \X Attempts
  BY DEF TellEvidence, TellHypotheses, TypeOK
<1> QED
  BY <1>2, <1>3 DEF TypeOK, TellEvidence, TellHypotheses

LEMMA ListRowsTypes ==
  ASSUME TypeOK, NEW a \in Attempts, ListRows(a)
  PROVE  TypeOK'
<1>1. CASE Wanted(a) = <<>>
  BY <1>1, NextKindTypes DEF TypeOK, ListRows, database
<1>2. CASE Wanted(a) # <<>>
  <2>1. "add" \in Points
    BY DEF Points
  <2>2. at' \in [Attempts -> Points] /\ pos' \in [Attempts -> Nat \ {0}]
    BY <1>2, <2>1, GotoTypes DEF ListRows
  <2>3. known' \in [Attempts -> SUBSET Items]
    <3>1. Listed(kind[a]) \in SUBSET Items
      BY Current, ListedTypes
    <3>2. known' = [known EXCEPT ![a] = Listed(kind[a])]
      BY <1>2 DEF ListRows
    <3>3. known \in [Attempts -> SUBSET Items]
      BY DEF TypeOK
    <3> QED
      BY <3>1, <3>2, <3>3
  <2> QED
    BY <1>2, <2>2, <2>3 DEF TypeOK, ListRows, database
<1> QED
  BY <1>1, <1>2

LEMMA SkipRowTypes ==
  ASSUME TypeOK, NEW a \in Attempts, SkipRow(a)
  PROVE  TypeOK'
<1>1. CASE kind[a] = "text"
  BY <1>1, StayTypes DEF TypeOK, SkipRow, database
<1>2. CASE kind[a] # "text"
  BY <1>2, NextKindTypes DEF TypeOK, SkipRow, database
<1> QED
  BY <1>1, <1>2

(* AddRow appends one row of the attempt's kind.                           *)
LEMMA AddedRow ==
  ASSUME TypeOK, NEW a \in Attempts, AddRow(a)
  PROVE  \E row \in ItemRows :
           /\ row.by = a
           /\ row.content \in Contents
           /\ row.content \notin known[a]
           /\ known' = [known EXCEPT ![a] = @ \cup {row.content}]
           /\ rows' = [rows EXCEPT ![kind[a]] = Append(@, row)]
<1> DEFINE item == Wanted(a)[pos[a]]
           row == [content |-> item, by |-> a, vector |-> kind[a] = "text" /\ out[a].vectors]
<1>1. item \in Contents
  BY Current, Element DEF AddRow
<1>2. (kind[a] = "text" /\ out[a].vectors) \in BOOLEAN
  OBVIOUS
<1>3. row \in ItemRows
  BY <1>1, <1>2 DEF ItemRows, Items
<1>4. /\ item \notin known[a]
      /\ known' = [known EXCEPT ![a] = @ \cup {item}]
      /\ rows' = [rows EXCEPT ![kind[a]] = Append(@, row)]
  BY DEF AddRow
<1> QED
  BY <1>1, <1>3, <1>4

LEMMA AddRowTypes ==
  ASSUME TypeOK, NEW a \in Attempts, AddRow(a)
  PROVE  TypeOK'
<1>1. PICK row \in ItemRows :
        /\ row.content \in Contents
        /\ known' = [known EXCEPT ![a] = @ \cup {row.content}]
        /\ rows' = [rows EXCEPT ![kind[a]] = Append(@, row)]
  BY AddedRow
<1>2. known[a] \cup {row.content} \in SUBSET Items
  BY <1>1 DEF TypeOK, Items
<1>3. known' \in [Attempts -> SUBSET Items]
  BY <1>1, <1>2 DEF TypeOK
<1>4. rows' \in [Kinds -> Seq(ItemRows)]
  BY <1>1, Current, Appended DEF TypeOK
<1>5. at' \in [Attempts -> Points] /\ pos' \in [Attempts -> Nat \ {0}]
  BY StayTypes DEF AddRow
<1> QED
  BY <1>3, <1>4, <1>5 DEF TypeOK, AddRow

LEMMA TellRowsTypes ==
  ASSUME TypeOK, NEW a \in Attempts, TellRows(a)
  PROVE  TypeOK'
<1>1. told' \subseteq ({"evidence", "hypotheses"} \cup Kinds) \X Attempts
  BY Current DEF TellRows, TypeOK
<1> QED
  BY <1>1, NextKindTypes DEF TypeOK, TellRows

LEMMA ApiTypes ==
  ASSUME TypeOK, (\E src \in Sources : ApiEvidence(src)) \/ ApiPlan
  PROVE  TypeOK'
<1>1. ASSUME NEW src \in Sources, ApiEvidence(src) PROVE TypeOK'
  <2>1. [type |-> src, by |-> Api] \in EvidenceRows
    BY DEF EvidenceRows
  <2>2. evidence' \in Seq(EvidenceRows)
    BY <1>1, <2>1, Appended DEF ApiEvidence, TypeOK
  <2> QED
    BY <1>1, <2>2 DEF TypeOK, ApiEvidence, locals
<1>2. CASE ApiPlan
  <2> DEFINE row == [content |-> NoContent, by |-> Api, vector |-> FALSE]
  <2>1. row \in ItemRows
    BY DEF ItemRows, Items
  <2>2. rows["plan"] \in Seq(ItemRows)
    BY DEF TypeOK, Kinds
  <2>3. rows' = [rows EXCEPT !["plan"] = Append(rows["plan"], row)]
    BY <1>2 DEF ApiPlan
  <2>4. rows' \in [Kinds -> Seq(ItemRows)]
    BY <2>1, <2>2, <2>3, Appended DEF TypeOK
  <2> QED
    BY <1>2, <2>4 DEF TypeOK, ApiPlan, locals
<1> QED
  BY <1>1, <1>2

LEMMA StepTypes ==
  ASSUME TypeOK, [Next]_vars
  PROVE  TypeOK'
<1>1. CASE UNCHANGED vars
  BY <1>1 DEF TypeOK, vars, locals, database
<1>2. ASSUME NEW a \in Attempts, Work(a) PROVE TypeOK'
  BY <1>2, GraphTypes, StoreEvidenceTypes, LogTypes, StoreHypothesisTypes, TellTypes,
     ListRowsTypes, SkipRowTypes, AddRowTypes, TellRowsTypes DEF Work
<1>3. ASSUME NEW a \in Attempts, Launch(a) \/ Fail(a) PROVE TypeOK'
  BY <1>3, LifeTypes
<1>4. CASE TimeOut
  <2>1. 1 \in Attempts
    OBVIOUS
  <2> QED
    BY <1>4, <2>1, LifeTypes
<1> QED
  BY <1>1, <1>2, <1>3, <1>4, ApiTypes DEF Next

-----------------------------------------------------------------------------
(* What a step may do to the attempts.                                     *)

Early == {"idle", "graph", "evidence", "tools", "models"}

(* Work is done by one running attempt, and keeps to its locals.           *)
LEMMA WorkFrame ==
  ASSUME TypeOK, NEW a \in Attempts, Work(a)
  PROVE  /\ current' = current /\ late' = late
         /\ Running(a)
         /\ at'[a] \notin {"idle", "dead", "graph"}
         /\ \A b \in Attempts \ {a} :
              /\ at'[b] = at[b] /\ kind'[b] = kind[b] /\ pos'[b] = pos[b]
              /\ out'[b] = out[b] /\ ids'[b] = ids[b] /\ known'[b] = known[b]
<1> USE DEF Running, Over, Goto, Stay, NextKind, Loop
<1>1. CASE Graph(a) \/ TellEvidence(a) \/ TellHypotheses(a)
  BY <1>1 DEF TypeOK, Graph, TellEvidence, TellHypotheses
<1>2. CASE StoreEvidence(a)
  BY <1>2 DEF TypeOK, StoreEvidence
<1>3. CASE LogToolCall(a) \/ LogModelCall(a) \/ StoreHypothesis(a)
  BY <1>3 DEF TypeOK, LogToolCall, LogModelCall, StoreHypothesis
<1>4. CASE ListRows(a)
  BY <1>4 DEF TypeOK, ListRows
<1>5. CASE SkipRow(a)
  BY <1>5 DEF TypeOK, SkipRow
<1>6. CASE AddRow(a) \/ TellRows(a)
  BY <1>6 DEF TypeOK, AddRow, TellRows
<1> QED
  BY <1>1, <1>2, <1>3, <1>4, <1>5, <1>6 DEF Work

(* Of two running attempts one has timed out.                              *)
LEMMA OneRuns ==
  ASSUME TypeOK, LifeInv, NEW a \in Attempts, NEW b \in Attempts, a # b,
         Running(a), Running(b)
  PROVE  {a, b} \cap late # {}
<1>1. /\ a <= current /\ b <= current
      /\ a < current => a \in late
      /\ b < current => b \in late
  BY DEF LifeInv, Running, Over, TypeOK
<1>2. a < current \/ b < current
  BY <1>1 DEF TypeOK
<1> QED
  BY <1>1, <1>2

LEMMA LifeStep ==
  ASSUME TypeOK, LifeInv, [Next]_vars
  PROVE  LifeInv'
<1>1. ASSUME NEW a \in Attempts, Work(a) PROVE LifeInv'
  BY <1>1, WorkFrame DEF LifeInv, Running, Over, TypeOK
<1>2. ASSUME NEW a \in Attempts, Fail(a) PROVE LifeInv'
  BY <1>2 DEF Fail, LifeInv, Running, Over, TypeOK
<1>3. ASSUME NEW a \in Attempts, Launch(a) PROVE LifeInv'
  <2>1. /\ a = current + 1 /\ current' = a /\ late' = late
        /\ current \in late \cup {0} \cup {b \in Attempts : at[b] = "dead"}
        /\ at'[a] = "graph"
        /\ \A b \in Attempts \ {a} : at'[b] = at[b]
    BY <1>3 DEF Launch, TypeOK
  <2> QED
    BY <2>1 DEF LifeInv, TypeOK
<1>4. CASE TimeOut
  BY <1>4 DEF TimeOut, locals, LifeInv
<1>5. CASE UNCHANGED vars \/ ApiPlan \/ \E src \in Sources : ApiEvidence(src)
  BY <1>5 DEF ApiEvidence, ApiPlan, locals, vars, LifeInv
<1> QED
  BY <1>1, <1>2, <1>3, <1>4, <1>5 DEF Next

-----------------------------------------------------------------------------
(* Plans, reports and texts.                                               *)

LEMMA KnownKept ==
  ASSUME KnownInv, rows' = rows, late \subseteq late',
         \A b \in Attempts : at'[b] = "add" =>
           at[b] = "add" /\ kind'[b] = kind[b] /\ known'[b] = known[b]
  PROVE  KnownInv'
  BY DEF KnownInv

LEMMA DuplicatesKept ==
  ASSUME DuplicatesNeedOverlap, rows' = rows, late \subseteq late'
  PROVE  DuplicatesNeedOverlap'
  BY DEF DuplicatesNeedOverlap

LEMMA ListRowsKnown ==
  ASSUME TypeOK, KnownInv, NEW a \in Attempts, ListRows(a)
  PROVE  KnownInv'
<1>1. /\ rows' = rows /\ late' = late
      /\ \A b \in Attempts \ {a} :
           at'[b] = at[b] /\ kind'[b] = kind[b] /\ known'[b] = known[b]
  BY WorkFrame DEF Work, ListRows, database
<1>2. SUFFICES ASSUME at'[a] = "add", NEW m \in DOMAIN rows[kind'[a]]
               PROVE  \/ rows[kind'[a]][m].content \in known'[a]
                      \/ m + ListLimit[kind'[a]] <= Len(rows[kind'[a]])
  BY <1>1 DEF KnownInv
<1>3. kind' = kind /\ known'[a] = Listed(kind[a])
  BY <1>2 DEF ListRows, NextKind, TypeOK
<1>4. kind[a] \in Kinds /\ rows[kind[a]] \in Seq(ItemRows)
  BY Current DEF TypeOK
<1>5. m \in Nat /\ ListLimit[kind[a]] \in Nat /\ Len(rows[kind[a]]) \in Nat
  BY <1>2, <1>3, <1>4, BoundsAssumption
<1>6. CASE m + ListLimit[kind[a]] > Len(rows[kind[a]])
  BY <1>2, <1>3, <1>6 DEF Listed
<1> QED
  BY <1>3, <1>5, <1>6

(* One row more, of whoever adds it: the others are in its reach, if they  *)
(* may be adding too.                                                      *)
LEMMA AddRowKnown ==
  ASSUME TypeOK, LifeInv, KnownInv, NEW a \in Attempts, AddRow(a)
  PROVE  KnownInv'
<1>1. PICK row \in ItemRows :
        /\ row.by = a
        /\ known' = [known EXCEPT ![a] = @ \cup {row.content}]
        /\ rows' = [rows EXCEPT ![kind[a]] = Append(@, row)]
  BY AddedRow
<1>2. at' = at /\ kind' = kind /\ late' = late
  BY DEF AddRow, Stay
<1> SUFFICES ASSUME NEW b \in Attempts, at[b] = "add", NEW m \in DOMAIN rows'[kind[b]]
             PROVE  \/ rows'[kind[b]][m].content \in known'[b] \cup {NoContent}
                    \/ {b, rows'[kind[b]][m].by} \cap late # {}
                    \/ m + ListLimit[kind[b]] <= Len(rows'[kind[b]])
  BY <1>2 DEF KnownInv
<1>3. known[b] \subseteq known'[b]
  BY <1>1 DEF TypeOK
<1>4. CASE kind[b] # kind[a]
  <2>1. rows'[kind[b]] = rows[kind[b]]
    BY <1>1, <1>4, Current DEF TypeOK
  <2> QED
    BY <1>3, <2>1 DEF KnownInv
<1>5. CASE kind[b] = kind[a]
  <2> DEFINE old == rows[kind[b]]
  <2>1. old \in Seq(ItemRows) /\ rows'[kind[b]] = Append(old, row)
    BY <1>1, <1>5, Current DEF TypeOK
  <2>2. /\ Len(rows'[kind[b]]) = Len(old) + 1
        /\ DOMAIN rows'[kind[b]] = 1 .. Len(old) + 1
        /\ DOMAIN old = 1 .. Len(old)
        /\ \A n \in DOMAIN old : rows'[kind[b]][n] = old[n]
        /\ rows'[kind[b]][Len(old) + 1] = row
    BY <2>1, Appended
  <2>3. Len(old) \in Nat /\ ListLimit[kind[b]] \in Nat
    BY <2>1, Current, BoundsAssumption
  <2>4. CASE m \in DOMAIN old
    <3>1. \/ old[m].content \in known[b] \cup {NoContent}
          \/ {b, old[m].by} \cap late # {}
          \/ m + ListLimit[kind[b]] <= Len(old)
      BY <2>4 DEF KnownInv
    <3>2. m \in Nat
      BY <2>2, <2>3, <2>4
    <3>3. m + ListLimit[kind[b]] <= Len(old) =>
            m + ListLimit[kind[b]] <= Len(rows'[kind[b]])
      BY <2>2, <2>3, <3>2
    <3> QED
      BY <1>3, <2>2, <2>4, <3>1, <3>3
  <2>5. CASE m = Len(old) + 1
    <3>1. CASE b = a
      <4>1. row.content \in known'[b]
        BY <1>1, <3>1 DEF TypeOK
      <4> QED
        BY <2>2, <2>5, <4>1
    <3>2. CASE b # a
      <4>1. Running(a) /\ Running(b)
        BY DEF Running, Over, AddRow
      <4> QED
        BY <1>1, <2>2, <2>5, <3>2, <4>1, OneRuns
    <3> QED
      BY <3>1, <3>2
  <2> QED
    BY <2>2, <2>3, <2>4, <2>5
<1> QED
  BY <1>4, <1>5

LEMMA AddRowDuplicates ==
  ASSUME TypeOK, KnownInv, DuplicatesNeedOverlap, NEW a \in Attempts, AddRow(a)
  PROVE  DuplicatesNeedOverlap'
<1>1. PICK row \in ItemRows :
        /\ row.by = a
        /\ row.content \in Contents
        /\ row.content \notin known[a]
        /\ rows' = [rows EXCEPT ![kind[a]] = Append(@, row)]
  BY AddedRow
<1>2. late' = late /\ at[a] = "add"
  BY DEF AddRow
<1> DEFINE k == kind[a]
           old == rows[k]
<1>3. /\ k \in Kinds /\ old \in Seq(ItemRows)
      /\ rows'[k] = Append(old, row)
      /\ \A j \in Kinds \ {k} : rows'[j] = rows[j]
  BY <1>1, Current DEF TypeOK
<1>4. /\ Len(rows'[k]) = Len(old) + 1
      /\ DOMAIN rows'[k] = 1 .. Len(old) + 1
      /\ DOMAIN old = 1 .. Len(old)
      /\ \A n \in DOMAIN old : rows'[k][n] = old[n]
      /\ rows'[k][Len(old) + 1] = row
  BY <1>3, Appended
<1>5. Len(old) \in Nat /\ ListLimit[k] \in Nat
  BY <1>3, BoundsAssumption
<1> SUFFICES ASSUME NEW n \in DOMAIN rows'[k], NEW m \in 1 .. n - 1,
                    rows'[k][m].content = rows'[k][n].content, rows'[k][n].by # Api
             PROVE  {rows'[k][m].by, rows'[k][n].by} \cap late # {} \/ n - m > ListLimit[k]
  BY <1>2, <1>3 DEF DuplicatesNeedOverlap
<1>6. m \in DOMAIN old /\ rows'[k][m] = old[m]
  BY <1>4, <1>5
<1>7. CASE n \in DOMAIN old
  BY <1>3, <1>4, <1>6, <1>7 DEF DuplicatesNeedOverlap
<1>8. CASE n = Len(old) + 1
  <2>1. \/ old[m].content \in known[a] \cup {NoContent}
        \/ {a, old[m].by} \cap late # {}
        \/ m + ListLimit[k] <= Len(old)
    BY <1>2, <1>6 DEF KnownInv
  <2>2. old[m].content \notin known[a] \cup {NoContent}
    BY <1>1, <1>4, <1>6, <1>8, ContentsAssumption
  <2>3. m + ListLimit[k] <= Len(old) => n - m > ListLimit[k]
    BY <1>4, <1>5, <1>6, <1>8
  <2> QED
    BY <1>1, <1>4, <1>6, <1>8, <2>1, <2>2, <2>3
<1> QED
  BY <1>4, <1>5, <1>7, <1>8

LEMMA ApiPlanRows ==
  ASSUME TypeOK, KnownInv, DuplicatesNeedOverlap, ApiPlan
  PROVE  KnownInv' /\ DuplicatesNeedOverlap'
<1> DEFINE row == [content |-> NoContent, by |-> Api, vector |-> FALSE]
           old == rows["plan"]
<1>1. /\ old \in Seq(ItemRows) /\ row \in ItemRows
      /\ rows'["plan"] = Append(old, row)
      /\ \A j \in Kinds \ {"plan"} : rows'[j] = rows[j]
      /\ UNCHANGED <<late, at, kind, known>>
  BY DEF ApiPlan, TypeOK, Kinds, ItemRows, Items, locals
<1>2. /\ Len(rows'["plan"]) = Len(old) + 1
      /\ DOMAIN rows'["plan"] = 1 .. Len(old) + 1
      /\ DOMAIN old = 1 .. Len(old)
      /\ \A n \in DOMAIN old : rows'["plan"][n] = old[n]
      /\ rows'["plan"][Len(old) + 1] = row
  BY <1>1, Appended
<1>3. Len(old) \in Nat /\ ListLimit["plan"] \in Nat
  BY <1>1, BoundsAssumption DEF Kinds
<1>4. KnownInv'
  <2> SUFFICES ASSUME NEW b \in Attempts, at[b] = "add", NEW m \in DOMAIN rows'[kind[b]]
               PROVE  \/ rows'[kind[b]][m].content \in known[b] \cup {NoContent}
                      \/ {b, rows'[kind[b]][m].by} \cap late # {}
                      \/ m + ListLimit[kind[b]] <= Len(rows'[kind[b]])
    BY <1>1 DEF KnownInv
  <2>1. CASE kind[b] # "plan"
    BY <1>1, <2>1, Current DEF KnownInv
  <2>2. CASE kind[b] = "plan" /\ m \in DOMAIN old
    <3>1. \/ old[m].content \in known[b] \cup {NoContent}
          \/ {b, old[m].by} \cap late # {}
          \/ m + ListLimit["plan"] <= Len(old)
      BY <2>2 DEF KnownInv
    <3>2. m + ListLimit["plan"] <= Len(old) => m + ListLimit["plan"] <= Len(old) + 1
      BY <1>2, <1>3, <2>2
    <3> QED
      BY <1>2, <2>2, <3>1, <3>2
  <2>3. CASE kind[b] = "plan" /\ m = Len(old) + 1
    BY <1>2, <2>3
  <2> QED
    BY <1>2, <1>3, <2>1, <2>2, <2>3
<1>5. DuplicatesNeedOverlap'
  <2> SUFFICES ASSUME NEW n \in DOMAIN rows'["plan"], NEW m \in 1 .. n - 1,
                      rows'["plan"][m].content = rows'["plan"][n].content,
                      rows'["plan"][n].by # Api
               PROVE  \/ {rows'["plan"][m].by, rows'["plan"][n].by} \cap late # {}
                      \/ n - m > ListLimit["plan"]
    BY <1>1 DEF DuplicatesNeedOverlap
  <2>1. n \in DOMAIN old /\ m \in DOMAIN old
    BY <1>2, <1>3
  <2> QED
    BY <1>2, <2>1 DEF DuplicatesNeedOverlap, Kinds
<1> QED
  BY <1>4, <1>5

LEMMA RowsStep ==
  ASSUME TypeOK, LifeInv, KnownInv, DuplicatesNeedOverlap, [Next]_vars
  PROVE  KnownInv' /\ DuplicatesNeedOverlap'
<1>1. ASSUME NEW a \in Attempts, AddRow(a) PROVE KnownInv' /\ DuplicatesNeedOverlap'
  BY <1>1, AddRowKnown, AddRowDuplicates
<1>2. ASSUME NEW a \in Attempts, ListRows(a) PROVE KnownInv' /\ DuplicatesNeedOverlap'
  BY <1>2, ListRowsKnown, DuplicatesKept DEF ListRows, database
<1>3. ASSUME NEW a \in Attempts, SkipRow(a) PROVE KnownInv' /\ DuplicatesNeedOverlap'
  <2>1. /\ rows' = rows /\ late' = late /\ known' = known
        /\ at'[a] = "add" => at[a] = "add" /\ kind'[a] = kind[a]
    BY <1>3 DEF SkipRow, Stay, NextKind, database, TypeOK
  <2>2. \A b \in Attempts \ {a} : at'[b] = at[b] /\ kind'[b] = kind[b]
    BY <1>3, WorkFrame DEF Work
  <2> QED
    BY <2>1, <2>2, KnownKept, DuplicatesKept
<1>4. ASSUME NEW a \in Attempts,
             \/ Graph(a) \/ StoreEvidence(a) \/ LogToolCall(a) \/ LogModelCall(a)
             \/ StoreHypothesis(a) \/ TellEvidence(a) \/ TellHypotheses(a) \/ TellRows(a)
      PROVE  KnownInv' /\ DuplicatesNeedOverlap'
  <2>1. /\ rows' = rows /\ late' = late
        /\ at'[a] # "add"
    BY <1>4 DEF Graph, StoreEvidence, LogToolCall, LogModelCall, StoreHypothesis,
       TellEvidence, TellHypotheses, TellRows, Loop, Goto, Stay, NextKind, database, TypeOK
  <2>2. \A b \in Attempts \ {a} :
          at'[b] = at[b] /\ kind'[b] = kind[b] /\ known'[b] = known[b]
    BY <1>4, WorkFrame DEF Work
  <2> QED
    BY <2>1, <2>2, KnownKept, DuplicatesKept
<1>5. ASSUME NEW a \in Attempts, Launch(a) \/ Fail(a)
      PROVE  KnownInv' /\ DuplicatesNeedOverlap'
  <2>1. /\ rows' = rows /\ late' = late /\ at'[a] # "add"
        /\ \A b \in Attempts \ {a} :
             at'[b] = at[b] /\ kind'[b] = kind[b] /\ known'[b] = known[b]
    BY <1>5 DEF Launch, Fail, TypeOK, database
  <2> QED
    BY <2>1, KnownKept, DuplicatesKept
<1>6. CASE TimeOut \/ (\E src \in Sources : ApiEvidence(src)) \/ UNCHANGED vars
  <2>1. rows' = rows /\ late \subseteq late' /\ UNCHANGED <<at, kind, known>>
    BY <1>6 DEF TimeOut, ApiEvidence, vars, locals, database
  <2> QED
    BY <2>1, KnownKept, DuplicatesKept
<1> QED
  BY <1>1, <1>2, <1>3, <1>4, <1>5, <1>6, ApiPlanRows DEF Next, Work

-----------------------------------------------------------------------------
(* Evidence and hypotheses.                                                *)

(* Whatever neither stores evidence nor a hypothesis: attempts move on     *)
(* with their ids, or are dead.                                            *)
LEMMA EvidenceKept ==
  ASSUME EvidenceInv, evidence' = evidence, hypotheses' = hypotheses,
         \A b \in Attempts :
           \/ at'[b] = "dead"
           \/ /\ at[b] # "dead"
              /\ ids'[b] = ids[b]
              /\ \/ at'[b] = at[b] /\ pos'[b] = pos[b] /\ out'[b] = out[b]
                 \/ /\ at[b] \in {"idle", "graph"} /\ at'[b] = "evidence"
                    /\ \A p \in DOMAIN out'[b].evidence : out'[b].evidence[p] \in Sources
                 \/ at[b] = "idle" /\ at'[b] = "graph" /\ pos'[b] = pos[b]
                 \/ at[b] \in Early /\ at'[b] \in {"tools", "models"}
                 \/ at'[b] \notin Early
  PROVE  EvidenceInv'
<1> SUFFICES ASSUME NEW b \in Attempts PROVE Accounted(b)'
  BY DEF EvidenceInv
<1> USE DEF Accounted, Early
<1>1. Accounted(b)
  BY DEF EvidenceInv
<1>2. CASE at'[b] = "dead"
  BY <1>2
<1>3. CASE at[b] # "dead" /\ ids'[b] = ids[b] /\ at'[b] \notin Early
  BY <1>1, <1>3
<1>4. CASE /\ at[b] # "dead" /\ ids'[b] = ids[b]
           /\ at'[b] = at[b] /\ pos'[b] = pos[b] /\ out'[b] = out[b]
  BY <1>1, <1>4
<1>5. CASE /\ at[b] \in {"idle", "graph"} /\ at'[b] = "evidence" /\ ids'[b] = ids[b]
           /\ \A p \in DOMAIN out'[b].evidence : out'[b].evidence[p] \in Sources
  BY <1>1, <1>5
<1>6. CASE /\ at[b] = "idle" /\ at'[b] = "graph" /\ ids'[b] = ids[b] /\ pos'[b] = pos[b]
  BY <1>1, <1>6
<1>7. CASE /\ at[b] \in Early /\ at'[b] \in {"tools", "models"} /\ ids'[b] = ids[b]
  BY <1>1, <1>7
<1> QED
  BY <1>2, <1>3, <1>4, <1>5, <1>6, <1>7

LEMMA BackedKept ==
  ASSUME HypothesesBacked, evidence' = evidence, hypotheses' = hypotheses
  PROVE  HypothesesBacked'
  BY DEF HypothesesBacked

(* One item of evidence more, by another attempt or by the API.            *)
LEMMA OthersKept ==
  ASSUME TypeOK, EvidenceInv, NEW row \in EvidenceRows,
         evidence' = Append(evidence, row), hypotheses' = hypotheses,
         NEW b \in Attempts, row.by # b,
         at'[b] = at[b], pos'[b] = pos[b], out'[b] = out[b], ids'[b] = ids[b]
  PROVE  Accounted(b)'
<1>1. evidence \in Seq(EvidenceRows)
  BY DEF TypeOK
<1>2. /\ DOMAIN evidence' = 1 .. Len(evidence) + 1
      /\ DOMAIN evidence = 1 .. Len(evidence)
      /\ \A n \in DOMAIN evidence : evidence'[n] = evidence[n]
      /\ evidence'[Len(evidence) + 1] = row
  BY <1>1, Appended
<1>3. Len(evidence) \in Nat
  BY <1>1
<1>4. \A n \in DOMAIN evidence' : evidence'[n].by = b => n \in DOMAIN evidence
  BY <1>2, <1>3
<1>5. DOMAIN evidence \subseteq DOMAIN evidence'
  BY <1>2, <1>3
<1> QED
  BY <1>2, <1>4, <1>5 DEF EvidenceInv, Accounted

LEMMA BackedMore ==
  ASSUME TypeOK, HypothesesBacked, NEW row \in EvidenceRows,
         evidence' = Append(evidence, row), hypotheses' = hypotheses,
         \A h \in DOMAIN hypotheses : hypotheses[h].by # row.by
  PROVE  HypothesesBacked'
<1>1. evidence \in Seq(EvidenceRows)
  BY DEF TypeOK
<1>2. /\ DOMAIN evidence' = 1 .. Len(evidence) + 1
      /\ DOMAIN evidence = 1 .. Len(evidence)
      /\ \A n \in DOMAIN evidence : evidence'[n] = evidence[n]
      /\ evidence'[Len(evidence) + 1] = row
  BY <1>1, Appended
<1>3. Len(evidence) \in Nat
  BY <1>1
<1>4. ASSUME NEW h \in DOMAIN hypotheses
      PROVE  {n \in DOMAIN evidence' :
                evidence'[n].by = hypotheses[h].by /\ evidence'[n].type \in hypotheses[h].refs}
             = {n \in DOMAIN evidence :
                evidence[n].by = hypotheses[h].by /\ evidence[n].type \in hypotheses[h].refs}
  <2>1. \A n \in DOMAIN evidence' : evidence'[n].by = hypotheses[h].by => n \in DOMAIN evidence
    BY <1>2, <1>3
  <2>2. DOMAIN evidence \subseteq DOMAIN evidence'
    BY <1>2, <1>3
  <2> QED
    BY <1>2, <2>1, <2>2
<1> QED
  BY <1>4 DEF HypothesesBacked

LEMMA StoreEvidenceInv ==
  ASSUME TypeOK, EvidenceInv, HypothesesBacked, NEW a \in Attempts, StoreEvidence(a)
  PROVE  EvidenceInv' /\ HypothesesBacked'
<1> DEFINE list == out[a].evidence
<1>1. /\ at[a] = "evidence" /\ hypotheses' = hypotheses /\ out' = out
      /\ \A b \in Attempts \ {a} : at'[b] = at[b] /\ pos'[b] = pos[b] /\ ids'[b] = ids[b]
  BY WorkFrame DEF StoreEvidence, Loop, Work
<1>2. CASE ~ (pos[a] <= Len(list))
  <2>1. evidence' = evidence /\ ids' = ids /\ at'[a] = "tools"
    BY <1>2 DEF StoreEvidence, Loop, Goto, TypeOK
  <2> QED
    BY <1>1, <2>1, EvidenceKept, BackedKept DEF Early
<1>3. CASE pos[a] <= Len(list)
  <2> DEFINE type == list[pos[a]]
             row == [type |-> type, by |-> a]
             new == Len(evidence) + 1
  <2>1. /\ list \in Seq(Sources) /\ pos[a] \in Nat \ {0}
        /\ pos[a] \in DOMAIN list /\ type \in Sources
        /\ \A m, n \in DOMAIN list : list[m] = list[n] => m = n
    BY <1>3, Current, OutputTypes, Element
  <2>2. row \in EvidenceRows
    BY <2>1 DEF EvidenceRows
  <2>3. /\ evidence' = Append(evidence, row)
        /\ ids' = [ids EXCEPT ![a] = [@ EXCEPT ![type] = new]]
        /\ at' = at /\ pos'[a] = pos[a] + 1
    BY <1>3 DEF StoreEvidence, Loop, Stay, TypeOK
  <2>4. ids[a] \in [Sources -> Nat] /\ evidence \in Seq(EvidenceRows)
    BY DEF TypeOK
  <2>5. /\ ids'[a][type] = new
        /\ \A src \in Sources \ {type} : ids'[a][src] = ids[a][src]
    BY <2>1, <2>3, <2>4 DEF TypeOK
  <2>6. /\ DOMAIN evidence' = 1 .. new
        /\ DOMAIN evidence = 1 .. Len(evidence)
        /\ \A n \in DOMAIN evidence : evidence'[n] = evidence[n]
        /\ evidence'[new] = row
        /\ new \in Nat \ {0}
    BY <2>2, <2>3, <2>4, Appended
  <2>7. ids[a][type] = 0
    BY <1>1, <2>1 DEF EvidenceInv, Accounted
  <2>8. \A n \in DOMAIN evidence' :
          evidence'[n].by = a => ids'[a][evidence'[n].type] = n
    <3> SUFFICES ASSUME NEW n \in DOMAIN evidence', evidence'[n].by = a
                 PROVE  ids'[a][evidence'[n].type] = n
      OBVIOUS
    <3>1. CASE n = new
      BY <2>5, <2>6, <3>1
    <3>2. CASE n # new
      <4>1. n \in DOMAIN evidence /\ n # 0
        BY <2>4, <2>6, <3>2
      <4>2. evidence[n].by = a /\ evidence[n].type \in Sources
        <5>1. evidence'[n] = evidence[n] /\ evidence[n] \in EvidenceRows
          BY <2>4, <2>6, <4>1
        <5> QED
          BY <5>1 DEF EvidenceRows
      <4>3. ids[a][evidence[n].type] = n
        BY <1>1, <4>1, <4>2 DEF EvidenceInv, Accounted
      <4>4. evidence[n].type # type
        BY <2>7, <4>1, <4>3
      <4> QED
        BY <2>5, <2>6, <4>1, <4>2, <4>3, <4>4
    <3> QED
      BY <3>1, <3>2
  <2>9. \A src \in Sources : ids'[a][src] # 0 =>
          /\ ids'[a][src] \in DOMAIN evidence'
          /\ evidence'[ids'[a][src]] = [type |-> src, by |-> a]
    <3> SUFFICES ASSUME NEW src \in Sources, ids'[a][src] # 0
                 PROVE  /\ ids'[a][src] \in DOMAIN evidence'
                        /\ evidence'[ids'[a][src]] = [type |-> src, by |-> a]
      OBVIOUS
    <3>1. CASE src = type
      <4>1. ids'[a][src] = new /\ new \in DOMAIN evidence'
        BY <2>5, <2>6, <3>1
      <4> QED
        BY <2>6, <3>1, <4>1
    <3>2. CASE src # type
      <4>1. /\ ids'[a][src] = ids[a][src]
            /\ ids[a][src] \in DOMAIN evidence
            /\ evidence[ids[a][src]] = [type |-> src, by |-> a]
        BY <1>1, <2>5, <3>2 DEF EvidenceInv, Accounted
      <4>2. DOMAIN evidence \subseteq DOMAIN evidence'
        BY <2>4, <2>6
      <4> QED
        BY <2>6, <4>1, <4>2
    <3> QED
      BY <3>1, <3>2
  <2>10. \A p \in DOMAIN list : p >= pos[a] + 1 => ids'[a][list[p]] = 0
    <3> SUFFICES ASSUME NEW p \in DOMAIN list, p >= pos[a] + 1
                 PROVE  ids'[a][list[p]] = 0
      OBVIOUS
    <3>1. p \in Nat /\ p # pos[a] /\ p >= pos[a] /\ list[p] \in Sources
      BY <2>1
    <3>2. list[p] # type
      BY <2>1, <3>1
    <3>3. ids[a][list[p]] = 0
      BY <1>1, <3>1 DEF EvidenceInv, Accounted
    <3> QED
      BY <2>5, <3>1, <3>2, <3>3
  <2>11. \A h \in DOMAIN hypotheses : hypotheses[h].by # a
    BY <1>1 DEF EvidenceInv, Accounted
  <2>12. \A b \in Attempts \ {a} :
          /\ row.by # b
          /\ at'[b] = at[b] /\ pos'[b] = pos[b] /\ out'[b] = out[b] /\ ids'[b] = ids[b]
    BY <1>1
  <2>13. EvidenceInv'
    <3>1. ASSUME NEW b \in Attempts \ {a} PROVE Accounted(b)'
      BY <1>1, <2>2, <2>3, <2>12, OthersKept
    <3>2. Accounted(a)'
      BY <1>1, <2>3, <2>8, <2>9, <2>10, <2>11 DEF Accounted
    <3> QED
      BY <3>1, <3>2 DEF EvidenceInv
  <2>14. HypothesesBacked'
    BY <1>1, <2>2, <2>3, <2>11, BackedMore
  <2> QED
    BY <2>13, <2>14
<1> QED
  BY <1>2, <1>3

LEMMA ApiEvidenceInv ==
  ASSUME TypeOK, EvidenceInv, HypothesesBacked, NEW src \in Sources, ApiEvidence(src)
  PROVE  EvidenceInv' /\ HypothesesBacked'
<1> DEFINE row == [type |-> src, by |-> Api]
<1>1. /\ row \in EvidenceRows
      /\ evidence' = Append(evidence, row)
      /\ hypotheses' = hypotheses
      /\ UNCHANGED <<at, pos, out, ids>>
  BY DEF ApiEvidence, EvidenceRows, locals
<1>2. \A b \in Attempts : row.by # b
  BY DEF Api
<1>3. \A h \in DOMAIN hypotheses : hypotheses[h].by # row.by
  <2>1. \A h \in DOMAIN hypotheses : hypotheses[h] \in HypothesisRows
    BY DEF TypeOK
  <2> QED
    BY <1>2, <2>1 DEF HypothesisRows
<1>4. EvidenceInv'
  <2>1. ASSUME NEW b \in Attempts PROVE Accounted(b)'
    BY <1>1, <1>2, OthersKept
  <2> QED
    BY <2>1 DEF EvidenceInv
<1> QED
  BY <1>1, <1>3, <1>4, BackedMore

LEMMA StoreHypothesisInv ==
  ASSUME TypeOK, EvidenceInv, HypothesesBacked, NEW a \in Attempts, StoreHypothesis(a)
  PROVE  EvidenceInv' /\ HypothesesBacked'
<1> DEFINE list == out[a].hypotheses
           row == [refs |-> list[pos[a]], by |-> a, ids |-> Supporting(a, list[pos[a]])]
<1>1. /\ at[a] = "hypotheses" /\ at'[a] \notin Early
      /\ UNCHANGED <<evidence, ids, out>>
      /\ \A b \in Attempts \ {a} : at'[b] = at[b] /\ pos'[b] = pos[b]
  BY WorkFrame DEF StoreHypothesis, Loop, Goto, Stay, Early, TypeOK, Work
<1>2. CASE ~ (pos[a] <= Len(list))
  <2>1. hypotheses' = hypotheses
    BY <1>2 DEF StoreHypothesis
  <2> QED
    BY <1>1, <2>1, EvidenceKept, BackedKept
<1>3. CASE pos[a] <= Len(list)
  <2>1. hypotheses' = Append(hypotheses, row)
    BY <1>3 DEF StoreHypothesis
  <2>2. hypotheses \in Seq(HypothesisRows)
    BY DEF TypeOK
  <2>3. list[pos[a]] \in SUBSET Sources
    BY <1>3, Current, OutputTypes, Element
  <2>4. row.ids \in SUBSET (Nat \ {0})
    BY <2>3 DEF Supporting, TypeOK
  <2>5. row \in HypothesisRows
    BY <2>3, <2>4 DEF HypothesisRows
  <2>6. /\ DOMAIN hypotheses' = 1 .. Len(hypotheses) + 1
        /\ DOMAIN hypotheses = 1 .. Len(hypotheses)
        /\ \A h \in DOMAIN hypotheses : hypotheses'[h] = hypotheses[h]
        /\ hypotheses'[Len(hypotheses) + 1] = row
        /\ Len(hypotheses) \in Nat
    BY <2>1, <2>2, <2>5, Appended
  <2>7. \A h \in DOMAIN hypotheses' : h \in DOMAIN hypotheses \/ hypotheses'[h] = row
    BY <2>6
  <2>8. row.ids = {n \in DOMAIN evidence : evidence[n].by = a /\ evidence[n].type \in row.refs}
    <3>1. /\ \A n \in DOMAIN evidence : evidence[n].by = a => ids[a][evidence[n].type] = n
          /\ \A src \in Sources : ids[a][src] # 0 =>
               /\ ids[a][src] \in DOMAIN evidence
               /\ evidence[ids[a][src]] = [type |-> src, by |-> a]
      BY <1>1 DEF EvidenceInv, Accounted
    <3>2. \A n \in DOMAIN evidence : n # 0
      BY DEF TypeOK
    <3> DEFINE stored == {n \in DOMAIN evidence :
                            evidence[n].by = a /\ evidence[n].type \in row.refs}
    <3>3. ASSUME NEW n \in row.ids PROVE n \in stored
      <4>1. PICK src \in list[pos[a]] : ids[a][src] # 0 /\ n = ids[a][src]
        BY DEF Supporting
      <4>2. src \in Sources /\ src \in row.refs
        BY <2>3, <4>1
      <4>3. n \in DOMAIN evidence /\ evidence[n] = [type |-> src, by |-> a]
        BY <3>1, <4>1, <4>2
      <4> QED
        BY <4>2, <4>3
    <3>4. ASSUME NEW n \in stored PROVE n \in row.ids
      <4>1. ids[a][evidence[n].type] = n /\ n # 0 /\ evidence[n].type \in list[pos[a]]
        BY <3>1, <3>2
      <4> QED
        BY <4>1 DEF Supporting
    <3> QED
      BY <3>3, <3>4
  <2>9. HypothesesBacked'
    BY <1>1, <2>6, <2>7, <2>8 DEF HypothesesBacked
  <2>10. EvidenceInv'
    <3> SUFFICES ASSUME NEW b \in Attempts, at'[b] \in Early, NEW h \in DOMAIN hypotheses'
                 PROVE  hypotheses'[h].by # b
      BY <1>1 DEF EvidenceInv, Accounted, Early
    <3> QED
      BY <1>1, <2>6, <2>7 DEF EvidenceInv, Accounted, Early
  <2> QED
    BY <2>9, <2>10
<1> QED
  BY <1>2, <1>3

LEMMA EvidenceStep ==
  ASSUME TypeOK, LifeInv, EvidenceInv, HypothesesBacked, [Next]_vars
  PROVE  EvidenceInv' /\ HypothesesBacked'
<1>1. ASSUME NEW a \in Attempts, StoreEvidence(a) \/ StoreHypothesis(a)
      PROVE  EvidenceInv' /\ HypothesesBacked'
  BY <1>1, StoreEvidenceInv, StoreHypothesisInv
<1>2. ASSUME NEW src \in Sources, ApiEvidence(src) PROVE EvidenceInv' /\ HypothesesBacked'
  BY <1>2, ApiEvidenceInv
<1>3. ASSUME NEW a \in Attempts,
             \/ Graph(a) \/ LogToolCall(a) \/ LogModelCall(a) \/ TellEvidence(a)
             \/ TellHypotheses(a) \/ ListRows(a) \/ SkipRow(a) \/ AddRow(a) \/ TellRows(a)
      PROVE  EvidenceInv' /\ HypothesesBacked'
  <2>1. /\ evidence' = evidence /\ hypotheses' = hypotheses /\ ids' = ids
        /\ at[a] # "dead"
        /\ \/ /\ at[a] = "graph" /\ at'[a] = "evidence"
              /\ out'[a] \in Outputs \cup {EmptyOutput}
           \/ at[a] \in Early /\ at'[a] \in {"tools", "models"}
           \/ at'[a] \notin Early
    BY <1>3 DEF Graph, LogToolCall, LogModelCall, TellEvidence, TellHypotheses, ListRows,
       SkipRow, AddRow, TellRows, Loop, Goto, Stay, NextKind, Early, database, TypeOK
  <2>2. \A b \in Attempts \ {a} : at'[b] = at[b] /\ pos'[b] = pos[b] /\ out'[b] = out[b]
    BY <1>3, WorkFrame DEF Work
  <2>3. out'[a] \in Outputs \cup {EmptyOutput} =>
          \A p \in DOMAIN out'[a].evidence : out'[a].evidence[p] \in Sources
    BY OutputTypes
  <2> QED
    BY <2>1, <2>2, <2>3, EvidenceKept, BackedKept
<1>4. ASSUME NEW a \in Attempts, Fail(a) PROVE EvidenceInv' /\ HypothesesBacked'
  <2>1. /\ evidence' = evidence /\ hypotheses' = hypotheses /\ at'[a] = "dead"
        /\ \A b \in Attempts \ {a} :
             at'[b] = at[b] /\ pos'[b] = pos[b] /\ out'[b] = out[b] /\ ids'[b] = ids[b]
    BY <1>4 DEF Fail, TypeOK, database
  <2> QED
    BY <2>1, EvidenceKept, BackedKept
<1>5. ASSUME NEW a \in Attempts, Launch(a) PROVE EvidenceInv' /\ HypothesesBacked'
  <2>1. /\ evidence' = evidence /\ hypotheses' = hypotheses
        /\ UNCHANGED <<pos, out, ids>>
        /\ at[a] = "idle" /\ at'[a] = "graph"
        /\ \A b \in Attempts \ {a} : at'[b] = at[b]
    BY <1>5 DEF Launch, TypeOK, LifeInv, database
  <2> QED
    BY <2>1, EvidenceKept, BackedKept
<1>6. CASE TimeOut \/ ApiPlan \/ UNCHANGED vars
  <2>1. UNCHANGED <<evidence, hypotheses, at, pos, out, ids>>
    BY <1>6 DEF TimeOut, ApiPlan, vars, locals, database
  <2> QED
    BY <2>1, EvidenceKept, BackedKept
<1> QED
  BY <1>1, <1>2, <1>3, <1>4, <1>5, <1>6 DEF Next, Work

-----------------------------------------------------------------------------
(* The theorems.                                                           *)

LEMMA InitInv == Init => IInv
<1> SUFFICES ASSUME Init PROVE IInv
  OBVIOUS
<1>1. TypeOK
  BY InitTypes
<1>2. LifeInv /\ KnownInv /\ EvidenceInv
  BY DEF Init, LifeInv, KnownInv, EvidenceInv, Accounted, EmptyOutput
<1>3. DuplicatesNeedOverlap /\ HypothesesBacked
  BY DEF Init, DuplicatesNeedOverlap, HypothesesBacked
<1> QED
  BY <1>1, <1>2, <1>3 DEF IInv

LEMMA NextInv == IInv /\ [Next]_vars => IInv'
  BY StepTypes, LifeStep, RowsStep, EvidenceStep DEF IInv

(* The inductive invariant of the attempts of agent_graph_run: of two that *)
(* run one has timed out, what an attempt about to insert does not know is *)
(* excused, and its ids are the evidence rows it stored.                   *)
THEOREM Invariance == Spec => []IInv
  BY InitInv, NextInv, PTL DEF Spec

(* Every attempt's place and output, and every row, is of its type.        *)
THEOREM TypeCorrect == Spec => []TypeOK
  BY Invariance, PTL DEF IInv

(* The hash comparison of _persist_remediation_output, of its counterpart  *)
(* for reports and of _persist_embedding_output keeps retries from storing *)
(* anything twice, unless an attempt timed out or the query is too short.  *)
THEOREM RetriesStoreOnce == Spec => []DuplicatesNeedOverlap
  BY Invariance, PTL DEF IInv

(* The evidence ids of a hypothesis are the rows of its own attempt for    *)
(* the types it refers to, however many attempts and API calls interleave. *)
THEOREM Backing == Spec => []HypothesesBacked
  BY Invariance, PTL DEF IInv

=============================================================================
