---------------------------- MODULE Database_proofs ----------------------------
(***************************************************************************)
(* Proofs about the drivers: an id has one row wherever the unique index   *)
(* is, and every step of the drivers and of the services' tries is one     *)
(* that the interface (module Store) promises.                             *)
(***************************************************************************)
EXTENDS Database, FiniteSetTheorems, TLAPS

Row == [op : 0 .. MaxOps, try : 0 .. MAX_RETRY_TIMES]
OpName == {"insert", "update", "delete", "save", "modify", "exist", "find_one", "find_all"}

\* The calls of the driver an operation is made of.
Carries(k) ==
  CASE k \in {"save", "modify"} -> {"insert", "update"}
    [] k = "exist"              -> {"find_one"}
    [] OTHER                    -> {k}

Active(p) == op[p] \in OpName

ProcessTypes ==
  /\ pc \in [Process -> {"connect", "collect", "create", "make", "index", "execute",
                         "iterate", "commit", "idle", "dead"}]
  /\ op \in [Process -> OpName \cup {"none", "start"}]
  /\ call \in [Process -> OpName \cup {"none", "start"}]
  /\ num \in [Process -> 0 .. MaxOps] /\ tries \in [Process -> 0 .. MAX_RETRY_TIMES]
  /\ answer \in [Process -> {"none", "ok", "exists", "missing", "DataBaseError",
                             "CollectionAlreadyExisting", "unnamed", "exit"}]
  /\ conn \in [Process -> {"none", "up", "broken"}]
  /\ tx \in [Process -> {"none", "bare", "indexed", "row"}]

DBTypeOK ==
  /\ driver \in {"mongo", "postgreSQL"} /\ style \in Service
  /\ table \in {"none", "bare", "indexed"}
  /\ rows \in SUBSET Row /\ IsFiniteSet(rows)
  /\ ProcessTypes
  /\ spent \in [ops : 0 .. MaxOps, faults : 0 .. MaxFaults]

\* Where a process is tells what it carries out, for which the table is there; each
\* try of an operation writes a row that was not there; and what an open transaction
\* was begun for is still to be done.
ProcessOK(p) ==
  /\ pc[p] \in {"idle", "dead"} => op[p] = "none"
  /\ pc[p] \in {"connect", "collect", "create", "make", "index"} => op[p] = "start"
  /\ pc[p] = "execute" => Active(p)
  /\ pc[p] = "iterate" => op[p] = "find_all"
  /\ pc[p] = "commit" => driver = "postgreSQL" /\ (op[p] = "start" \/ Active(p))
  /\ Active(p) \/ pc[p] = "idle" => table # "none"
  /\ Active(p) => /\ call[p] \in Carries(op[p]) /\ num[p] > 0
                  /\ \A r \in rows : r.op = num[p] => r.try < tries[p]
  /\ driver = "mongo" => tx[p] = "none"
  /\ tx[p] = "bare" => pc[p] = "index"
  /\ tx[p] = "indexed" => pc[p] = "commit" /\ op[p] = "start"
  /\ tx[p] = "row" => pc[p] = "commit" /\ Active(p) /\ Changes(p)
  /\ pc[p] = "commit" /\ conn[p] = "up" => tx[p] \in {"indexed", "row"}
  /\ num[p] <= spent.ops

One == \A r, s \in rows : r = s

DBInv ==
  /\ DBTypeOK
  /\ driver = "postgreSQL" => table # "bare"
  /\ rows # {} => table # "none"
  /\ driver = "postgreSQL" \/ table = "indexed" => One
  /\ \A r \in rows : r.op <= spent.ops
  /\ \A p \in Process : ProcessOK(p)
  /\ \A p, q \in Process : tx[p] = "row" /\ tx[q] = "row" => p = q
  /\ \A p, q \in Process : num[p] = num[q] => p = q \/ num[p] = 0

-----------------------------------------------------------------------------
(* What one step may do to the table and to the other processes. *)

Same(q) ==
  /\ pc'[q] = pc[q] /\ op'[q] = op[q] /\ call'[q] = call[q] /\ num'[q] = num[q]
  /\ tries'[q] = tries[q] /\ answer'[q] = answer[q] /\ tx'[q] = tx[q] /\ conn'[q] = conn[q]

\* The call of p is carried out, or no row changes.
RowsMove(p) ==
  \/ UNCHANGED rows
  \/ /\ Active(p) /\ Changes(p) /\ rows' \in Changed(p)
     /\ driver = "postgreSQL" => tx[p] = "row"

TableMoves ==
  \/ UNCHANGED table
  \/ table = "none" /\ table' = "bare" /\ driver = "mongo" /\ UNCHANGED rows
  \/ table' = "indexed" /\ One /\ UNCHANGED rows

LEMMA AtMostOne ==
  ASSUME NEW S, IsFiniteSet(S)
  PROVE  /\ Cardinality(S) \in Nat
         /\ Cardinality(S) <= 1 <=> \A r, s \in S : r = s
<1>1. Cardinality(S) \in Nat
  BY FS_CardinalityType
<1>2. ASSUME Cardinality(S) <= 1, NEW r \in S, NEW s \in S PROVE r = s
  <2>1. Cardinality(S) = 0 => S = {}
    BY FS_EmptySet
  <2>2. Cardinality(S) = 1 => \E x : S = {x}
    BY FS_Singleton
  <2> QED BY <1>1, <1>2, <2>1, <2>2
<1>3. ASSUME \A r, s \in S : r = s PROVE Cardinality(S) <= 1
  <2>1. CASE S = {}
    BY <2>1, FS_EmptySet
  <2>2. CASE \E x : S = {x}
    BY <2>2, FS_Singleton
  <2> QED BY <1>3, <2>1, <2>2
<1> QED BY <1>1, <1>2, <1>3

\* A row the call of p leaves was there before, or is the new one.
LEMMA RowsAfter ==
  ASSUME DBInv, NEW p \in Process, RowsMove(p)
  PROVE  /\ rows' \in SUBSET Row /\ IsFiniteSet(rows')
         /\ \A r \in rows' : r \in rows \/ r = NewRow(p)
         /\ NewRow(p).op = num[p] /\ NewRow(p).try = tries[p]
         /\ \A r \in rows' : r.op <= spent.ops
<1>1. /\ rows \in SUBSET Row /\ IsFiniteSet(rows) /\ num[p] \in 0 .. MaxOps
      /\ tries[p] \in 0 .. MAX_RETRY_TIMES /\ num[p] <= spent.ops
      /\ \A r \in rows : r.op <= spent.ops
  BY DEF DBInv, DBTypeOK, ProcessTypes, ProcessOK
<1>2. NewRow(p) \in Row /\ NewRow(p).op = num[p] /\ NewRow(p).try = tries[p]
  BY <1>1 DEF NewRow, Row
<1>3. \/ rows' = rows \/ rows' = rows \cup {NewRow(p)} \/ rows' = {}
      \/ \E r \in rows : rows' = (rows \ {r}) \cup {NewRow(p)}
  BY DEF RowsMove, Changes, Changed
<1>4. IsFiniteSet(rows')
  <2>1. ASSUME NEW S, IsFiniteSet(S), NEW x PROVE IsFiniteSet(S \cup {x}) /\ IsFiniteSet(S \ {x})
    BY <2>1, FS_AddElement, FS_RemoveElement
  <2>2. \A r \in rows : IsFiniteSet((rows \ {r}) \cup {NewRow(p)})
    BY <1>1, <2>1
  <2>3. IsFiniteSet(rows \cup {NewRow(p)}) /\ IsFiniteSet({})
    BY <1>1, <2>1, FS_EmptySet
  <2> QED BY <1>1, <1>3, <2>2, <2>3
<1>5. rows' \in SUBSET Row /\ \A r \in rows' : r \in rows \/ r = NewRow(p)
  BY <1>1, <1>2, <1>3
<1> QED BY <1>1, <1>2, <1>4, <1>5

LEMMA OthersOK ==
  ASSUME DBInv, NEW p \in Process, NEW q \in Process, q # p, Same(q),
         UNCHANGED driver, RowsMove(p), TableMoves,
         spent'.ops \in Nat, spent'.ops >= spent.ops
  PROVE  ProcessOK(q)'
<1>1. /\ ProcessOK(q) /\ num[q] <= spent'.ops
      /\ driver \in {"mongo", "postgreSQL"} /\ table \in {"none", "bare", "indexed"}
  <2>1. ProcessOK(q) /\ num[q] \in Nat /\ spent.ops \in Nat /\ num[q] <= spent.ops
    BY DEF DBInv, DBTypeOK, ProcessTypes, ProcessOK
  <2> QED BY <2>1 DEF DBInv, DBTypeOK
<1>2. Active(q)' <=> Active(q)
  BY DEF Same, Active
<1>3. table # "none" => table' # "none"
  BY DEF TableMoves
<1>4. ASSUME Active(q), NEW r \in rows', r.op = num[q] PROVE r.try < tries[q]
  <2>1. CASE r \in rows
    BY <1>1, <1>4, <2>1 DEF ProcessOK
  <2>2. CASE r = NewRow(p)
    <3>1. num[p] = num[q] /\ num[q] > 0
      BY <1>1, <1>4, <2>2, RowsAfter DEF ProcessOK
    <3>2. num[p] = num[q] => p = q \/ num[p] = 0
      BY DEF DBInv
    <3> QED BY <3>1, <3>2
  <2> QED BY <2>1, <2>2, RowsAfter
<1>5. ASSUME tx[q] = "row" PROVE Changes(q)' /\ Active(q)
  <2>1. driver = "postgreSQL" /\ Active(q) /\ Changes(q) /\ table # "none"
    BY <1>1, <1>5 DEF ProcessOK
  <2>2. tx[p] = "row" => p = q
    BY <1>5 DEF DBInv
  <2>3. rows' = rows
    BY <2>1, <2>2 DEF RowsMove
  <2>4. table = "indexed" /\ table' = "indexed"
    BY <1>1, <2>1 DEF TableMoves, DBInv
  <2> QED BY <2>1, <2>3, <2>4 DEF Changes, Outcome, Same
<1> QED BY <1>1, <1>2, <1>3, <1>4, <1>5 DEF ProcessOK, Same

\* No row is added beside another where the index is, or where it soon will be.
LEMMA OneAfter ==
  ASSUME DBInv, NEW p \in Process, RowsMove(p), TableMoves, UNCHANGED driver
  PROVE  /\ driver' = "postgreSQL" \/ table' = "indexed" => One'
         /\ rows' # {} => table' # "none"
         /\ driver' = "postgreSQL" => table' # "bare"
<1>1. /\ table \in {"none", "bare", "indexed"} /\ driver \in {"mongo", "postgreSQL"}
      /\ driver = "postgreSQL" => table # "bare"
      /\ rows # {} => table # "none"
      /\ driver = "postgreSQL" \/ table = "indexed" => One
      /\ Active(p) => table # "none"
  BY DEF DBInv, DBTypeOK, ProcessOK
<1>2. CASE UNCHANGED rows
  BY <1>1, <1>2 DEF TableMoves, One
<1>3. CASE UNCHANGED table /\ Active(p) /\ Changes(p) /\ rows' \in Changed(p)
  <2>1. ASSUME driver = "postgreSQL" \/ table = "indexed" PROVE One'
    <3>1. One /\ table = "indexed"
      BY <1>1, <1>3, <2>1
    <3>2. CASE call[p] = "insert"
      <4>1. rows = {}
        BY <1>3, <3>1, <3>2 DEF Changes, Outcome
      <4>2. rows' = rows \cup {NewRow(p)}
        BY <1>3, <3>2 DEF Changed
      <4> QED BY <4>1, <4>2 DEF One
    <3>3. CASE call[p] = "update"
      <4>1. PICK r \in rows : rows' = (rows \ {r}) \cup {NewRow(p)}
        BY <1>3, <3>3 DEF Changed
      <4> QED BY <3>1, <4>1 DEF One
    <3>4. CASE call[p] = "delete"
      BY <1>3, <3>4 DEF Changed, One
    <3> QED BY <1>3, <3>2, <3>3, <3>4 DEF Changes
  <2> QED BY <1>1, <1>3, <2>1
<1> QED BY <1>2, <1>3 DEF RowsMove, TableMoves

\* A step of p that leaves p as ProcessOK says keeps the invariant.
LEMMA StepKeeps ==
  ASSUME DBInv, NEW p \in Process, UNCHANGED <<driver, style>>, RowsMove(p), TableMoves,
         ProcessTypes', spent' \in [ops : 0 .. MaxOps, faults : 0 .. MaxFaults],
         spent'.ops >= spent.ops,
         \A q \in Process : q # p => Same(q),
         ProcessOK(p)',
         tx'[p] = "row" => tx[p] = "row" \/ \A q \in Process : tx[q] = "row" => q = p,
         num'[p] = num[p] \/ num'[p] > spent.ops
  PROVE  DBInv'
<1>1. /\ spent.ops \in Nat /\ spent'.ops \in Nat
      /\ \A q \in Process : num[q] \in Nat /\ num[q] <= spent.ops /\ num'[q] \in Nat
  BY DBAssumption DEF DBInv, DBTypeOK, ProcessTypes, ProcessOK
<1>2. \A q \in Process : ProcessOK(q)'
  BY <1>1, OthersOK
<1>3. /\ rows' \in SUBSET Row /\ IsFiniteSet(rows') /\ \A r \in rows' : r.op <= spent.ops
  BY RowsAfter
<1>4. table' \in {"none", "bare", "indexed"}
  BY DEF TableMoves, DBInv, DBTypeOK
<1>5. DBTypeOK'
  BY <1>3, <1>4 DEF DBTypeOK, DBInv
<1>6. \A r \in rows' : r.op <= spent'.ops
  <2>1. \A r \in rows' : r.op \in Nat
    BY <1>3 DEF Row
  <2> QED BY <1>1, <1>3, <2>1
<1>7. \A q, r \in Process : tx'[q] = "row" /\ tx'[r] = "row" => q = r
  <2>1. \A q \in Process : q # p => tx'[q] = tx[q]
    BY DEF Same
  <2>2. \A q, r \in Process : tx[q] = "row" /\ tx[r] = "row" => q = r
    BY DEF DBInv
  <2> QED BY <2>1, <2>2
<1>8. \A q, r \in Process : num'[q] = num'[r] => q = r \/ num'[q] = 0
  <2>1. \A q \in Process : q # p => num'[q] = num[q] /\ num[q] <= spent.ops
    BY <1>1 DEF Same
  <2>2. \A q, r \in Process : num[q] = num[r] => q = r \/ num[q] = 0
    BY DEF DBInv
  <2> QED BY <1>1, <2>1, <2>2
<1> QED BY <1>2, <1>5, <1>6, <1>7, <1>8, OneAfter DEF DBInv

-----------------------------------------------------------------------------
(* How the steps of a process leave it. *)

Answers == {"none", "ok", "exists", "missing", "DataBaseError",
            "CollectionAlreadyExisting", "unnamed", "exit"}

Pays == UNCHANGED spent \/ Fault

LEMMA PaysOK ==
  ASSUME DBInv, Pays
  PROVE  /\ spent' \in [ops : 0 .. MaxOps, faults : 0 .. MaxFaults]
         /\ spent'.ops = spent.ops /\ spent.ops \in Nat /\ spent'.ops >= spent.ops
<1>1. spent \in [ops : 0 .. MaxOps, faults : 0 .. MaxFaults] /\ MaxFaults \in Nat /\ MaxOps \in Nat
  BY DBAssumption DEF DBInv, DBTypeOK
<1>2. CASE UNCHANGED spent
  BY <1>1, <1>2
<1>3. CASE Fault
  BY <1>1, <1>3 DEF Fault
<1> QED BY <1>2, <1>3 DEF Pays

\* The state of p after a step that is paid for.
Settled(p) ==
  /\ ProcessTypes' /\ num' = num
  /\ \A q \in Process : q # p => Same(q)
  /\ ProcessOK(p)'

LEMMA SettledKeeps ==
  ASSUME DBInv, NEW p \in Process, UNCHANGED <<driver, style>>, Pays,
         RowsMove(p), TableMoves, Settled(p),
         tx'[p] = "row" => tx[p] = "row" \/ \A q \in Process : tx[q] = "row" => q = p
  PROVE  DBInv'
BY PaysOK, StepKeeps DEF Settled

LEMMA NoLessTable == ASSUME TableMoves, table # "none" PROVE table' # "none"
BY DEF TableMoves

LEMMA QuitsSettled ==
  ASSUME DBInv, NEW p \in Process, Quits(p, "exit"), Pays
  PROVE  Settled(p) /\ tx'[p] # "row"
<1>1. ProcessTypes /\ num[p] <= spent'.ops
  BY PaysOK DEF DBInv, DBTypeOK, ProcessOK
<1>2. /\ pc' = [pc EXCEPT ![p] = "dead"] /\ op' = [op EXCEPT ![p] = "none"]
      /\ answer' = [answer EXCEPT ![p] = "exit"] /\ conn' = [conn EXCEPT ![p] = "none"]
      /\ tx' = [tx EXCEPT ![p] = "none"] /\ UNCHANGED <<call, num, tries>>
  BY DEF Quits, At
<1>3. ProcessTypes'
  BY <1>1, <1>2 DEF ProcessTypes
<1>4. \A q \in Process : q # p => Same(q)
  BY <1>1, <1>2 DEF ProcessTypes, Same
<1>5. pc'[p] = "dead" /\ op'[p] = "none" /\ tx'[p] = "none" /\ num'[p] = num[p]
  BY <1>1, <1>2 DEF ProcessTypes
<1> QED BY <1>1, <1>2, <1>3, <1>4, <1>5 DEF Settled, ProcessOK, Active, OpName

\* An operation, or a start, is over, and no transaction is open.
LEMMA EndedSettled ==
  ASSUME DBInv, NEW p \in Process, Pays, TableMoves,
         pc' = [pc EXCEPT ![p] = "idle"], op' = [op EXCEPT ![p] = "none"],
         NEW a \in Answers, UNCHANGED answer \/ answer' = [answer EXCEPT ![p] = a],
         NEW c \in {"none", "up", "broken"}, UNCHANGED conn \/ conn' = [conn EXCEPT ![p] = c],
         tx' = [tx EXCEPT ![p] = "none"] \/ (UNCHANGED tx /\ tx[p] = "none"),
         UNCHANGED <<call, num, tries>>, table' # "none"
  PROVE  Settled(p) /\ tx'[p] # "row"
<1>1. ProcessTypes /\ num[p] <= spent'.ops
  BY PaysOK DEF DBInv, DBTypeOK, ProcessOK
<1>2. ProcessTypes'
  BY <1>1 DEF ProcessTypes, Answers
<1>3. \A q \in Process : q # p => Same(q)
  BY <1>1 DEF ProcessTypes, Same
<1>4. pc'[p] = "idle" /\ op'[p] = "none" /\ tx'[p] = "none" /\ num'[p] = num[p]
  BY <1>1 DEF ProcessTypes
<1> QED BY <1>1, <1>2, <1>3, <1>4 DEF Settled, ProcessOK, Active, OpName

\* Whoever carries something out has a start or an operation for it.
LEMMA Carrying ==
  ASSUME DBInv, NEW p \in Process, pc[p] \notin {"idle", "dead"}
  PROVE  op[p] = "start" \/ (Active(p) /\ table # "none")
<1>1. ProcessOK(p) /\ ProcessTypes
  BY DEF DBInv, DBTypeOK
<1> QED BY <1>1 DEF ProcessOK, ProcessTypes, Active, OpName

LEMMA FirstCarried ==
  ASSUME NEW k \in OpName
  PROVE  First(k) \in Carries(k) /\ First(k) \in OpName
BY DEF OpName, First, Carries

LEMMA RaisedSettled ==
  ASSUME DBInv, NEW p \in Process, pc[p] \notin {"idle", "dead"}, Pays,
         RowsMove(p), TableMoves, NEW e \in Answers, NEW c \in {"none", "up", "broken"},
         Raised(p, e, c)
  PROVE  Settled(p) /\ tx'[p] # "row"
<1>1. /\ ProcessTypes /\ ProcessOK(p) /\ num[p] <= spent'.ops
      /\ op[p] = "start" \/ (Active(p) /\ table # "none")
  BY PaysOK, Carrying DEF DBInv, DBTypeOK, ProcessOK
<1>2. table # "none" => table' # "none"
  BY NoLessTable
<1>3. \/ /\ pc' = [pc EXCEPT ![p] = IF op[p] = "start" THEN "collect" ELSE "execute"]
         /\ call' = [call EXCEPT ![p] = First(op[p])] /\ tries[p] < MAX_RETRY_TIMES
         /\ tries' = [tries EXCEPT ![p] = @ + 1] /\ UNCHANGED <<op, num, answer>>
         /\ conn' = [conn EXCEPT ![p] = c] /\ tx' = [tx EXCEPT ![p] = "none"]
      \/ Quits(p, "exit")
      \/ /\ op[p] # "start" /\ Ended(p, e) /\ conn' = [conn EXCEPT ![p] = c]
         /\ tx' = [tx EXCEPT ![p] = "none"]
  BY DEF Raised, At
<1>4. CASE Quits(p, "exit")
  BY <1>4, QuitsSettled
<1>5. CASE /\ op[p] # "start" /\ Ended(p, e) /\ conn' = [conn EXCEPT ![p] = c]
           /\ tx' = [tx EXCEPT ![p] = "none"]
  BY <1>1, <1>2, <1>5, EndedSettled DEF Ended, At
<1>6. CASE /\ pc' = [pc EXCEPT ![p] = IF op[p] = "start" THEN "collect" ELSE "execute"]
           /\ call' = [call EXCEPT ![p] = First(op[p])] /\ tries[p] < MAX_RETRY_TIMES
           /\ tries' = [tries EXCEPT ![p] = @ + 1] /\ UNCHANGED <<op, num, answer>>
           /\ conn' = [conn EXCEPT ![p] = c] /\ tx' = [tx EXCEPT ![p] = "none"]
  <2>1. First(op[p]) \in OpName \cup {"start"} /\ (Active(p) => First(op[p]) \in Carries(op[p]))
    BY <1>1, FirstCarried DEF First, Active
  <2>2. tries[p] \in Nat /\ tries[p] + 1 \in 0 .. MAX_RETRY_TIMES
    BY <1>1, <1>6, DBAssumption DEF ProcessTypes
  <2>3. ProcessTypes'
    BY <1>1, <1>6, <2>1, <2>2 DEF ProcessTypes
  <2>4. \A q \in Process : q # p => Same(q)
    BY <1>1, <1>6 DEF ProcessTypes, Same
  <2>5. /\ pc'[p] = IF op[p] = "start" THEN "collect" ELSE "execute"
        /\ call'[p] = First(op[p]) /\ tries'[p] = tries[p] + 1 /\ tx'[p] = "none"
        /\ op'[p] = op[p] /\ num'[p] = num[p]
    BY <1>1, <1>6 DEF ProcessTypes
  <2>6. ASSUME Active(p), NEW r \in rows', r.op = num[p] PROVE r.try < tries[p] + 1
    <3>1. r = NewRow(p) => r.try = tries[p]
      BY RowsAfter
    <3>2. r \in rows => r.try < tries[p]
      BY <1>1, <2>6 DEF ProcessOK
    <3>3. r.try \in Nat
      BY RowsAfter DEF Row
    <3> QED BY <2>2, <3>1, <3>2, <3>3, RowsAfter
  <2>7. Active(p)' <=> Active(p)
    BY <2>5 DEF Active
  <2>8. CASE op[p] = "start"
    <3>1. ~Active(p) /\ pc'[p] = "collect" /\ op'[p] = "start"
      BY <2>5, <2>8 DEF Active, OpName
    <3> QED BY <1>1, <1>6, <2>3, <2>4, <2>5, <2>7, <3>1 DEF Settled, ProcessOK
  <2>9. CASE op[p] # "start"
    <3>1. Active(p) /\ table' # "none" /\ pc'[p] = "execute"
      BY <1>1, <1>2, <2>5, <2>9
    <3> QED BY <1>1, <1>6, <2>1, <2>3, <2>4, <2>5, <2>6, <2>7, <3>1 DEF Settled, ProcessOK
  <2> QED BY <2>8, <2>9
<1> QED BY <1>3, <1>4, <1>5, <1>6

\* A call has ended, and what it changed is committed.
LEMMA ReturnedSettled ==
  ASSUME DBInv, NEW p \in Process, Active(p), Pays, RowsMove(p), TableMoves,
         NEW a \in Answers, Returned(p, a), a = "ok" \/ UNCHANGED rows, UNCHANGED conn,
         tx' = [tx EXCEPT ![p] = "none"] \/ (UNCHANGED tx /\ tx[p] = "none")
  PROVE  Settled(p) /\ tx'[p] # "row"
<1>1. /\ ProcessTypes /\ ProcessOK(p) /\ num[p] <= spent'.ops
      /\ table # "none"
  BY PaysOK DEF DBInv, DBTypeOK, ProcessOK
<1>2. table' # "none"
  BY <1>1, NoLessTable
<1>3. CASE Fallback(p, a) = "none"
  BY <1>1, <1>2, <1>3, EndedSettled DEF Returned, Ended, At, ProcessTypes
<1>4. CASE Fallback(p, a) # "none"
  <2>1. /\ a # "ok" /\ op[p] \in {"save", "modify"}
        /\ Fallback(p, a) \in {"insert", "update"}
    BY <1>4 DEF Fallback
  <2>2. /\ pc' = [pc EXCEPT ![p] = "execute"] /\ call' = [call EXCEPT ![p] = Fallback(p, a)]
        /\ UNCHANGED <<op, num, tries, answer>> /\ rows' = rows
    BY <1>4, <2>1 DEF Returned, At
  <2>3. ProcessTypes'
    BY <1>1, <2>1, <2>2 DEF ProcessTypes, OpName
  <2>4. \A q \in Process : q # p => Same(q)
    BY <1>1, <2>2 DEF ProcessTypes, Same
  <2>5. /\ pc'[p] = "execute" /\ call'[p] \in Carries(op[p]) /\ tx'[p] = "none"
    BY <1>1, <2>1, <2>2 DEF ProcessTypes, Carries
  <2>6. Active(p)'
    BY <2>2 DEF Active
  <2> QED BY <1>1, <1>2, <2>2, <2>3, <2>4, <2>5, <2>6 DEF Settled, ProcessOK
<1> QED BY <1>3, <1>4

\* A start goes on.
LEMMA MovesSettled ==
  ASSUME DBInv, NEW p \in Process, Pays, op[p] = "start",
         NEW l \in {"collect", "create", "make", "index"}, pc' = [pc EXCEPT ![p] = l],
         UNCHANGED <<op, call, num, tries, answer>>,
         UNCHANGED conn \/ conn' = [conn EXCEPT ![p] = "up"],
         \/ UNCHANGED tx /\ tx[p] = "none"
         \/ driver' = "postgreSQL" /\ l = "index" /\ tx' = [tx EXCEPT ![p] = "bare"]
  PROVE  Settled(p) /\ tx'[p] # "row"
<1>1. ProcessTypes /\ num[p] <= spent'.ops
  BY PaysOK DEF DBInv, DBTypeOK, ProcessOK
<1>2. ProcessTypes'
  BY <1>1 DEF ProcessTypes
<1>3. \A q \in Process : q # p => Same(q)
  BY <1>1 DEF ProcessTypes, Same
<1>4. /\ pc'[p] = l /\ op'[p] = "start" /\ num'[p] = num[p]
      /\ tx'[p] = "none" \/ (driver' = "postgreSQL" /\ l = "index" /\ tx'[p] = "bare")
  BY <1>1 DEF ProcessTypes
<1> QED BY <1>1, <1>2, <1>3, <1>4 DEF Settled, ProcessOK, Active, OpName

-----------------------------------------------------------------------------
(* The steps. *)

LEMMA Typed ==
  ASSUME DBInv, NEW p \in Process
  PROVE  /\ driver \in {"mongo", "postgreSQL"} /\ table \in {"none", "bare", "indexed"}
         /\ ProcessTypes /\ ProcessOK(p)
         /\ op[p] = "start" => ~Active(p)
         /\ IsFiniteSet(rows) /\ (Cardinality(rows) <= 1 <=> One)
<1>1. DBTypeOK /\ ProcessOK(p)
  BY DEF DBInv
<1> QED BY <1>1, AtMostOne DEF DBTypeOK, Active, OpName, One

LEMMA AskInv == ASSUME DBInv, NEW p \in Process, Ask(p) PROVE DBInv'
<1>1. /\ ProcessTypes /\ ProcessOK(p) /\ style \in Service
      /\ spent \in [ops : 0 .. MaxOps, faults : 0 .. MaxFaults] /\ spent.ops < MaxOps
      /\ pc[p] = "idle" /\ table # "none" /\ tx[p] = "none"
      /\ \A r \in rows : r.op <= spent.ops
      /\ rows \in SUBSET Row
  BY DEF DBInv, DBTypeOK, Ask, ProcessOK, ProcessTypes
<1>2. PICK k \in Operations :
        op' = [op EXCEPT ![p] = k] /\ call' = [call EXCEPT ![p] = First(k)]
  BY DEF Ask
<1>3. /\ pc' = [pc EXCEPT ![p] = "execute"] /\ tries' = [tries EXCEPT ![p] = 0]
      /\ num' = [num EXCEPT ![p] = spent.ops + 1] /\ answer' = [answer EXCEPT ![p] = "none"]
      /\ spent' = [spent EXCEPT !.ops = @ + 1]
      /\ UNCHANGED <<driver, style, table, rows, conn, tx>>
  BY DEF Ask, At
<1>4. k \in OpName
  BY <1>1 DEF Operations, OpName, Service
<1>5. First(k) \in Carries(k) /\ First(k) \in OpName
  BY <1>4, FirstCarried
<1>6. /\ spent.ops \in Nat /\ spent.ops + 1 \in 0 .. MaxOps /\ 0 \in 0 .. MAX_RETRY_TIMES
      /\ spent' \in [ops : 0 .. MaxOps, faults : 0 .. MaxFaults] /\ spent'.ops = spent.ops + 1
  BY <1>1, <1>3, DBAssumption
<1>7. ProcessTypes'
  BY <1>1, <1>2, <1>3, <1>4, <1>5, <1>6 DEF ProcessTypes
<1>8. \A q \in Process : q # p => Same(q)
  BY <1>1, <1>2, <1>3 DEF ProcessTypes, Same
<1>9. /\ pc'[p] = "execute" /\ op'[p] = k /\ call'[p] = First(k) /\ tries'[p] = 0
      /\ num'[p] = spent.ops + 1 /\ tx'[p] = "none"
  BY <1>1, <1>2, <1>3 DEF ProcessTypes
<1>10. \A r \in rows' : r.op \in Nat /\ r.op # num'[p]
  BY <1>1, <1>3, <1>6, <1>9 DEF Row
<1>11. ProcessOK(p)'
  <2>1. Active(p)' /\ spent.ops + 1 > 0 /\ k # "none" /\ k # "start"
    BY <1>4, <1>6, <1>9 DEF Active, OpName
  <2> QED BY <1>1, <1>3, <1>5, <1>6, <1>9, <1>10, <2>1 DEF ProcessOK
<1>12. spent'.ops >= spent.ops /\ spent.ops + 1 > spent.ops
  BY <1>6
<1> QED BY <1>3, <1>6, <1>7, <1>8, <1>9, <1>11, <1>12, StepKeeps DEF RowsMove, TableMoves

LEMMA RestartInv == ASSUME DBInv, NEW p \in Process, Restart(p) PROVE DBInv'
<1>1. ProcessTypes /\ ProcessOK(p) /\ Pays /\ num[p] <= spent'.ops
  BY PaysOK DEF DBInv, DBTypeOK, Pays, Restart, ProcessOK
<1>2. /\ pc[p] = "dead" /\ pc' = [pc EXCEPT ![p] = "connect"] /\ op' = [op EXCEPT ![p] = "start"]
      /\ tries' = [tries EXCEPT ![p] = 0]
      /\ UNCHANGED <<driver, style, table, rows, call, num, answer, conn, tx, spent>>
  BY DEF Restart, At
<1>3. ProcessTypes'
  BY <1>1, <1>2, DBAssumption DEF ProcessTypes
<1>4. \A q \in Process : q # p => Same(q)
  BY <1>1, <1>2 DEF ProcessTypes, Same
<1>5. /\ pc'[p] = "connect" /\ op'[p] = "start" /\ num'[p] = num[p]
      /\ tx[p] = "none" /\ tx'[p] = "none"
  BY <1>1, <1>2 DEF ProcessTypes, ProcessOK
<1>6. ProcessOK(p)'
  BY <1>1, <1>5 DEF ProcessOK, Active, OpName
<1> QED BY <1>1, <1>2, <1>3, <1>4, <1>5, <1>6, SettledKeeps DEF RowsMove, TableMoves, Settled

LEMMA QuitsInv ==
  ASSUME DBInv, NEW p \in Process, Crash(p) \/ ConnectFails(p)
  PROVE  DBInv'
<1>1. Pays /\ Quits(p, "exit") /\ UNCHANGED <<driver, style, table, rows>>
  BY DEF Crash, ConnectFails, Pays
<1> QED BY <1>1, QuitsSettled, SettledKeeps DEF RowsMove, TableMoves

LEMMA StartsInv ==
  ASSUME DBInv, NEW p \in Process, Connect(p) \/ GetCollection(p)
  PROVE  DBInv'
<1>1. Pays /\ UNCHANGED <<driver, style, table, rows>>
  BY DEF Connect, GetCollection, Pays
<1>2. ProcessTypes /\ ProcessOK(p) /\ op[p] = "start" /\ tx[p] = "none"
  BY Typed DEF Connect, GetCollection, ProcessOK, ProcessTypes
<1>3. CASE Connect(p)
  <2>1. pc' = [pc EXCEPT ![p] = "collect"]
    BY <1>3 DEF Connect, At
  <2>2. Settled(p) /\ tx'[p] # "row"
    BY <1>1, <1>2, <1>3, <2>1, MovesSettled DEF Connect
  <2> QED BY <1>1, <2>2, SettledKeeps DEF RowsMove, TableMoves
<1>4. CASE GetCollection(p) /\ table = "none"
  <2>1. pc' = [pc EXCEPT ![p] = "create"] /\ UNCHANGED <<op, call, num, tries, answer, conn, tx>>
    BY <1>4 DEF GetCollection, Misses, At
  <2>2. Settled(p) /\ tx'[p] # "row"
    BY <1>1, <1>2, <2>1, MovesSettled
  <2> QED BY <1>1, <2>2, SettledKeeps DEF RowsMove, TableMoves
<1>5. CASE GetCollection(p) /\ table # "none"
  <2>1. /\ pc' = [pc EXCEPT ![p] = "idle"] /\ op' = [op EXCEPT ![p] = "none"]
        /\ UNCHANGED <<call, num, tries, answer, conn, tx>>
    BY <1>5 DEF GetCollection, Started, At
  <2>2. Settled(p) /\ tx'[p] # "row"
    BY <1>1, <1>2, <1>5, <2>1, EndedSettled DEF TableMoves, Answers
  <2> QED BY <1>1, <2>2, SettledKeeps DEF RowsMove, TableMoves
<1> QED BY <1>3, <1>4, <1>5

\* A step that ends in an exception.
LEMMA RaisedInv ==
  ASSUME DBInv, NEW p \in Process, UNCHANGED <<driver, style>>, Pays,
         pc[p] \notin {"idle", "dead"}, RowsMove(p), TableMoves,
         NEW e \in Answers, NEW c \in {"none", "up", "broken"}, Raised(p, e, c)
  PROVE  DBInv'
<1>1. Settled(p) /\ tx'[p] # "row"
  BY RaisedSettled
<1> QED BY <1>1, SettledKeeps

LEMMA MongoMakesInv ==
  ASSUME DBInv, NEW p \in Process, MongoList(p) \/ MongoMake(p) \/ MongoIndex(p)
  PROVE  DBInv'
<1>1. /\ driver = "mongo" /\ pc[p] \in {"create", "make", "index"} /\ Pays
      /\ UNCHANGED <<driver, style, rows>> /\ RowsMove(p)
  BY DEF MongoList, MongoMake, MongoIndex, Mongo, Pays, RowsMove
<1>2. /\ ProcessTypes /\ ProcessOK(p) /\ op[p] = "start" /\ tx[p] = "none"
      /\ "CollectionAlreadyExisting" \in Answers /\ "DataBaseError" \in Answers
      /\ Cardinality(rows) <= 1 <=> One
  BY <1>1, Typed DEF ProcessOK, Answers
<1>3. CASE UNCHANGED table /\ \E e \in {"CollectionAlreadyExisting", "DataBaseError"} :
             Raised(p, e, "up")
  BY <1>1, <1>2, <1>3, RaisedInv DEF TableMoves
<1>4. ASSUME NEW l \in {"make", "index"}, At(p, l), TableMoves,
             UNCHANGED <<op, call, num, tries, answer, conn, tx>>
      PROVE  DBInv'
  <2>1. Settled(p) /\ tx'[p] # "row"
    BY <1>1, <1>2, <1>4, MovesSettled DEF At
  <2> QED BY <1>1, <1>4, <2>1, SettledKeeps
<1>5. CASE MongoIndex(p) /\ Cardinality(rows) <= 1
  <2>1. /\ table' = "indexed" /\ TableMoves
        /\ pc' = [pc EXCEPT ![p] = "idle"] /\ op' = [op EXCEPT ![p] = "none"]
        /\ UNCHANGED <<call, num, tries, answer, conn, tx>>
    BY <1>1, <1>2, <1>5 DEF MongoIndex, Started, At, TableMoves
  <2>2. Settled(p) /\ tx'[p] # "row"
    BY <1>1, <1>2, <2>1, EndedSettled DEF Answers
  <2> QED BY <1>1, <2>1, <2>2, SettledKeeps
<1> QED BY <1>1, <1>3, <1>4, <1>5 DEF MongoList, MongoMake, MongoIndex, TableMoves

\* What a call of p does to the rows, and how it ends.
LEMMA TookMoves ==
  ASSUME DBInv, NEW p \in Process, Active(p), driver = "mongo", Took(p)
  PROVE  RowsMove(p) /\ (Outcome(p) = "ok" \/ UNCHANGED rows) /\ Outcome(p) \in Answers
BY DEF Took, RowsMove, Changes, Outcome, Answers

LEMMA MongoCallsInv ==
  ASSUME DBInv, NEW p \in Process, MongoCall(p) \/ MongoIterate(p)
  PROVE  DBInv'
<1>1. /\ driver = "mongo" /\ Pays /\ TableMoves
      /\ UNCHANGED <<driver, style, table, conn, tx>>
  BY DEF MongoCall, MongoIterate, Mongo, Pays, TableMoves
<1>2. ProcessTypes /\ ProcessOK(p) /\ tx[p] = "none" /\ num[p] <= spent'.ops
  BY <1>1, Typed, PaysOK DEF ProcessOK
<1>3. CASE MongoIterate(p)
  <2>1. Active(p) /\ table # "none"
    BY <1>2, <1>3 DEF MongoIterate, Mongo, ProcessOK, Active, OpName
  <2>2. Settled(p) /\ tx'[p] # "row"
    BY <1>1, <1>2, <1>3, <2>1, EndedSettled DEF MongoIterate, Ended, At, Answers
  <2> QED BY <1>1, <1>3, <2>2, SettledKeeps DEF MongoIterate, RowsMove
<1>4. CASE MongoCall(p)
  <2>1. Active(p) /\ table # "none" /\ Took(p) /\ call[p] \in Carries(op[p])
    BY <1>2, <1>4 DEF MongoCall, Mongo, ProcessOK
  <2>2. RowsMove(p) /\ (Outcome(p) = "ok" \/ UNCHANGED rows) /\ Outcome(p) \in Answers
    BY <1>1, <2>1, TookMoves
  <2>3. CASE call[p] # "find_all"
    <3>1. Settled(p) /\ tx'[p] # "row"
      BY <1>1, <1>2, <1>4, <2>1, <2>2, <2>3, ReturnedSettled DEF MongoCall
    <3> QED BY <1>1, <2>2, <3>1, SettledKeeps
  <2>4. CASE call[p] = "find_all"
    <3>1. op[p] = "find_all" /\ rows' = rows
      BY <2>1, <2>4 DEF Active, OpName, Carries, Took, Changes
    <3>2. pc' = [pc EXCEPT ![p] = "iterate"] /\ UNCHANGED <<op, call, num, tries, answer>>
      BY <1>4, <2>4 DEF MongoCall, At
    <3>3. ProcessTypes'
      BY <1>1, <1>2, <3>2 DEF ProcessTypes
    <3>4. \A q \in Process : q # p => Same(q)
      BY <1>1, <1>2, <3>2 DEF ProcessTypes, Same
    <3>5. pc'[p] = "iterate" /\ tx'[p] = "none" /\ Active(p)'
      BY <1>1, <1>2, <2>1, <3>2 DEF ProcessTypes, Active
    <3>6. ProcessOK(p)'
      BY <1>1, <1>2, <2>1, <3>1, <3>2, <3>5 DEF ProcessOK
    <3> QED BY <1>1, <2>2, <3>2, <3>3, <3>4, <3>5, <3>6, SettledKeeps DEF Settled
  <2> QED BY <2>3, <2>4
<1> QED BY <1>3, <1>4

LEMMA MongoFailsInv == ASSUME DBInv, NEW p \in Process, MongoFails(p) PROVE DBInv'
<1>1. /\ driver = "mongo" /\ Pays /\ pc[p] \notin {"idle", "dead"}
      /\ UNCHANGED <<driver, style>>
  BY DEF MongoFails, Pays
<1>2. ProcessTypes /\ ProcessOK(p) /\ (Cardinality(rows) <= 1 <=> One)
  BY <1>1, Typed
<1>3. PICK e \in {"unnamed", "DataBaseError"} : Raised(p, e, "up")
  BY DEF MongoFails
<1>4. TableMoves
  BY <1>1, <1>2 DEF MongoFails, TableMoves
<1>5. RowsMove(p)
  BY <1>1, <1>2 DEF MongoFails, RowsMove, ProcessOK
<1>6. e \in Answers /\ "up" \in {"none", "up", "broken"}
  BY DEF Answers
<1> QED BY <1>1, <1>3, <1>4, <1>5, <1>6, RaisedInv

-----------------------------------------------------------------------------

LEMMA ConnectionInv ==
  ASSUME DBInv, NEW p \in Process,
         Lose(p) \/ Reconnect(p) \/ ReconnectFails(p) \/ NoCursor(p)
  PROVE  DBInv'
<1>1. /\ driver = "postgreSQL" /\ Pays /\ RowsMove(p) /\ TableMoves
      /\ UNCHANGED <<driver, style, table, rows>>
  BY DEF Lose, Reconnect, ReconnectFails, NoCursor, Pays, RowsMove, TableMoves
<1>2. ProcessTypes /\ ProcessOK(p) /\ num[p] <= spent'.ops
  BY <1>1, Typed, PaysOK DEF ProcessOK
<1>3. CASE ReconnectFails(p) \/ NoCursor(p)
  <2>1. pc[p] \notin {"idle", "dead"} /\ \E e \in Answers : Raised(p, e, "none")
    BY <1>3 DEF ReconnectFails, NoCursor, Executing, Answers
  <2> QED BY <1>1, <2>1, RaisedInv
<1>4. CASE Lose(p) \/ Reconnect(p)
  <2>1. /\ UNCHANGED <<pc, op, call, num, tries, answer>>
        /\ \/ conn' = [conn EXCEPT ![p] = "broken"] /\ tx' = [tx EXCEPT ![p] = "none"]
           \/ conn' = [conn EXCEPT ![p] = "up"] /\ UNCHANGED tx /\ pc[p] # "commit"
    BY <1>4 DEF Lose, Reconnect, process, Executing
  <2>2. ProcessTypes'
    BY <1>2, <2>1 DEF ProcessTypes
  <2>3. \A q \in Process : q # p => Same(q)
    BY <1>2, <2>1 DEF ProcessTypes, Same
  <2>4. \/ conn'[p] = "broken" /\ tx'[p] = "none"
        \/ tx'[p] = tx[p] /\ pc[p] # "commit"
    BY <1>2, <2>1 DEF ProcessTypes
  <2>5. ProcessOK(p)'
    BY <1>1, <1>2, <2>1, <2>4 DEF ProcessOK, Active, Changes, Outcome
  <2> QED BY <1>1, <2>1, <2>2, <2>3, <2>4, <2>5, SettledKeeps DEF Settled
<1> QED BY <1>3, <1>4

LEMMA CreatesInv ==
  ASSUME DBInv, NEW p \in Process, CreateTable(p) \/ CreateIndex(p)
  PROVE  DBInv'
<1>1. /\ driver = "postgreSQL" /\ Pays /\ RowsMove(p) /\ TableMoves
      /\ UNCHANGED <<driver, style, table, rows>> /\ pc[p] \in {"create", "index"}
  BY DEF CreateTable, CreateIndex, Postgre, Pays, RowsMove, TableMoves
<1>2. ProcessTypes /\ ProcessOK(p) /\ num[p] <= spent'.ops /\ op[p] = "start"
  BY <1>1, Typed, PaysOK DEF ProcessOK
<1>3. CASE \E e \in {"CollectionAlreadyExisting", "DataBaseError"} : Raised(p, e, "up")
  <2>1. {"CollectionAlreadyExisting", "DataBaseError"} \subseteq Answers
    BY DEF Answers
  <2> QED BY <1>1, <1>3, <2>1, RaisedInv
<1>4. CASE CreateTable(p) /\ table = "none"
  <2>1. /\ tx' = [tx EXCEPT ![p] = "bare"] /\ pc' = [pc EXCEPT ![p] = "index"]
        /\ UNCHANGED <<op, call, num, tries, answer, conn>>
    BY <1>4 DEF CreateTable, At
  <2>2. Settled(p) /\ tx'[p] # "row"
    BY <1>1, <1>2, <2>1, MovesSettled
  <2> QED BY <1>1, <2>2, SettledKeeps
<1>5. CASE CreateIndex(p) /\ (tx[p] = "bare" \/ table # "none")
  <2>1. /\ tx' = [tx EXCEPT ![p] = "indexed"] /\ pc' = [pc EXCEPT ![p] = "commit"]
        /\ UNCHANGED <<op, call, num, tries, answer, conn>>
    BY <1>5 DEF CreateIndex, At
  <2>2. ProcessTypes'
    BY <1>2, <2>1 DEF ProcessTypes
  <2>3. \A q \in Process : q # p => Same(q)
    BY <1>2, <2>1 DEF ProcessTypes, Same
  <2>4. pc'[p] = "commit" /\ tx'[p] = "indexed" /\ op'[p] = "start" /\ num'[p] = num[p]
    BY <1>2, <2>1 DEF ProcessTypes
  <2>5. ProcessOK(p)'
    BY <1>1, <1>2, <2>4 DEF ProcessOK, Active, OpName
  <2> QED BY <1>1, <2>1, <2>2, <2>3, <2>4, <2>5, SettledKeeps DEF Settled
<1> QED BY <1>3, <1>4, <1>5 DEF CreateTable, CreateIndex

LEMMA ExecuteInv == ASSUME DBInv, NEW p \in Process, Execute(p) PROVE DBInv'
<1>1. /\ driver = "postgreSQL" /\ Pays /\ RowsMove(p) /\ TableMoves /\ pc[p] = "execute"
      /\ UNCHANGED <<driver, style, table, rows, conn, spent>> /\ ~Waits(p)
  BY DEF Execute, Postgre, Pays, RowsMove, TableMoves
<1>2. ProcessTypes /\ ProcessOK(p) /\ num[p] <= spent'.ops /\ Active(p) /\ tx[p] = "none"
  BY <1>1, Typed, PaysOK DEF ProcessOK, ProcessTypes
<1>3. CASE ~Changes(p)
  <2>1. Returned(p, Outcome(p)) /\ UNCHANGED tx /\ Outcome(p) \in Answers
    BY <1>3 DEF Execute, Outcome, Answers
  <2>2. Settled(p) /\ tx'[p] # "row"
    BY <1>1, <1>2, <2>1, ReturnedSettled
  <2> QED BY <1>1, <2>2, SettledKeeps
<1>4. CASE Changes(p)
  <2>1. /\ tx' = [tx EXCEPT ![p] = "row"] /\ pc' = [pc EXCEPT ![p] = "commit"]
        /\ UNCHANGED <<op, call, num, tries, answer>>
    BY <1>4 DEF Execute, At
  <2>2. ProcessTypes'
    BY <1>1, <1>2, <2>1 DEF ProcessTypes
  <2>3. \A q \in Process : q # p => Same(q)
    BY <1>1, <1>2, <2>1 DEF ProcessTypes, Same
  <2>4. pc'[p] = "commit" /\ tx'[p] = "row" /\ op'[p] = op[p] /\ num'[p] = num[p]
    BY <1>2, <2>1 DEF ProcessTypes
  <2>5. Active(p)' /\ Changes(p)'
    BY <1>1, <1>2, <1>4, <2>1 DEF Active, Changes, Outcome
  <2>6. ProcessOK(p)'
    BY <1>1, <1>2, <2>1, <2>4, <2>5 DEF ProcessOK
  <2>7. \A q \in Process : tx[q] = "row" => q = p
    BY <1>1, <1>4 DEF Waits
  <2> QED BY <1>1, <2>1, <2>2, <2>3, <2>6, <2>7, SettledKeeps DEF Settled
<1> QED BY <1>3, <1>4

\* What is committed is what the transaction was begun for.
LEMMA AppliedMoves ==
  ASSUME DBInv, NEW p \in Process, driver = "postgreSQL", pc[p] = "commit", conn[p] = "up",
         Applied(p)
  PROVE  /\ RowsMove(p) /\ TableMoves
         /\ \/ op[p] = "start" /\ table' = "indexed" /\ UNCHANGED rows
            \/ Active(p) /\ Changes(p) /\ rows' \in Changed(p) /\ UNCHANGED table
<1>1. ProcessOK(p) /\ One
  BY DEF DBInv
<1>2. CASE tx[p] = "indexed"
  <2>1. table' = "indexed" /\ UNCHANGED rows
    BY <1>2 DEF Applied
  <2> QED BY <1>1, <1>2, <2>1 DEF RowsMove, TableMoves, ProcessOK
<1>3. CASE tx[p] = "row"
  <2>1. rows' \in Changed(p) /\ UNCHANGED table
    BY <1>3 DEF Applied
  <2> QED BY <1>1, <1>3, <2>1 DEF RowsMove, TableMoves, ProcessOK
<1> QED BY <1>1, <1>2, <1>3 DEF ProcessOK

LEMMA CommitsInv ==
  ASSUME DBInv, NEW p \in Process, Commit(p) \/ CommitFails(p) \/ AnswerLost(p)
  PROVE  DBInv'
<1>1. /\ driver = "postgreSQL" /\ Pays /\ pc[p] = "commit" /\ UNCHANGED <<driver, style>>
  BY DEF Commit, CommitFails, AnswerLost, Postgre, Pays
<1>2. ProcessTypes /\ ProcessOK(p) /\ "DataBaseError" \in Answers /\ "ok" \in Answers
  BY Typed DEF Answers
<1>3. CASE CommitFails(p)
  BY <1>1, <1>2, <1>3, RaisedInv DEF CommitFails, RowsMove, TableMoves
<1>4. CASE AnswerLost(p)
  BY <1>1, <1>2, <1>4, AppliedMoves, RaisedInv DEF AnswerLost
<1>5. CASE Commit(p)
  <2>1. /\ RowsMove(p) /\ TableMoves
        /\ \/ op[p] = "start" /\ table' = "indexed" /\ UNCHANGED rows
           \/ Active(p) /\ Changes(p) /\ rows' \in Changed(p) /\ UNCHANGED table
    BY <1>1, <1>5, AppliedMoves DEF Commit
  <2>2. tx' = [tx EXCEPT ![p] = "none"] /\ UNCHANGED <<conn, spent>>
    BY <1>5 DEF Commit
  <2>3. CASE op[p] = "start"
    <3>1. /\ pc' = [pc EXCEPT ![p] = "idle"] /\ op' = [op EXCEPT ![p] = "none"]
          /\ UNCHANGED <<call, num, tries, answer>>
      BY <1>5, <2>3 DEF Commit, Started, At
    <3>2. table' # "none"
      BY <2>1, <2>3, Typed
    <3>3. Settled(p) /\ tx'[p] # "row"
      BY <1>1, <1>2, <2>1, <2>2, <3>1, <3>2, EndedSettled
    <3> QED BY <1>1, <2>1, <3>3, SettledKeeps
  <2>4. CASE op[p] # "start"
    <3>1. Returned(p, "ok") /\ Active(p)
      BY <1>5, <2>1, <2>4 DEF Commit
    <3>2. Settled(p) /\ tx'[p] # "row"
      BY <1>1, <1>2, <2>1, <2>2, <3>1, ReturnedSettled
    <3> QED BY <1>1, <2>1, <3>2, SettledKeeps
  <2> QED BY <2>3, <2>4
<1> QED BY <1>3, <1>4, <1>5

LEMMA DBInitInv == DBInit => DBInv
<1> SUFFICES ASSUME DBInit PROVE DBInv
  OBVIOUS
<1>1. ProcessTypes
  BY DBAssumption DEF DBInit, ProcessTypes
<1>2. DBTypeOK /\ rows = {}
  BY <1>1, FS_EmptySet, DBAssumption DEF DBInit, DBTypeOK, Service
<1>3. ASSUME NEW p \in Process
      PROVE  ProcessOK(p) /\ tx[p] = "none" /\ num[p] = 0
  BY DBAssumption DEF DBInit, ProcessOK, Active, OpName
<1> QED BY <1>2, <1>3 DEF DBInit, DBInv, One, Service

LEMMA DBStep == ASSUME DBInv, [DBNext]_dbVars PROVE DBInv'
<1>1. CASE DBNext
  <2>1. PICK p \in Process : Ask(p) \/ Restart(p) \/ Works(p) \/ Fails(p)
    BY <1>1 DEF DBNext
  <2>2. CASE Works(p)
    BY <2>2, StartsInv, MongoMakesInv, MongoCallsInv, ConnectionInv, CreatesInv, ExecuteInv,
       CommitsInv DEF Works
  <2>3. CASE Fails(p)
    BY <2>3, QuitsInv, MongoFailsInv, ConnectionInv, CommitsInv DEF Fails
  <2> QED BY <2>1, <2>2, <2>3, AskInv, RestartInv
<1>2. CASE UNCHANGED dbVars
  BY <1>2 DEF dbVars, DBInv, DBTypeOK, ProcessTypes, ProcessOK, One, Active, Changes, Outcome
<1> QED BY <1>1, <1>2

LEMMA DBAlways == DBSpec => []DBInv
BY DBInitInv, DBStep, PTL DEF DBSpec

\* An id has one row, however many processes insert, retry, lose their answers and
\* start again, but in a MongoDB collection that is still, or for good, without the
\* unique index.
THEOREM RowsAreUnique == DBSpec => []OneRowEach
<1>1. DBInv => OneRowEach
  <2> SUFFICES ASSUME DBInv, ~(driver = "mongo" /\ table = "bare") PROVE ~(Cardinality(rows) > 1)
    BY DEF OneRowEach
  <2>1. One \/ rows = {}
    BY DEF DBInv, DBTypeOK
  <2>2. IsFiniteSet(rows) /\ \A r, s \in rows : r = s
    BY <2>1 DEF One, DBInv, DBTypeOK
  <2> QED BY <2>2, AtMostOne
<1> QED BY <1>1, DBAlways, PTL

-----------------------------------------------------------------------------
(* What the interface promises. *)

StoreOp == [p \in Process |-> IF op[p] = "start" THEN "none" ELSE op[p]]
Indexed == table = "indexed"

PromiseKept == [Kept!StoreNext]_Kept!storeVars
Over(p, a) == StoreOp' = [StoreOp EXCEPT ![p] = "none"] /\ answer' = [answer EXCEPT ![p] = a]

LEMMA OpSeen ==
  ASSUME DBInv, NEW p \in Process
  PROVE  /\ Active(p) => StoreOp[p] = op[p]
         /\ op' = [op EXCEPT ![p] = "none"] => StoreOp' = [StoreOp EXCEPT ![p] = "none"]
         /\ op' = [op EXCEPT ![p] = "none"] /\ op[p] = "start" => StoreOp' = StoreOp
         /\ op' = [op EXCEPT ![p] = "start"] /\ op[p] = "none" => StoreOp' = StoreOp
         /\ \A k \in OpName : op' = [op EXCEPT ![p] = k] => StoreOp' = [StoreOp EXCEPT ![p] = k]
<1>1. op \in [Process -> OpName \cup {"none", "start"}] /\ "start" \notin OpName
  BY DEF DBInv, DBTypeOK, ProcessTypes, OpName
<1> QED BY <1>1 DEF StoreOp, Active

LEMMA Stutters ==
  ASSUME UNCHANGED <<rows, Indexed, StoreOp, answer>>
  PROVE  PromiseKept
BY DEF PromiseKept, Kept!storeVars, StoreOp, Indexed

LEMMA FailsAsKept ==
  ASSUME NEW p \in Process, NEW a \in {"DataBaseError", "unnamed", "exit"}, Over(p, a),
         UNCHANGED <<rows, Indexed>>
  PROVE  PromiseKept
BY DEF PromiseKept, Kept!StoreNext, Kept!Failed, Kept!Ends, Kept!Failure, Over, StoreOp, Indexed

\* Seen from the interface an exception leads to another try, or ends the operation.
LEMMA RaisedSeen ==
  ASSUME DBInv, NEW p \in Process, pc[p] \notin {"idle", "dead"},
         NEW e, NEW c, Raised(p, e, c),
         e \in {"DataBaseError", "unnamed"} \/ op[p] = "start"
  PROVE  \/ UNCHANGED <<StoreOp, answer>>
         \/ \E a \in {"DataBaseError", "unnamed", "exit"} : Over(p, a)
<1>1. op[p] = "start" \/ Active(p)
  BY Carrying
<1>2. \/ UNCHANGED <<op, answer>>
      \/ Quits(p, "exit")
      \/ Ended(p, e) /\ op[p] # "start"
  BY DEF Raised
<1> QED BY <1>1, <1>2, OpSeen DEF Quits, Ended, Over, StoreOp

LEMMA RaisedKept ==
  ASSUME DBInv, NEW p \in Process, pc[p] \notin {"idle", "dead"},
         NEW e, NEW c, Raised(p, e, c), UNCHANGED <<rows, Indexed>>,
         e \in {"DataBaseError", "unnamed"} \/ op[p] = "start"
  PROVE  PromiseKept
BY RaisedSeen, Stutters, FailsAsKept

\* A call that changes rows has the effect that its operation is asked for, if not
\* earlier then now: what it writes was not there.
LEMMA CallEffect ==
  ASSUME DBInv, NEW p \in Process, Active(p), Changes(p), rows' \in Changed(p)
  PROVE  Kept!Effect(op[p])
<1>1. /\ call[p] \in Carries(op[p]) /\ op[p] \in OpName
      /\ \A r \in rows : r.op = num[p] => r.try < tries[p]
      /\ num[p] \in 0 .. MaxOps /\ tries[p] \in 0 .. MAX_RETRY_TIMES
      /\ MAX_RETRY_TIMES \in Nat
  BY DBAssumption DEF DBInv, DBTypeOK, ProcessTypes, ProcessOK, Active
<1>2. NewRow(p) \in Row /\ NewRow(p).op = num[p] /\ NewRow(p).try = tries[p]
  BY <1>1 DEF NewRow, Row
<1>3. NewRow(p) \notin rows
  BY <1>1, <1>2
<1>4. CASE call[p] = "insert"
  <2>1. rows' = rows \cup {NewRow(p)} /\ (table = "indexed" => rows = {})
    BY <1>4 DEF Changes, Changed, Outcome
  <2>2. Kept!Added
    BY <1>2, <1>3, <2>1 DEF Kept!Added, Row
  <2>3. op[p] \in {"insert", "save", "modify"}
    BY <1>1, <1>4 DEF Carries
  <2> QED BY <2>2, <2>3 DEF Kept!Effect
<1>5. CASE call[p] = "update"
  <2>1. PICK r \in rows : rows' = (rows \ {r}) \cup {NewRow(p)}
    BY <1>5 DEF Changed
  <2>2. Kept!Changed
    BY <1>2, <2>1 DEF Kept!Changed, Row
  <2>3. op[p] \in {"update", "save", "modify"}
    BY <1>1, <1>5 DEF Carries
  <2> QED BY <2>2, <2>3 DEF Kept!Effect
<1>6. CASE call[p] = "delete"
  <2>1. rows' = {} /\ op[p] = "delete"
    BY <1>1, <1>6 DEF Changed, Carries
  <2> QED BY <2>1 DEF Kept!Effect
<1> QED BY <1>4, <1>5, <1>6 DEF Changes

\* It is answered well, or its answer is lost.
LEMMA AnsweredKept ==
  ASSUME NEW p \in Process, Kept!Effect(StoreOp[p]), UNCHANGED table,
         \/ Over(p, "ok") \/ UNCHANGED <<StoreOp, answer>>
         \/ \E a \in {"DataBaseError", "unnamed", "exit"} : Over(p, a)
  PROVE  PromiseKept
<1>1. CASE Over(p, "ok")
  BY <1>1 DEF PromiseKept, Kept!StoreNext, Kept!Done, Kept!Ends, Over, StoreOp
<1>2. CASE UNCHANGED <<StoreOp, answer>>
  BY <1>2 DEF PromiseKept, Kept!StoreNext, Kept!Unanswered, StoreOp
<1>3. CASE \E a \in {"DataBaseError", "unnamed", "exit"} : Over(p, a)
  BY <1>3 DEF PromiseKept, Kept!StoreNext, Kept!Unanswered, Kept!Ends, Kept!Failure, Over, StoreOp
<1> QED BY <1>1, <1>2, <1>3

\* A call that changes nothing is answered for what the collection holds.
LEMMA UnchangedKept ==
  ASSUME DBInv, NEW p \in Process, Active(p), ~Changes(p), Returned(p, Outcome(p)),
         UNCHANGED <<rows, table>>
  PROVE  PromiseKept
<1>1. call[p] \in Carries(op[p]) /\ op[p] \in OpName /\ StoreOp[p] = op[p]
  BY OpSeen DEF DBInv, ProcessOK, Active
<1>2. CASE Fallback(p, Outcome(p)) # "none"
  BY <1>2, Stutters DEF Returned, StoreOp, Indexed
<1>3. CASE Fallback(p, Outcome(p)) = "none"
  <2>1. Over(p, Outcome(p))
    BY <1>3, OpSeen DEF Returned, Ended, Over
  <2>2. CASE Outcome(p) = "ok"
    <3>1. \/ op[p] = "find_all"
          \/ op[p] = "delete" /\ rows' = {}
          \/ op[p] \in {"find_one", "exist"} /\ rows # {}
      <4>1. /\ call[p] \in {"find_one", "find_all", "delete"}
            /\ call[p] = "delete" => rows = {}
            /\ call[p] = "find_one" => rows # {}
        <5>1. call[p] \in {"insert", "update", "find_one", "find_all", "delete"}
          BY <1>1 DEF Carries, OpName
        <5> QED BY <2>2, <5>1 DEF Changes, Outcome
      <4>2. /\ call[p] = "find_one" => op[p] \in {"find_one", "exist"}
            /\ call[p] = "find_all" => op[p] = "find_all"
            /\ call[p] = "delete" => op[p] = "delete"
        BY <1>1 DEF Carries
      <4> QED BY <4>1, <4>2
    <3>2. Kept!Done(p)
      BY <1>1, <2>1, <2>2, <3>1 DEF Kept!Done, Kept!Effect, Kept!Ends, Over, StoreOp
    <3> QED BY <3>2 DEF PromiseKept, Kept!StoreNext
  <2>3. CASE Outcome(p) # "ok"
    <3>1. \/ /\ Outcome(p) = "exists" /\ op[p] \in {"insert", "modify"}
             /\ rows # {} /\ table = "indexed"
          \/ /\ Outcome(p) = "missing" /\ op[p] \in {"update", "find_one", "exist", "save"}
             /\ rows = {}
      BY <1>1, <1>3, <2>3 DEF Fallback, Outcome, Carries, OpName
    <3>2. Kept!Refused(p)
      BY <1>1, <2>1, <3>1 DEF Kept!Refused, Kept!Ends, Over, StoreOp
    <3> QED BY <3>2 DEF PromiseKept, Kept!StoreNext
  <2> QED BY <2>2, <2>3
<1> QED BY <1>2, <1>3

\* The index is made where there is one row at most; whoever made it may not learn it.
LEMMA MadeKept ==
  ASSUME DBInv, One, table' = "indexed", UNCHANGED rows, NEW p \in Process,
         \/ UNCHANGED <<StoreOp, answer>>
         \/ \E a \in {"DataBaseError", "unnamed", "exit"} : Over(p, a)
  PROVE  PromiseKept
<1>1. \A r, s \in rows : r = s
  BY DEF One
<1>2. (table' = "indexed") = TRUE
  OBVIOUS
<1>3. CASE UNCHANGED <<StoreOp, answer>>
  BY <1>1, <1>2, <1>3 DEF PromiseKept, Kept!StoreNext, Kept!MadeUnique, StoreOp
<1>4. CASE \E a \in {"DataBaseError", "unnamed", "exit"} : Over(p, a)
  BY <1>1, <1>2, <1>4 DEF PromiseKept, Kept!StoreNext, Kept!MadeUnique, Kept!Ends, Kept!Failure, Over, StoreOp
<1> QED BY <1>3, <1>4

LEMMA ServicesKept ==
  ASSUME DBInv, NEW p \in Process,
         Ask(p) \/ Restart(p) \/ Crash(p) \/ ConnectFails(p) \/ Connect(p) \/ GetCollection(p)
  PROVE  PromiseKept
<1>1. ProcessOK(p) /\ style \in Service /\ UNCHANGED <<rows, table>>
  BY DEF DBInv, DBTypeOK, Ask, Restart, Crash, ConnectFails, Connect, GetCollection
<1>2. CASE Ask(p)
  <2>1. PICK k \in Operations : op' = [op EXCEPT ![p] = k]
    BY <1>2 DEF Ask
  <2>2. k \in OpName
    BY <1>1 DEF Operations, Service, OpName
  <2>3. StoreOp' = [StoreOp EXCEPT ![p] = k] /\ k \in Kept!Reading \cup Kept!Writing
    BY <2>1, <2>2, OpSeen DEF OpName, Kept!Reading, Kept!Writing
  <2>4. StoreOp[p] = "none" /\ answer' = [answer EXCEPT ![p] = "none"]
    BY <1>1, <1>2 DEF Ask, ProcessOK, StoreOp
  <2>5. Kept!Ask(p)
    BY <1>1, <2>3, <2>4 DEF Kept!Ask, StoreOp
  <2> QED BY <2>5 DEF PromiseKept, Kept!StoreNext
<1>3. CASE Restart(p)
  <2>1. op[p] = "none" /\ op' = [op EXCEPT ![p] = "start"] /\ answer' = answer
    BY <1>1, <1>3 DEF Restart, ProcessOK
  <2> QED BY <1>1, <2>1, OpSeen, Stutters DEF Indexed
<1>4. CASE Crash(p) \/ ConnectFails(p)
  <2>1. op' = [op EXCEPT ![p] = "none"] /\ answer' = [answer EXCEPT ![p] = "exit"]
    BY <1>4 DEF Crash, ConnectFails, Quits
  <2> QED BY <1>1, <2>1, OpSeen, FailsAsKept DEF Over, Indexed
<1>5. CASE Connect(p) \/ GetCollection(p)
  <2>1. op[p] = "start" /\ answer' = answer /\ (op' = op \/ op' = [op EXCEPT ![p] = "none"])
    BY <1>1, <1>5 DEF Connect, GetCollection, Misses, Started, ProcessOK
  <2>2. StoreOp' = StoreOp
    BY <2>1, OpSeen DEF StoreOp
  <2> QED BY <1>1, <2>1, <2>2, Stutters DEF Indexed
<1> QED BY <1>2, <1>3, <1>4, <1>5

LEMMA MongoKept ==
  ASSUME DBInv, NEW p \in Process,
         MongoList(p) \/ MongoMake(p) \/ MongoIndex(p) \/ MongoCall(p) \/ MongoIterate(p)
  PROVE  PromiseKept
<1>1. ProcessOK(p) /\ driver = "mongo" /\ pc[p] \notin {"idle", "dead"}
      /\ (Cardinality(rows) <= 1 <=> One)
  BY Typed DEF MongoList, MongoMake, MongoIndex, MongoCall, MongoIterate, Mongo
<1>2. CASE MongoList(p) \/ MongoMake(p)
  <2>1. /\ op[p] = "start" /\ UNCHANGED rows
        /\ UNCHANGED table \/ (table = "none" /\ table' = "bare")
        /\ \/ UNCHANGED <<op, answer>>
           \/ \E e : Raised(p, e, "up")
    BY <1>1, <1>2 DEF MongoList, MongoMake, Mongo, ProcessOK
  <2>2. UNCHANGED Indexed
    BY <2>1 DEF Indexed
  <2> QED BY <1>1, <2>1, <2>2, Stutters, RaisedKept DEF StoreOp
<1>3. CASE MongoIndex(p)
  <2>1. op[p] = "start" /\ UNCHANGED rows
    BY <1>1, <1>3 DEF MongoIndex, Mongo, ProcessOK
  <2>2. CASE Cardinality(rows) <= 1
    <3>1. table' = "indexed" /\ op' = [op EXCEPT ![p] = "none"] /\ answer' = answer
      BY <1>3, <2>2 DEF MongoIndex, Started
    <3>2. StoreOp' = StoreOp
      BY <2>1, <3>1, OpSeen
    <3> QED BY <1>1, <2>1, <2>2, <3>1, <3>2, MadeKept
  <2>3. CASE ~(Cardinality(rows) <= 1)
    BY <1>1, <1>3, <2>1, <2>3, RaisedKept DEF MongoIndex, Indexed
  <2> QED BY <2>2, <2>3
<1>4. CASE MongoCall(p)
  <2>1. /\ Active(p) /\ Took(p) /\ UNCHANGED table
        /\ \/ call[p] = "find_all" /\ UNCHANGED <<op, answer>>
           \/ Returned(p, Outcome(p))
    BY <1>1, <1>4 DEF MongoCall, Mongo, ProcessOK
  <2>2. CASE call[p] = "find_all" /\ UNCHANGED <<op, answer>>
    <3>1. rows' = rows
      BY <2>1, <2>2 DEF Took, Changes
    <3> QED BY <2>1, <2>2, <3>1, Stutters DEF StoreOp, Indexed
  <2>3. CASE Returned(p, Outcome(p)) /\ ~Changes(p)
    BY <2>1, <2>3, UnchangedKept DEF Took
  <2>4. CASE Returned(p, Outcome(p)) /\ Changes(p)
    <3>1. Kept!Effect(op[p]) /\ StoreOp[p] = op[p]
      BY <2>1, <2>4, CallEffect, OpSeen DEF Took
    <3>2. Fallback(p, Outcome(p)) = "none" /\ Outcome(p) = "ok"
      BY <2>4 DEF Changes, Fallback
    <3>3. Over(p, "ok")
      BY <2>4, <3>2, OpSeen DEF Returned, Ended, Over
    <3> QED BY <2>1, <3>1, <3>3, AnsweredKept
  <2> QED BY <2>1, <2>2, <2>3, <2>4
<1>5. CASE MongoIterate(p)
  <2>1. /\ op[p] = "find_all" /\ Active(p) /\ UNCHANGED <<rows, table>>
        /\ Ended(p, "ok")
    BY <1>1, <1>5 DEF MongoIterate, Mongo, ProcessOK, Active, OpName
  <2>2. Over(p, "ok") /\ StoreOp[p] = "find_all"
    BY <2>1, OpSeen DEF Ended, Over
  <2>3. Kept!Done(p)
    BY <2>1, <2>2 DEF Kept!Done, Kept!Ends, Over, StoreOp
  <2> QED BY <2>3 DEF PromiseKept, Kept!StoreNext
<1> QED BY <1>2, <1>3, <1>4, <1>5

LEMMA MongoFailsKept == ASSUME DBInv, NEW p \in Process, MongoFails(p) PROVE PromiseKept
<1>1. /\ ProcessOK(p) /\ pc[p] \notin {"idle", "dead"}
      /\ (Cardinality(rows) <= 1 <=> One)
  BY Typed DEF MongoFails
<1>2. PICK e \in {"unnamed", "DataBaseError"} : Raised(p, e, "up")
  BY DEF MongoFails
<1>3. \/ UNCHANGED <<StoreOp, answer>>
      \/ \E a \in {"DataBaseError", "unnamed", "exit"} : Over(p, a)
  BY <1>1, <1>2, RaisedSeen
<1>4. \/ UNCHANGED <<table, rows>>
      \/ table = "none" /\ table' = "bare" /\ UNCHANGED rows
      \/ One /\ table' = "indexed" /\ UNCHANGED rows
      \/ Active(p) /\ Changes(p) /\ rows' \in Changed(p) /\ UNCHANGED table
  BY <1>1 DEF MongoFails, ProcessOK
<1>5. CASE UNCHANGED <<table, rows>> \/ (table = "none" /\ table' = "bare" /\ UNCHANGED rows)
  BY <1>1, <1>2, <1>5, RaisedKept DEF Indexed
<1>6. CASE One /\ table' = "indexed" /\ UNCHANGED rows
  BY <1>3, <1>6, MadeKept
<1>7. CASE Active(p) /\ Changes(p) /\ rows' \in Changed(p) /\ UNCHANGED table
  <2>1. Kept!Effect(op[p]) /\ StoreOp[p] = op[p]
    BY <1>7, CallEffect, OpSeen
  <2> QED BY <1>3, <1>7, <2>1, AnsweredKept
<1> QED BY <1>4, <1>5, <1>6, <1>7

LEMMA PostgreKept ==
  ASSUME DBInv, NEW p \in Process,
         \/ Lose(p) \/ Reconnect(p) \/ ReconnectFails(p) \/ NoCursor(p)
         \/ CreateTable(p) \/ CreateIndex(p) \/ Execute(p) \/ CommitFails(p)
  PROVE  PromiseKept
<1>1. ProcessOK(p) /\ driver = "postgreSQL" /\ UNCHANGED <<rows, table>>
  BY Typed DEF Lose, Reconnect, ReconnectFails, NoCursor, CreateTable, CreateIndex, Execute,
               CommitFails, Postgre
<1>2. UNCHANGED Indexed
  BY <1>1 DEF Indexed
<1>3. CASE UNCHANGED <<op, answer>>
  BY <1>1, <1>2, <1>3, Stutters DEF StoreOp
<1>4. CASE /\ pc[p] \in {"collect", "create", "index", "execute", "commit"}
           /\ \E e, c : /\ Raised(p, e, c)
                        /\ e \in {"DataBaseError", "unnamed"} \/ op[p] = "start"
  BY <1>1, <1>2, <1>4, RaisedKept
<1>5. CASE Execute(p) /\ ~Changes(p)
  BY <1>1, <1>5, UnchangedKept DEF Execute, Postgre, ProcessOK
<1>6. CASE ReconnectFails(p) \/ NoCursor(p) \/ CommitFails(p)
  BY <1>4, <1>6 DEF ReconnectFails, NoCursor, CommitFails, Executing, Postgre
<1>7. CASE CreateTable(p) \/ CreateIndex(p)
  <2>1. op[p] = "start" /\ pc[p] \in {"create", "index"}
    BY <1>1, <1>7 DEF CreateTable, CreateIndex, Postgre, ProcessOK
  <2> QED BY <1>3, <1>4, <1>7, <2>1 DEF CreateTable, CreateIndex
<1> QED BY <1>3, <1>5, <1>6, <1>7 DEF Lose, Reconnect, Execute, process

LEMMA CommitsKept ==
  ASSUME DBInv, NEW p \in Process, Commit(p) \/ AnswerLost(p)
  PROVE  PromiseKept
<1>1. /\ driver = "postgreSQL" /\ pc[p] = "commit" /\ conn[p] = "up" /\ Applied(p)
      /\ One
  BY DEF Commit, AnswerLost, Postgre, DBInv
<1>2. \/ op[p] = "start" /\ table' = "indexed" /\ UNCHANGED rows
      \/ Active(p) /\ Changes(p) /\ rows' \in Changed(p) /\ UNCHANGED table
  BY <1>1, AppliedMoves
<1>3. ASSUME AnswerLost(p)
      PROVE  \/ UNCHANGED <<StoreOp, answer>>
             \/ \E a \in {"DataBaseError", "unnamed", "exit"} : Over(p, a)
  BY <1>1, <1>3, RaisedSeen DEF AnswerLost
<1>4. CASE op[p] = "start" /\ table' = "indexed" /\ UNCHANGED rows
  <2>1. Commit(p) => UNCHANGED <<StoreOp, answer>>
    BY <1>4, OpSeen DEF Commit, Started
  <2> QED BY <1>1, <1>3, <1>4, <2>1, MadeKept
<1>5. CASE Active(p) /\ Changes(p) /\ rows' \in Changed(p) /\ UNCHANGED table
  <2>1. Kept!Effect(op[p]) /\ StoreOp[p] = op[p] /\ op[p] # "start"
    BY <1>5, CallEffect, OpSeen DEF Active, OpName
  <2>2. Commit(p) => Over(p, "ok")
    BY <2>1, OpSeen DEF Commit, Returned, Fallback, Ended, Over
  <2> QED BY <1>3, <1>5, <2>1, <2>2, AnsweredKept
<1> QED BY <1>2, <1>4, <1>5

\* Whatever connections, answers and processes are lost, the drivers and the tries of
\* the services do what the interface promises: an operation that ends well has taken
\* effect once and then, and one that fails at most before it ends.
THEOREM StoreIsKept == DBSpec => KeepsStore
<1>1. DBInit => Kept!StoreInit
  <2> SUFFICES ASSUME DBInit PROVE Kept!StoreInit
    OBVIOUS
  <2>1. StoreOp = [p \in Process |-> "none"]
    BY DEF DBInit, StoreOp
  <2>2. (table = "indexed") \in BOOLEAN
    OBVIOUS
  <2> QED BY <2>1, <2>2 DEF DBInit, Kept!StoreInit, StoreOp
<1>2. DBInv /\ [DBNext]_dbVars => PromiseKept
  <2> SUFFICES ASSUME DBInv, [DBNext]_dbVars PROVE PromiseKept
    OBVIOUS
  <2>1. CASE UNCHANGED dbVars
    BY <2>1, Stutters DEF dbVars, StoreOp, Indexed
  <2>2. ASSUME NEW p \in Process, Ask(p) \/ Restart(p) \/ Works(p) \/ Fails(p)
        PROVE  PromiseKept
    BY <2>2, ServicesKept, MongoKept, MongoFailsKept, PostgreKept, CommitsKept DEF Works, Fails
  <2> QED BY <2>1, <2>2 DEF DBNext
<1> QED BY <1>1, <1>2, DBAlways, PTL DEF DBSpec, KeepsStore, Kept!StoreSpec, PromiseKept

==============================================================================
