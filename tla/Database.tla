------------------------------- MODULE Database -------------------------------
(***************************************************************************)
(* The two drivers of libs/db, for MongoDB and for PostgreSQL, under the   *)
(* services that keep their state with them: TaskDao of the client agent,  *)
(* DBAdaptor of the model manager, and the calls of the job scheduler and  *)
(* of the resource manager, whose collections are there before them.       *)
(* The servers are external: a MongoDB call is atomic, PostgreSQL has      *)
(* transactions that wait for each other and end with their connection.    *)
(* The model follows the rows of one id in one collection. A process is    *)
(* one thread with its own connection; a transaction that only reads, or   *)
(* that changes nothing, is left out.                                      *)
(***************************************************************************)
EXTENDS Integers, FiniteSets

CONSTANTS
  Process,
  MAX_RETRY_TIMES,  \* how often a service tries again
  MaxOps,           \* bound on operations
  MaxFaults         \* bound on lost connections, refused ones, failed calls and crashes

ASSUME DBAssumption ==
  IsFiniteSet(Process) /\ MAX_RETRY_TIMES \in Nat /\ MaxOps \in Nat /\ MaxFaults \in Nat

VARIABLES
  driver,  \* db_type
  style,   \* the service
  table,   \* the collection: "none", "bare" without its unique index, "indexed"
  rows,    \* its rows with the id
  pc, op, call, num, tries, answer,  \* for each process: see DBInit
  conn,    \* its connection: "none", "up", or "broken" and not yet found to be
  tx,      \* its open transaction: "none", what it creates, or "row"
  spent

dbVars == <<driver, style, table, rows, pc, op, call, num, tries, answer, conn, tx, spent>>
process == <<pc, op, call, num, tries, answer>>

Service == {"TaskDao", "DBAdaptor", "Scheduler", "ResourceManager"}

DBInit ==
  /\ driver \in {"mongo", "postgreSQL"} /\ style \in Service
  /\ table = IF style \in {"TaskDao", "DBAdaptor"} THEN "none" ELSE "indexed"
  /\ rows = {}
  /\ pc = [p \in Process |-> "connect"]    \* where it is
  /\ op = [p \in Process |-> "start"]      \* the operation it carries out
  /\ call = [p \in Process |-> "none"]     \* the call of the driver it makes for it
  /\ num = [p \in Process |-> 0]           \* the number of the operation
  /\ tries = [p \in Process |-> 0]         \* how often it has failed
  /\ answer = [p \in Process |-> "none"]
  /\ conn = [p \in Process |-> "none"] /\ tx = [p \in Process |-> "none"]
  /\ spent = [ops |-> 0, faults |-> 0]

Fault == spent.faults < MaxFaults /\ spent' = [spent EXCEPT !.faults = @ + 1]

-----------------------------------------------------------------------------
(* The services. *)

Operations ==
  CASE style = "TaskDao"         -> {"insert", "update", "find_one", "find_all"}
    [] style = "DBAdaptor"       -> {"save", "modify", "delete", "exist", "find_all"}
    [] style = "Scheduler"       -> {"insert", "update", "delete", "find_one", "find_all"}
    [] style = "ResourceManager" -> {"save", "delete", "find_all"}

First(k) ==
  CASE k = "save" -> "insert" [] k = "modify" -> "update" [] k = "exist" -> "find_one" [] OTHER -> k

\* Is a DataBaseError followed by another try?
Retried(k) ==
  CASE style = "TaskDao"         -> FALSE
    [] style = "DBAdaptor"       -> TRUE
    [] style = "Scheduler"       -> k \notin {"start", "find_all"}
    [] style = "ResourceManager" -> k = "save"

\* The call that follows when one ends in this way, or "none".
Fallback(p, a) ==
  CASE op[p] = "save" /\ call[p] = "insert" /\ a = "exists"    -> "update"
    [] op[p] = "modify" /\ call[p] = "update" /\ a = "missing" -> "insert"
    [] OTHER                                                   -> "none"

At(p, c) == pc' = [pc EXCEPT ![p] = c]

Quits(p, a) ==
  /\ At(p, "dead") /\ op' = [op EXCEPT ![p] = "none"] /\ answer' = [answer EXCEPT ![p] = a]
  /\ conn' = [conn EXCEPT ![p] = "none"] /\ tx' = [tx EXCEPT ![p] = "none"]
  /\ UNCHANGED <<call, num, tries>>

Ended(p, a) ==
  /\ At(p, "idle") /\ op' = [op EXCEPT ![p] = "none"] /\ answer' = [answer EXCEPT ![p] = a]
  /\ UNCHANGED <<call, num, tries>>

Started(p) ==
  /\ At(p, "idle") /\ op' = [op EXCEPT ![p] = "none"] /\ UNCHANGED <<call, num, tries, answer>>

\* An exception goes up from the driver, which leaves the connection as c and no
\* transaction: into the service's retry, out of the operation, or out of the start.
Raised(p, e, c) ==
  IF e = "DataBaseError" /\ Retried(op[p]) /\ tries[p] < MAX_RETRY_TIMES
    THEN /\ At(p, IF op[p] = "start" THEN "collect" ELSE "execute")
         /\ call' = [call EXCEPT ![p] = First(op[p])]
         /\ tries' = [tries EXCEPT ![p] = @ + 1] /\ UNCHANGED <<op, num, answer>>
         /\ conn' = [conn EXCEPT ![p] = c] /\ tx' = [tx EXCEPT ![p] = "none"]
    ELSE IF op[p] = "start" \/ (e = "DataBaseError" /\ Retried(op[p]))
      THEN Quits(p, "exit")
      ELSE Ended(p, e) /\ conn' = [conn EXCEPT ![p] = c] /\ tx' = [tx EXCEPT ![p] = "none"]

\* A call has an answer: the service falls back on another call, or the operation ends.
Returned(p, a) ==
  IF Fallback(p, a) = "none" THEN Ended(p, a)
  ELSE /\ At(p, "execute") /\ call' = [call EXCEPT ![p] = Fallback(p, a)]
       /\ UNCHANGED <<op, num, tries, answer>>

Ask(p) ==
  /\ pc[p] = "idle" /\ spent.ops < MaxOps
  /\ \E k \in Operations :
       op' = [op EXCEPT ![p] = k] /\ call' = [call EXCEPT ![p] = First(k)]
  /\ spent' = [spent EXCEPT !.ops = @ + 1] /\ num' = [num EXCEPT ![p] = spent.ops + 1]
  /\ At(p, "execute")
  /\ tries' = [tries EXCEPT ![p] = 0] /\ answer' = [answer EXCEPT ![p] = "none"]
  /\ UNCHANGED <<driver, style, table, rows, conn, tx>>

Restart(p) ==
  /\ pc[p] = "dead" /\ At(p, "connect") /\ op' = [op EXCEPT ![p] = "start"]
  /\ tries' = [tries EXCEPT ![p] = 0]
  /\ UNCHANGED <<driver, style, table, rows, call, num, answer, conn, tx, spent>>

Crash(p) ==
  /\ pc[p] # "dead" /\ Fault /\ Quits(p, "exit") /\ UNCHANGED <<driver, style, table, rows>>

-----------------------------------------------------------------------------
(* Both drivers. *)

\* create_db. MongoClient connects when it is first used.
Connect(p) ==
  /\ pc[p] = "connect" /\ At(p, "collect")
  /\ conn' = [conn EXCEPT ![p] = "up"]
  /\ UNCHANGED <<driver, style, table, rows, op, call, num, tries, answer, tx, spent>>

ConnectFails(p) ==
  /\ pc[p] = "connect" /\ driver = "postgreSQL" /\ Fault
  /\ Quits(p, "exit") /\ UNCHANGED <<driver, style, table, rows>>

Misses(p) == At(p, "create") /\ UNCHANGED <<op, call, num, tries, answer>>

\* get_collection, and what a service does that finds none.
GetCollection(p) ==
  /\ pc[p] = "collect" /\ conn[p] = "up"
  /\ IF table = "none" THEN Misses(p) ELSE Started(p)
  /\ UNCHANGED <<driver, style, table, rows, conn, tx, spent>>

NewRow(p) == [op |-> num[p], try |-> tries[p]]

\* How a call on the rows ends when it is carried out now.
Outcome(p) ==
  IF call[p] = "insert" /\ rows # {} /\ table = "indexed" THEN "exists"
  ELSE IF call[p] \in {"update", "find_one"} /\ rows = {} THEN "missing"
  ELSE "ok"

Changes(p) ==
  /\ Outcome(p) = "ok"
  /\ call[p] = "insert" \/ (call[p] \in {"update", "delete"} /\ rows # {})

Changed(p) ==
  CASE call[p] = "insert" -> {rows \cup {NewRow(p)}}
    [] call[p] = "update" -> {(rows \ {r}) \cup {NewRow(p)} : r \in rows}
    [] call[p] = "delete" -> {{}}

Took(p) == IF Changes(p) THEN rows' \in Changed(p) ELSE UNCHANGED rows

-----------------------------------------------------------------------------
(* MongoDB. *)

Mongo(p, c) == driver = "mongo" /\ pc[p] = c

MongoList(p) ==
  /\ Mongo(p, "create")
  /\ IF table = "none"
       THEN At(p, "make") /\ UNCHANGED <<op, call, num, tries, answer, conn, tx>>
       ELSE Raised(p, "CollectionAlreadyExisting", "up")
  /\ UNCHANGED <<driver, style, table, rows, spent>>

MongoMake(p) ==
  /\ Mongo(p, "make")
  /\ IF table = "none"
       THEN table' = "bare" /\ At(p, "index") /\ UNCHANGED <<op, call, num, tries, answer, conn, tx>>
       ELSE Raised(p, "DataBaseError", "up") /\ UNCHANGED table
  /\ UNCHANGED <<driver, style, rows, spent>>

MongoIndex(p) ==
  /\ Mongo(p, "index")
  /\ IF Cardinality(rows) <= 1
       THEN table' = "indexed" /\ Started(p) /\ UNCHANGED <<conn, tx>>
       ELSE Raised(p, "DataBaseError", "up") /\ UNCHANGED table
  /\ UNCHANGED <<driver, style, rows, spent>>

\* find_all returns before it reads.
MongoCall(p) ==
  /\ Mongo(p, "execute")
  /\ Took(p)
  /\ IF call[p] = "find_all" THEN At(p, "iterate") /\ UNCHANGED <<op, call, num, tries, answer>>
                             ELSE Returned(p, Outcome(p))
  /\ UNCHANGED <<driver, style, table, conn, tx, spent>>

MongoIterate(p) ==
  /\ Mongo(p, "iterate") /\ Ended(p, "ok")
  /\ UNCHANGED <<driver, style, table, rows, conn, tx, spent>>

\* The server cannot be reached, or its answer is lost. Names are listed, and a cursor
\* is read, outside of the driver's own handling of exceptions.
MongoFails(p) ==
  /\ driver = "mongo" /\ pc[p] \in {"collect", "create", "make", "index", "execute", "iterate"}
  /\ Fault
  /\ \/ UNCHANGED <<table, rows>>
     \/ pc[p] = "make" /\ table = "none" /\ table' = "bare" /\ UNCHANGED rows
     \/ pc[p] = "index" /\ Cardinality(rows) <= 1 /\ table' = "indexed" /\ UNCHANGED rows
     \/ pc[p] = "execute" /\ Changes(p) /\ rows' \in Changed(p) /\ UNCHANGED table
  /\ Raised(p, IF pc[p] \in {"collect", "create", "iterate"} THEN "unnamed" ELSE "DataBaseError", "up")
  /\ UNCHANGED <<driver, style>>

-----------------------------------------------------------------------------
(* PostgreSQL. *)

Postgre(p, c) == driver = "postgreSQL" /\ pc[p] = c
Executing == {"collect", "create", "index", "execute"}

\* The server or the network drops the connection, and with it the transaction.
Lose(p) ==
  /\ driver = "postgreSQL" /\ conn[p] = "up" /\ Fault
  /\ conn' = [conn EXCEPT ![p] = "broken"] /\ tx' = [tx EXCEPT ![p] = "none"]
  /\ UNCHANGED <<driver, style, table, rows, process>>

\* Faulty variant: reconnect does not close the old connection first.
ReconnectUnclosed(p) ==
  driver = "postgreSQL" /\ pc[p] \in Executing /\ conn[p] = "broken" /\ UNCHANGED dbVars

\* A statement finds its connection broken: it is repeated on a new one.
Reconnect(p) ==
  /\ driver = "postgreSQL" /\ pc[p] \in Executing /\ conn[p] = "broken"
  /\ conn' = [conn EXCEPT ![p] = "up"]
  /\ UNCHANGED <<driver, style, table, rows, process, tx, spent>>

\* The attempts to connect are used up: there is no connection any more.
ReconnectFails(p) ==
  /\ driver = "postgreSQL" /\ pc[p] \in Executing /\ conn[p] = "broken" /\ Fault
  /\ Raised(p, "DataBaseError", "none") /\ UNCHANGED <<driver, style, table, rows>>

\* Without a connection there is no cursor to execute with.
NoCursor(p) ==
  /\ driver = "postgreSQL" /\ pc[p] \in Executing /\ conn[p] = "none"
  /\ Raised(p, "unnamed", "none") /\ UNCHANGED <<driver, style, table, rows, spent>>

\* Faulty variant: the table is committed before its index.
CreateTableAtOnce(p) ==
  /\ Postgre(p, "create") /\ conn[p] = "up" /\ table = "none"
  /\ table' = "bare" /\ At(p, "index")
  /\ UNCHANGED <<driver, style, rows, op, call, num, tries, answer, conn, tx, spent>>

CreateTable(p) ==
  /\ Postgre(p, "create") /\ conn[p] = "up" /\ \A q \in Process : tx[q] \in {"none", "row"}
  /\ IF table = "none"
       THEN /\ tx' = [tx EXCEPT ![p] = "bare"] /\ At(p, "index")
            /\ UNCHANGED <<op, call, num, tries, answer, conn>>
       \* A statement that has waited for the other's transaction fails in another way.
       ELSE \E e \in {"CollectionAlreadyExisting", "DataBaseError"} : Raised(p, e, "up")
  /\ UNCHANGED <<driver, style, table, rows, spent>>

\* On a new connection the table of the old one is not there, unless another made one.
CreateIndex(p) ==
  /\ Postgre(p, "index") /\ conn[p] = "up"
  /\ IF tx[p] = "bare" \/ table # "none"
       THEN /\ tx' = [tx EXCEPT ![p] = "indexed"] /\ At(p, "commit")
            /\ UNCHANGED <<op, call, num, tries, answer, conn>>
       ELSE Raised(p, "DataBaseError", "up")
  /\ UNCHANGED <<driver, style, table, rows, spent>>

Waits(p) ==
  \E q \in Process \ {p} : tx[q] = "row" /\ (call[p] = "insert" \/ Changes(p))

\* A statement that changes nothing is committed, or rolled back, at once.
Execute(p) ==
  /\ Postgre(p, "execute") /\ conn[p] = "up" /\ ~Waits(p)
  /\ IF Changes(p)
       THEN tx' = [tx EXCEPT ![p] = "row"] /\ At(p, "commit") /\ UNCHANGED <<op, call, num, tries, answer>>
       ELSE Returned(p, Outcome(p)) /\ UNCHANGED tx
  /\ UNCHANGED <<driver, style, table, rows, conn, spent>>

Applied(p) ==
  CASE tx[p] = "indexed" -> table' = "indexed" /\ UNCHANGED rows
    [] tx[p] = "row"     -> rows' \in Changed(p) /\ UNCHANGED table

Commit(p) ==
  /\ Postgre(p, "commit") /\ conn[p] = "up"
  /\ Applied(p) /\ tx' = [tx EXCEPT ![p] = "none"]
  /\ IF op[p] = "start" THEN Started(p) ELSE Returned(p, "ok")
  /\ UNCHANGED <<driver, style, conn, spent>>

\* Faulty variant: a failed commit is only logged.
CommitLogged(p) ==
  /\ Postgre(p, "commit") /\ conn[p] = "broken"
  /\ IF op[p] = "start" THEN Started(p) ELSE Returned(p, "ok")
  /\ UNCHANGED <<driver, style, table, rows, conn, tx, spent>>

\* The connection has been lost before the commit.
CommitFails(p) ==
  /\ Postgre(p, "commit") /\ conn[p] = "broken"
  /\ Raised(p, "DataBaseError", "broken") /\ UNCHANGED <<driver, style, table, rows, spent>>

\* It is lost before the commit is answered.
AnswerLost(p) ==
  /\ Postgre(p, "commit") /\ conn[p] = "up" /\ Fault /\ Applied(p)
  /\ Raised(p, "DataBaseError", "broken") /\ UNCHANGED <<driver, style>>

-----------------------------------------------------------------------------

Works(p) ==
  \/ Connect(p) \/ GetCollection(p)
  \/ MongoList(p) \/ MongoMake(p) \/ MongoIndex(p) \/ MongoCall(p) \/ MongoIterate(p)
  \/ Reconnect(p) \/ NoCursor(p) \/ CreateTable(p) \/ CreateIndex(p) \/ Execute(p)
  \/ Commit(p) \/ CommitFails(p)

Fails(p) == ConnectFails(p) \/ MongoFails(p) \/ Lose(p) \/ ReconnectFails(p)
            \/ AnswerLost(p) \/ Crash(p)

DBNext == \E p \in Process : Ask(p) \/ Restart(p) \/ Works(p) \/ Fails(p)

DBSpec == DBInit /\ [][DBNext]_dbVars /\ \A p \in Process : WF_dbVars(Works(p))

-----------------------------------------------------------------------------
(* Properties. *)

\* An id has one row, but in a MongoDB collection that has no unique index: the index is
\* made after the collection, others use it meanwhile, and after a failure for good.
OneRowEach == Cardinality(rows) > 1 => driver = "mongo" /\ table = "bare"

\* Every operation ends, and every start.
OperationsEnd == \A p \in Process : op[p] # "none" ~> op[p] = "none"

\* The drivers and the services' tries keep what the interface promises.
Kept == INSTANCE Store WITH
  Row <- [op : 0 .. MaxOps, try : 0 .. MAX_RETRY_TIMES],
  unique <- table = "indexed",
  op <- [p \in Process |-> IF op[p] = "start" THEN "none" ELSE op[p]]
KeepsStore == Kept!StoreSpec

==============================================================================
