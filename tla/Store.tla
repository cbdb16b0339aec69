-------------------------------- MODULE Store --------------------------------
(***************************************************************************)
(* What DataBaseInterface and CollectionInterface promise to those that    *)
(* keep jobs, models, tasks and allocations: the rows of one id, and the   *)
(* operations that processes carry out on them. An operation that ends     *)
(* well has taken effect, once and at that moment; one that ends with an   *)
(* error may have taken effect before; nothing happens after its end.      *)
(***************************************************************************)
EXTENDS Integers

CONSTANTS Process, Row

VARIABLES
  rows,    \* the rows of the id
  unique,  \* has the collection the unique index its creator asks for?
  op,      \* for each process, the operation it carries out, or "none"
  answer   \* and how the last one ended

storeVars == <<rows, unique, op, answer>>

Reading == {"find_one", "exist", "find_all"}
Writing == {"insert", "update", "delete", "save", "modify"}
\* What an operation that did not end well raises: the named errors but those of the
\* data, exceptions the interface does not name, or the end of the process.
Failure == {"DataBaseError", "unnamed", "exit"}

StoreInit ==
  /\ rows = {} /\ unique \in BOOLEAN
  /\ op = [p \in Process |-> "none"] /\ answer = [p \in Process |-> "none"]

Added == \E r \in Row \ rows : (unique => rows = {}) /\ rows' = rows \cup {r}
Changed == \E old \in rows, new \in Row : rows' = (rows \ {old}) \cup {new}

\* save inserts or else updates, modify updates or else inserts.
Effect(k) ==
  \/ k \in {"insert", "save", "modify"} /\ Added
  \/ k \in {"update", "save", "modify"} /\ Changed
  \/ k = "delete" /\ rows' = {}

Ends(p, a) == op' = [op EXCEPT ![p] = "none"] /\ answer' = [answer EXCEPT ![p] = a]

Ask(p) ==
  /\ op[p] = "none"
  /\ \E k \in Reading \cup Writing : op' = [op EXCEPT ![p] = k]
  /\ answer' = [answer EXCEPT ![p] = "none"] /\ UNCHANGED <<rows, unique>>

\* A try takes effect and its answer is lost, for good or until the next try.
Unanswered(p) ==
  /\ Effect(op[p])
  /\ (UNCHANGED <<op, answer>> \/ \E a \in Failure : Ends(p, a))
  /\ UNCHANGED unique

Done(p) ==
  /\ \/ Effect(op[p])
     \/ op[p] = "find_all" /\ UNCHANGED rows
     \/ op[p] \in {"find_one", "exist"} /\ rows # {} /\ UNCHANGED rows
  /\ Ends(p, "ok") /\ UNCHANGED unique

\* Refused for what the collection holds at that moment.
Refused(p) ==
  /\ \/ op[p] = "insert" /\ rows # {} /\ unique /\ Ends(p, "exists")
     \/ op[p] \in {"update", "find_one", "exist", "save"} /\ rows = {} /\ Ends(p, "missing")
     \/ op[p] = "modify" /\ rows # {} /\ unique /\ Ends(p, "exists")
  /\ UNCHANGED <<rows, unique>>

Failed(p) == (\E a \in Failure : Ends(p, a)) /\ UNCHANGED <<rows, unique>>

\* Whoever creates the collection may fail once it is there.
MadeUnique ==
  /\ (\A r, s \in rows : r = s) /\ unique' = TRUE
  /\ UNCHANGED <<op, answer>> \/ \E p \in Process, a \in Failure : Ends(p, a)
  /\ UNCHANGED rows

StoreNext ==
  \/ MadeUnique
  \/ \E p \in Process : Ask(p) \/ Unanswered(p) \/ Done(p) \/ Refused(p) \/ Failed(p)

StoreSpec == StoreInit /\ [][StoreNext]_storeVars

==============================================================================
