-------------------------------- MODULE Answers --------------------------------
(***************************************************************************)
(* What the HTTP interfaces of the job scheduler and of the model manager  *)
(* answer: every operation raises some errors before it has changed        *)
(* anything and some after, every handler turns errors into codes by       *)
(* clauses, and a client concludes from the code what was done.            *)
(***************************************************************************)

\* The errors of the two programs, each with the classes a clause can name it by. An
\* InvalidState is a JobSchedulerError of its own; a LostRecord is the DataNotExisting
\* of a replace.
Classes ==
  [ValueError |-> {"ValueError"}, TypeError |-> {"TypeError"}, KeyError |-> {"KeyError"},
   IndexError |-> {"IndexError"}, NotImplementedError |-> {"NotImplementedError"},
   JobNotExist |-> {"JobSchedulerError", "JobNotExist"},
   JobExist |-> {"JobSchedulerError"}, InvalidState |-> {"JobSchedulerError"},
   CheckpointNotExist |-> {"JobSchedulerError"}, NoSuchModel |-> {"ValueError"},
   LostRecord |-> {"DataNotExisting"},
   ModelNotExist |-> {"NotExist"}, ModelIDNotExist |-> {"NotExist"},
   ModelAlreadyExist |-> {"RequestError"}, ModelStateError |-> {"RequestError"}]
Error == DOMAIN Classes    \* "none" when none was raised

\* Those that the request is to blame for; nothing was lost.
CallersFault == Error \ {"LostRecord"}

-----------------------------------------------------------------------------
(* The operations.                                                         *)

JobOperation == {"create", "update", "get", "list", "delete", "start", "stop", "heartbeat"}
ModelOperation ==
  {"create", "list", "get", "update", "delete version", "delete versions",
   "get by id", "update by id", "delete by id"}

\* Raised before anything was changed. What a deletion raises of a job that is not
\* there it also handles; what its coroutine raises nobody sees.
JobChecks(op) ==
  CASE op = "create" -> {"ValueError", "TypeError", "KeyError", "JobExist",
                         "CheckpointNotExist", "NoSuchModel"}
    [] op = "update" -> {"ValueError", "TypeError", "KeyError", "JobNotExist", "InvalidState",
                         "CheckpointNotExist", "NoSuchModel"}
    [] op = "get" -> {"JobNotExist"}
    [] op = "list" -> {}
    [] op = "delete" -> {"InvalidState"}
    [] op = "start" -> {"JobNotExist", "InvalidState", "CheckpointNotExist", "LostRecord"}
    [] op = "stop" -> {"JobNotExist", "InvalidState"}
    [] op = "heartbeat" -> {"ValueError", "TypeError"}

\* Raised after something was changed: the object of the job before its record.
JobLater(op) == IF op \in {"update", "heartbeat"} THEN {"LostRecord"} ELSE {}

ModelChecks(op) ==
  CASE op = "create" -> {"ValueError", "TypeError", "KeyError", "ModelAlreadyExist", "IndexError"}
    [] op \in {"list", "get"} -> {"ModelNotExist"}
    [] op = "update" -> {"ValueError", "KeyError", "ModelNotExist", "NotImplementedError"}
    [] op = "update by id" -> {"ValueError", "ModelNotExist", "NotImplementedError"}
    [] op \in {"delete version", "delete versions"} -> {"ModelNotExist", "ModelStateError"}
    [] op = "get by id" -> {"ModelIDNotExist"}
    [] op = "delete by id" -> {"ModelIDNotExist", "ModelStateError"}

\* The deletion of all versions goes from one to the next.
ModelLater(op) == IF op = "delete versions" THEN {"ModelStateError"} ELSE {}

-----------------------------------------------------------------------------
(* The handlers.                                                           *)

\* The answer to an error: of the clause that names one of its classes.
Clause(classes, code, error, otherwise) ==
  IF Classes[error] \cap classes # {} THEN code ELSE otherwise

JobCode(op, error) ==
  IF error = "none" THEN IF op = "create" THEN 201 ELSE 200
  ELSE CASE op \in {"create", "update"} ->
              Clause({"ValueError", "TypeError", "JobSchedulerError"}, 403, error, 500)
         [] op = "get" -> Clause({"JobNotExist"}, 404, error, 500)
         [] op = "list" -> 500
         [] op \in {"delete", "start", "stop"} -> Clause({"JobSchedulerError"}, 403, error, 500)
         [] op = "heartbeat" -> Clause({"ValueError", "TypeError"}, 403, error, 500)

ModelCode(op, error) ==
  IF error = "none" THEN IF op = "create" THEN 201 ELSE 200
  ELSE LET other == IF op = "get" THEN 500 ELSE 503
           unknown == Clause({"NotExist"}, 404, error, other)
       IN  CASE op = "create" -> Clause({"KeyError", "TypeError", "ValueError"}, 400, error, unknown)
             [] op \in {"delete version", "delete versions", "delete by id"} ->
                  Clause({"RequestError"}, 400, error, unknown)
             [] OTHER -> unknown

-----------------------------------------------------------------------------
(* What a client may conclude.                                             *)

Refused(code) == code \in {400, 403, 404}

\* A refusal of the job scheduler means that nothing was changed, and so does one of
\* the model manager, unless it is of a request to delete every version of a model:
\* those before the one that refused are being deleted.
RefusalChangesNothing ==
  /\ \A op \in JobOperation : \A e \in JobLater(op) : ~Refused(JobCode(op, e))
  /\ \A op \in ModelOperation : \A e \in ModelLater(op) :
       Refused(ModelCode(op, e)) <=> op = "delete versions"

\* What the request is to blame for is refused; but a field that the validation misses
\* is an internal error of the job scheduler, and the model manager says that it is
\* out of service when a version exists already, when a source has no namespace, and
\* when an update is no JSON, names no version or is of another kind.
FaultIsRefused ==
  /\ \A op \in JobOperation : \A e \in JobChecks(op) \cap CallersFault :
       Refused(JobCode(op, e)) <=> e # "KeyError"
  /\ \A op \in ModelOperation : \A e \in ModelChecks(op) \cap CallersFault :
       Refused(ModelCode(op, e)) <=>
         ~ \/ op = "create" /\ e \in {"ModelAlreadyExist", "IndexError"}
           \/ op \in {"update", "update by id"} /\ e # "ModelNotExist"

\* The model manager has one answer to every request for a model that is not there. The
\* job scheduler has three for a job: its deletion is done, a query says so, and the
\* other operations are refused like those that are not valid.
AbsenceIsTold ==
  /\ {JobCode(op, "JobNotExist") : op \in {o \in JobOperation : "JobNotExist" \in JobChecks(o)}}
       = {403, 404}
  /\ "JobNotExist" \notin JobChecks("delete")
  /\ \A op \in ModelOperation : \A e \in ModelChecks(op) \cap {"ModelNotExist", "ModelIDNotExist"} :
       ModelCode(op, e) = 404

==============================================================================
