------------------------------- MODULE CloudTask -------------------------------
(***************************************************************************)
(* A task of the cloud, as the job scheduler starts its coordinators and a *)
(* client its workers: a service and a pod of one name, made, looked at    *)
(* and removed by calls of the Kubernetes API that can fail before or      *)
(* after they had their effect. An operation is the set of its outcomes:   *)
(* what is there when it ends and what it says to its caller. What a       *)
(* failed operation left is what the next one starts from.                 *)
(***************************************************************************)

\* A pod that was told to go is there until Kubernetes has ended it.
Cloud == [service : BOOLEAN, pod : {"none", "live", "ending"}]

Nothing == [service |-> FALSE, pod |-> "none"]
Whole == [service |-> TRUE, pod |-> "live"]

Outcome == [cloud : Cloud,
            says : {"done", "exists", "absent", "failed", "raised"}]

Ends(cloud, says) == [cloud |-> cloud, says |-> says]

-----------------------------------------------------------------------------
(* One call of the API.                                                    *)

\* trans_msg: an HTTP error, a time-out among them, is a code; another error of the
\* connection, or an answer that is no JSON, is an exception that nobody names.
\* Either may hide that the call was carried out.
Trouble(before, after) == {Ends(c, says) : c \in {before, after}, says \in {"failed", "raised"}}

Answered(before, after, says) == {Ends(after, says)} \cup Trouble(before, after)

ServiceCreate(c) ==
  Answered(c, [c EXCEPT !.service = TRUE], IF c.service THEN "exists" ELSE "done")
ServiceGet(c) == Answered(c, c, IF c.service THEN "done" ELSE "absent")
ServiceDelete(c) ==
  Answered(c, [c EXCEPT !.service = FALSE], IF c.service THEN "done" ELSE "absent")

PodCreate(c) ==
  Answered(c, [c EXCEPT !.pod = IF @ = "none" THEN "live" ELSE @],
           IF c.pod = "none" THEN "done" ELSE "exists")
PodGet(c) == Answered(c, c, IF c.pod = "none" THEN "absent" ELSE "done")
PodDelete(c) ==
  Answered(c, [c EXCEPT !.pod = IF @ = "none" THEN @ ELSE "ending"],
           IF c.pod = "none" THEN "absent" ELSE "done")

\* The pod ends.
Ended(c) == [c EXCEPT !.pod = IF @ = "ending" THEN "none" ELSE @]

-----------------------------------------------------------------------------
(* K8sTask: the call on the service, and the call on the pod unless the    *)
(* first one said something that stops the operation.                      *)

\* What the service call ended the operation with, and after what it goes on.
Halting(first, goes) == {o \in first : o.says \notin goes}
Passing(first, goes) == {o.cloud : o \in {f \in first : f.says \in goes}}

\* create: a service that exists says that the task exists; when the pod cannot be
\* made the service stays.
Create(c) ==
  LET first == ServiceCreate(c)
  IN  Halting(first, {"done"}) \cup UNION {PodCreate(d) : d \in Passing(first, {"done"})}

\* delete: the pod is not touched unless the service is gone.
Delete(c) ==
  LET first == ServiceDelete(c)
      goes == {"done", "absent"}
  IN  Halting(first, goes) \cup UNION {PodDelete(d) : d \in Passing(first, goes)}

\* get: a task without its service is a task.
Get(c) ==
  LET first == ServiceGet(c)
      goes == {"done", "absent"}
  IN  Halting(first, goes) \cup UNION {PodGet(d) : d \in Passing(first, goes)}

\* A create between whose calls another caller's delete is carried out.
CreateDuringDelete(c) ==
  LET first == ServiceCreate(c)
  IN  Halting(first, {"done"})
        \cup UNION {PodCreate([d EXCEPT !.service = FALSE]) : d \in Passing(first, {"done"})}

-----------------------------------------------------------------------------
(* What the callers make of it.                                            *)

\* __wait_coordinator_deleted and __wait_pod_deleted: as long as a pod is found.
Waited(c) ==
  {IF g.says = "absent" THEN Ends(g.cloud, "done") ELSE g :
     g \in {f \in Get(Ended(c)) : f.says # "done"}}

\* __do_delete_coordinator, and __delete_pod with the wait of an attempt: a task that
\* is absent is deleted, one that was told to go is waited for.
Removed(c) ==
  UNION {CASE d.says = "absent" -> {Ends(d.cloud, "done")}
           [] d.says = "done" -> Waited(d.cloud)
           [] OTHER -> {d} : d \in Delete(c)}

\* One attempt to launch, __do_create_coordinator and __create_pod: a task that
\* exists is removed and made again. An attempt that says "failed" is made again by
\* coordinator_operation_retry, and ends the task of a worker.
Recreated(c) ==
  UNION {IF r.says = "done" THEN Create(r.cloud) ELSE {r} : r \in Removed(c)}
Attempt(c) ==
  UNION {IF o.says = "exists" THEN Recreated(o.cloud) ELSE {o} : o \in Create(c)}

-----------------------------------------------------------------------------
(* What the parts promise, from whatever earlier attempts left.            *)

Succeeding(outcomes) == {o.cloud : o \in {e \in outcomes : e.says = "done"}}

\* A launch that reports success has made both parts, and a removal that does has
\* left neither: the caller needs no memory of what it tried before.
LaunchIsWhole == \A c \in Cloud : Succeeding(Attempt(c)) \subseteq {Whole}
RemovalIsComplete == \A c \in Cloud : Succeeding(Removed(c)) \subseteq {Nothing}

\* Whatever is there, one attempt can put it right, once the last pod has ended.
LaunchHeals == \A c \in Cloud : Succeeding(Attempt(c)) # {}

\* A deletion that fails between its calls leaves a pod that nobody can reach; it
\* never leaves a service whose pod it took.
PodGoesLast == \A c \in Cloud : \A o \in Delete(c) : o.cloud.pod # c.pod => ~o.cloud.service

\* The leak that the code admits (TODO of create): a failed attempt can leave the
\* service behind, and a delete that is carried out during a create leaves a pod
\* without a service, although the create reports success.
ServiceLeaks ==
  Ends([service |-> TRUE, pod |-> "none"], "failed") \in Attempt(Nothing)
PodIsCutOff ==
  \A c \in Cloud : Succeeding(CreateDuringDelete(c)) \subseteq {[service |-> FALSE, pod |-> "live"]}
==============================================================================
