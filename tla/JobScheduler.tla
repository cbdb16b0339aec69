---------------------------- MODULE JobScheduler ----------------------------
(***************************************************************************)
(* The job scheduler: class Scheduler of job_scheduler/scheduler.py and    *)
(* class Job of job_scheduler/job.py, with the coordinators they create    *)
(* and delete on the cloud.                                                *)
(*                                                                         *)
(* The process is single threaded: Tornado coroutines interleave only      *)
(* where they yield on something that is not ready. A task is one run of   *)
(* Job.start, Job.stop, Job.delete or of the part of Job.handle_heartbeat  *)
(* that waits; its pc names the yield it is suspended at, and an action    *)
(* runs a task from one yield to the next. What the database, the timers   *)
(* and the maps of the scheduler do happens within such a step.            *)
(***************************************************************************)
EXTENDS JobStates, Naturals, Sequences, FiniteSets

CONSTANTS
  Key,         \* the (namespace, id) pairs of the jobs
  Obj,         \* identities for Job objects; several may share a key
  Task,        \* identities for coroutine runs in progress
  NoObj,       \* "no Job object"
  NoTask,      \* "no coroutine"
  Scarce,      \* BOOLEAN: may CheckClientsResource fail?
  Patient,     \* BOOLEAN: do clients wait until nothing of the job is in progress?
  MaxRequests, \* bound on the client requests of a behaviour
  MaxRestarts, \* bound on the restarts of the scheduler process
  MaxFaults    \* bound on failing calls and lost heartbeats

Injections(S, T) == {f \in [S -> T] : \A a, b \in S : f[a] = f[b] => a = b}

ASSUME PoolAssumption ==
  /\ Key # {} /\ IsFiniteSet(Obj)
  /\ Injections(Key, Obj) # {} /\ Injections(Key, Task) # {}
  /\ NoObj \notin Obj /\ NoTask \notin Task

ASSUME BoundAssumption ==
  /\ Scarce \in BOOLEAN /\ Patient \in BOOLEAN
  /\ MaxRequests \in Nat /\ MaxRestarts \in Nat /\ MaxFaults \in Nat

VARIABLES
  db,      \* the persisted state of each job, "ABSENT" when there is no record
  active,  \* Scheduler.__active_jobs: the Job object that answers for a key
  queue,   \* Scheduler.__jobs_queue
  loop,    \* the start() that __schedule_jobs is waiting for, or NoTask
  job,     \* the fields of every Job object
  task,    \* the coroutines in progress
  coord,   \* what each job's coordinator is doing, "NONE" when it has no pod
  term,    \* the jobs whose coordinator pod is being terminated by the cloud
  route,   \* the jobs with a route registered at the proxy
  mail,    \* the heartbeat in flight from the coordinator of each job
  spent    \* how much of the bounds on the environment is used up

schedVars == <<db, active, queue, loop, job, task>>
cloudVars == <<coord, term, route, mail>>
vars == <<schedVars, cloudVars, spent>>

\* What a coordinator reports in a heartbeat (State of coordinator/trainer.py).
Report == {"RUNNING", "STOPPING", "STOPPED", "FINISHED", "FAILED"}

CoordState == {"NONE", "PENDING", "RUNNING", "STOPPING", "EXITED", "CRASHED"}

\* What the cloud says of a pod, as job.py compares it (Coordinator.status).
Phase(k) ==
  CASE coord[k] \in {"NONE", "PENDING"}     -> coord[k]
    [] coord[k] \in {"RUNNING", "STOPPING"} -> "RUNNING"
    [] coord[k] = "EXITED"                  -> "SUCCEEDED"
    [] coord[k] = "CRASHED"                 -> "FAILED"

JobRecord == [key : Key, state : State, first : BOOLEAN, released : BOOLEAN,
              timer : BOOLEAN, closing : BOOLEAN]

\* Job.__init__. "first" is __first_heartbeat_received, "released" is
\* __starting_process_stopped, "timer" says that __heartbeat_timer is armed;
\* "closing" is not in the code: it remembers that stop() or delete() was run.
NewJob(k, s) == [key |-> k, state |-> s, first |-> FALSE, released |-> FALSE,
                 timer |-> FALSE, closing |-> FALSE]

Op == {"start", "stop", "delete", "heartbeat"}

\* The yields a coroutine can be suspended at, and those of them that wait
\* for a pod's status.
Polling == {"poll", "gone", "stat", "halt"}
Pc == Polling \cup {"check", "backoff", "route", "create", "repoll", "del",
                    "await", "send", "nap", "unroute"}
Seen == {"UNREAD", "NONE", "PENDING", "RUNNING", "SUCCEEDED", "FAILED"}

NoRun == [op |-> "idle", obj |-> NoObj, pc |-> "idle", seen |-> "UNREAD"]
Run(op, o, pc) == [op |-> op, obj |-> o, pc |-> pc, seen |-> "UNREAD"]
TaskRecord == {NoRun} \cup [op : Op, obj : Obj, pc : Pc, seen : Seen]

TypeOK ==
  /\ db \in [Key -> Recordable]
  /\ active \in [Key -> Obj \cup {NoObj}]
  /\ queue \in Seq(Obj)
  /\ loop \in Task \cup {NoTask}
  /\ job \in [Obj -> JobRecord]
  /\ task \in [Task -> TaskRecord]
  /\ coord \in [Key -> CoordState]
  /\ term \subseteq Key
  /\ route \subseteq Key
  /\ mail \in [Key -> Report \cup {"NONE"}]
  /\ spent \in [requests : Nat, restarts : Nat, faults : Nat]

-----------------------------------------------------------------------------
(* Job objects and coroutines in use. *)

Queued(o) == \E i \in DOMAIN queue : queue[i] = o
RunsOn(t, o) == task[t].op # "idle" /\ task[t].obj = o
InUse(o) == \/ Queued(o)
            \/ \E k \in Key : active[k] = o
            \/ \E t \in Task : RunsOn(t, o)
            \/ job[o].timer

HasSpareObj == \E o \in Obj : ~InUse(o)
SpareObj == CHOOSE o \in Obj : ~InUse(o)
Idle(t) == task[t].op = "idle"
HasSpareTask == \E t \in Task : Idle(t)
SpareTask == CHOOSE t \in Task : Idle(t)

\* Nothing of the scheduler is at work on the job, ...
AtRest(k) == \A o \in Obj : job[o].key = k =>
               ~Queued(o) /\ \A t \in Task : ~RunsOn(t, o)
\* ... and no timer of an earlier run of the job can expire any more.
Quiet(k) == AtRest(k) /\ \A o \in Obj : job[o].key = k /\ job[o].timer => active[k] = o

At(t, op, pc) == task[t].op = op /\ task[t].pc = pc
Me(t) == task[t].obj
Mine(t) == job[Me(t)]

-----------------------------------------------------------------------------
(* Steps within a coroutine. *)

\* Scheduler.__update_to_db: replaces the record, and raises DataNotExisting
\* when there is none.
HasRecord(k) == db[k] # "ABSENT"
\* Faulty variant: an update that inserts a missing record.
RecordUpsert(k, s) == [db EXCEPT ![k] = s]
Record(k, s) == IF HasRecord(k) THEN [db EXCEPT ![k] = s] ELSE db

\* Faulty variant: a finished job is left in the active jobs.
FinishForgotten(k) == active
\* Scheduler.__job_finished_callback.
Finish(k) == [active EXCEPT ![k] = NoObj]

Goto(t, pc) == [task EXCEPT ![t].pc = pc, ![t].seen = "UNREAD"]
Ended(t) == [task EXCEPT ![t] = NoRun]
Resumed(t) == IF loop = t THEN NoTask ELSE loop

\* The coroutine moves on to its next yield and changes nothing else.
Moves(t, pc) ==
  /\ task' = Goto(t, pc)
  /\ UNCHANGED <<db, active, queue, loop, job>>

Ends(t) == task' = Ended(t) /\ loop' = Resumed(t)

SpendFault ==
  /\ spent.faults < MaxFaults
  /\ spent' = [spent EXCEPT !.faults = @ + 1]

\* Job.start up to its first yield. The checkpoint the job is to start from may
\* be missing, which fails the job at once.
Begin(o, t) ==
  LET k == job[o].key IN
  \/ /\ job' = [job EXCEPT ![o].state = "STARTING", ![o].first = FALSE,
                           ![o].timer = FALSE]
     /\ db' = Record(k, "STARTING")
     /\ task' = [task EXCEPT ![t] = Run("start", o, "check")]
     /\ UNCHANGED active
  \/ /\ job' = [job EXCEPT ![o].state = "FAILED", ![o].first = FALSE,
                           ![o].timer = FALSE]
     /\ db' = Record(k, "FAILED")
     /\ active' = Finish(k)
     /\ UNCHANGED task

\* The restart of the process: __restore_jobs over the records of the database.
\* Records are sorted by a start time of one-second granularity, so any order
\* of the queue is possible.
ObjFor == CHOOSE f \in [Key -> Obj] : f \in Injections(Key, Obj)
TaskFor == CHOOSE f \in [Key -> Task] : f \in Injections(Key, Task)
Blank == NewJob(CHOOSE k \in Key : TRUE, "QUEUING")

Requeued == {ObjFor[k] : k \in {l \in Key : db[l] \in {"QUEUING", "STARTING", "PENDING"}}}
Orders(S) == {f \in [1..Cardinality(S) -> S] : \A x \in S : \E i \in DOMAIN f : f[i] = x}

\* Faulty variant: a restored running job gets no timer.
RestoredUnwatched(k) ==
  [NewJob(k, db[k]) EXCEPT !.closing = (db[k] \in {"DELETING", "STOPPING"})]
RestoredJob(k) ==
  [NewJob(k, db[k]) EXCEPT !.timer = (db[k] = "RUNNING"),
                           !.closing = (db[k] \in {"DELETING", "STOPPING"})]
RestoredRun(k) ==
  CASE db[k] = "DELETING" -> Run("delete", ObjFor[k], "del")
    [] db[k] = "STOPPING" -> Run("stop", ObjFor[k], "stat")
    [] OTHER -> NoRun

Reboot ==
  /\ queue' \in Orders(Requeued)
  /\ active' = [k \in Key |->
                  IF db[k] \in {"QUEUING", "RUNNING", "STARTING", "PENDING"}
                    THEN ObjFor[k] ELSE NoObj]
  /\ job' = [o \in Obj |->
               IF \E k \in Key : ObjFor[k] = o /\ HasRecord(k)
                 THEN RestoredJob(CHOOSE k \in Key : ObjFor[k] = o)
                 ELSE Blank]
  /\ task' = [t \in Task |->
                IF \E k \in Key : TaskFor[k] = t
                  THEN RestoredRun(CHOOSE k \in Key : TaskFor[k] = t)
                  ELSE NoRun]
  /\ loop' = NoTask
  /\ UNCHANGED db

\* The except clauses of Job.start. When the record is gone the FAILED state
\* cannot be persisted either, and the exception reaches whoever waits for the
\* coroutine: nobody, or __schedule_jobs, which ends the process.
StartFails(t) ==
  LET k == Mine(t).key IN
  \/ /\ HasRecord(k)
     /\ db' = Record(k, "FAILED")
     /\ active' = Finish(k)
     /\ job' = [job EXCEPT ![Me(t)].state = "FAILED"]
     /\ Ends(t) /\ UNCHANGED queue
  \/ /\ ~HasRecord(k) /\ loop # t
     /\ job' = [job EXCEPT ![Me(t)].state = "FAILED"]
     /\ Ends(t) /\ UNCHANGED <<db, active, queue>>
  \/ /\ ~HasRecord(k) /\ loop = t
     /\ Reboot

\* The pc at which __do_create_coordinator leaves start(): it creates only for
\* a STARTING job, otherwise start() falls through to waiting for the pod.
CreatePc(s) == IF s = "STARTING" THEN "create" ELSE "poll"

\* What follows the end of __do_delete_coordinator in each operation.
AfterDeleted(t) ==
  \/ /\ task[t].op = "start"
     /\ Moves(t, CreatePc(Mine(t).state))
  \/ /\ task[t].op \in {"stop", "delete"}
     /\ Moves(t, "unroute")
  \/ /\ task[t].op = "heartbeat"
     /\ active' = IF Mine(t).state \in Launching THEN active ELSE Finish(Mine(t).key)
     /\ Ends(t) /\ UNCHANGED <<db, queue, job>>

\* The end of __do_stop_coordinator in stop(): the heartbeat timer is stopped
\* and the deletion of the coordinator begins.
StopPodDone(t) ==
  /\ job' = [job EXCEPT ![Me(t)].timer = FALSE]
  /\ task' = Goto(t, "del")
  /\ UNCHANGED <<db, active, queue, loop>>

-----------------------------------------------------------------------------
(* Scheduler.__schedule_jobs: one job at a time. *)

TakeJob ==
  /\ loop = NoTask /\ queue # <<>>
  /\ queue' = Tail(queue)
  /\ UNCHANGED <<cloudVars, spent>>
  /\ LET o == Head(queue) IN
     \/ /\ active[job[o].key] = NoObj
        /\ UNCHANGED <<db, active, loop, job, task>>
     \/ /\ active[job[o].key] # NoObj /\ HasSpareTask
        /\ Begin(o, SpareTask)
        /\ loop' = IF job'[o].state = "STARTING" THEN SpareTask ELSE NoTask

-----------------------------------------------------------------------------
(* The rest of Job.start. *)

LeavesPending(t, pc) ==
  /\ job' = [job EXCEPT ![Me(t)].state = "STARTING"]
  /\ db' = Record(Mine(t).key, "STARTING")
  /\ task' = Goto(t, IF HasRecord(Mine(t).key) THEN pc ELSE "backoff")
  /\ UNCHANGED <<active, queue, loop>>

\* __check_clients_resource: the selector answers that there are enough clients.
ClientsEnough(t) ==
  /\ At(t, "start", "check")
  /\ \/ Mine(t).state = "PENDING" /\ LeavesPending(t, "route")
     \/ Mine(t).state = "STARTING" /\ Moves(t, "route")
     \/ Mine(t).state \notin Launching /\ Moves(t, "poll")
  /\ UNCHANGED <<cloudVars, spent>>

\* __check_clients_resource: the selector answers that there are too few.
ClientsScarce(t) ==
  /\ Scarce /\ At(t, "start", "check")
  /\ job' = [job EXCEPT ![Me(t)].state = "PENDING"]
  /\ db' = Record(Mine(t).key, "PENDING")
  /\ task' = Goto(t, "backoff")
  /\ UNCHANGED <<active, queue, loop, cloudVars, spent>>

\* __check_clients_resource: the call itself fails.
ClientsUnknown(t) ==
  /\ At(t, "start", "check") /\ SpendFault
  /\ Moves(t, "backoff")
  /\ UNCHANGED cloudVars

\* The head of the loop of __check_clients_resource after its sleep.
CheckAgain(t) ==
  /\ At(t, "start", "backoff")
  /\ \/ /\ Mine(t).state \in Launching
        /\ Moves(t, "check")
     \/ /\ Mine(t).state \notin Launching
        /\ job' = [job EXCEPT ![Me(t)].released = TRUE]
        /\ task' = Goto(t, "poll")
        /\ UNCHANGED <<db, active, queue, loop>>
  /\ UNCHANGED <<cloudVars, spent>>

\* __do_create_proxy_route has registered the route.
RouteAdded(t) ==
  /\ At(t, "start", "route")
  /\ route' = route \cup {Mine(t).key}
  /\ Moves(t, CreatePc(Mine(t).state))
  /\ UNCHANGED <<coord, term, mail, spent>>

\* A failed attempt at the route or at the pod is made again only while the job
\* is STARTING.
RetrySkipped(t) ==
  /\ At(t, "start", "route") \/ At(t, "start", "create")
  /\ Mine(t).state # "STARTING"
  /\ Moves(t, "poll")
  /\ UNCHANGED <<cloudVars, spent>>

\* __do_create_coordinator: the pod is created, or there is one already.
PodCreated(t) ==
  /\ At(t, "start", "create")
  /\ LET k == Mine(t).key IN
     \/ /\ coord[k] = "NONE"
        /\ coord' = [coord EXCEPT ![k] = "PENDING"]
        /\ Moves(t, "poll")
     \/ /\ coord[k] # "NONE"
        /\ Moves(t, "del")
        /\ UNCHANGED coord
  /\ UNCHANGED <<term, route, mail, spent>>

\* Any other exception of the creation, such as ModelNotExist.
CreateRaises(t) ==
  /\ At(t, "start", "create") /\ SpendFault
  /\ StartFails(t)
  /\ UNCHANGED cloudVars

\* The answer to a pending status call: the pod's phase is read now and used
\* when the coroutine resumes.
ReadPhase(t) ==
  /\ task[t].op # "idle" /\ task[t].pc \in Polling /\ task[t].seen = "UNREAD"
  /\ task' = [task EXCEPT ![t].seen = Phase(Mine(t).key)]
  /\ UNCHANGED <<db, active, queue, loop, job, cloudVars, spent>>

\* __starting_process_stopped is set and start() returns.
Releases(t) ==
  /\ job' = [job EXCEPT ![Me(t)].released = TRUE]
  /\ Ends(t) /\ UNCHANGED <<db, active, queue>>

\* Faulty variant: the timer is not armed when the job runs.
RunningUnwatched(t) ==
  /\ job' = [job EXCEPT ![Me(t)].state = "RUNNING"]
  /\ db' = Record(Mine(t).key, "RUNNING")
  /\ Ends(t) /\ UNCHANGED <<active, queue>>
\* Faulty variant: RUNNING is not persisted.
RunningUnsaved(t) ==
  /\ job' = [job EXCEPT ![Me(t)].state = "RUNNING", ![Me(t)].timer = TRUE]
  /\ Ends(t) /\ UNCHANGED <<db, active, queue>>
\* __do_create_successfully.
BecomesRunning(t) ==
  /\ job' = [job EXCEPT ![Me(t)].state = "RUNNING", ![Me(t)].timer = TRUE]
  /\ db' = Record(Mine(t).key, "RUNNING")
  /\ Ends(t) /\ UNCHANGED <<active, queue>>

\* One turn of __wait_coordinator_running. When there is no pod the finally
\* clause runs after the sleep, otherwise at once.
PodPolled(t) ==
  /\ At(t, "start", "poll") /\ task[t].seen # "UNREAD"
  /\ LET s == Mine(t).state  seen == task[t].seen IN
     \/ seen = "NONE" /\ Moves(t, "repoll")
     \/ seen # "NONE" /\ s # "STARTING" /\ Releases(t)
     \/ /\ seen # "NONE" /\ s = "STARTING"
        /\ \/ /\ Mine(t).first
              /\ \/ HasRecord(Mine(t).key) /\ BecomesRunning(t)
                 \/ ~HasRecord(Mine(t).key) /\ StartFails(t)
           \/ ~Mine(t).first /\ seen = "FAILED" /\ StartFails(t)
           \/ ~Mine(t).first /\ seen # "FAILED" /\ Moves(t, "poll")
  /\ UNCHANGED <<cloudVars, spent>>

\* Faulty variant: the poll does not look at the state of the job.
PollForever(t) ==
  /\ At(t, "start", "repoll") /\ Moves(t, "poll")
  /\ UNCHANGED <<cloudVars, spent>>
PollAgain(t) ==
  /\ At(t, "start", "repoll")
  /\ \/ Mine(t).state # "STARTING" /\ Releases(t)
     \/ Mine(t).state = "STARTING" /\ Moves(t, "poll")
  /\ UNCHANGED <<cloudVars, spent>>

-----------------------------------------------------------------------------
(* __do_delete_coordinator, within any of the operations. *)

\* Faulty variant: the end of the pod is not waited for.
PodDeletedUnawaited(t) ==
  /\ task[t].op # "idle" /\ task[t].pc = "del" /\ AfterDeleted(t)
  /\ term' = IF coord[Mine(t).key] = "NONE" THEN term ELSE term \cup {Mine(t).key}
  /\ UNCHANGED <<coord, route, mail, spent>>
PodDeleted(t) ==
  /\ task[t].op # "idle" /\ task[t].pc = "del"
  /\ LET k == Mine(t).key IN
     \/ /\ coord[k] = "NONE" /\ AfterDeleted(t)
        /\ UNCHANGED term
     \/ /\ coord[k] # "NONE" /\ Moves(t, "gone")
        /\ term' = term \cup {k}
  /\ UNCHANGED <<coord, route, mail, spent>>

PodGone(t) ==
  /\ task[t].op # "idle" /\ task[t].pc = "gone" /\ task[t].seen # "UNREAD"
  /\ \/ task[t].seen = "NONE" /\ AfterDeleted(t)
     \/ task[t].seen # "NONE" /\ Moves(t, "gone")
  /\ UNCHANGED <<cloudVars, spent>>

-----------------------------------------------------------------------------
(* The rest of Job.stop. *)

\* __wait_starting_process_stopped.
StartReleased(t) ==
  /\ At(t, "stop", "await") /\ Mine(t).released
  /\ Moves(t, "stat")
  /\ UNCHANGED <<cloudVars, spent>>

\* __do_stop_coordinator has the pod's status.
StopPolled(t) ==
  /\ At(t, "stop", "stat") /\ task[t].seen # "UNREAD"
  /\ IF task[t].seen = "RUNNING" /\ Mine(t).first
       THEN Moves(t, "send") ELSE StopPodDone(t)
  /\ UNCHANGED <<cloudVars, spent>>

\* __stop_coordinator: the coordinator is told to stop, or every attempt fails.
StopSent(t) ==
  /\ At(t, "stop", "send")
  /\ LET k == Mine(t).key IN
     \/ /\ coord[k] \in {"RUNNING", "STOPPING"}
        /\ coord' = [coord EXCEPT ![k] = "STOPPING"]
        /\ UNCHANGED spent
     \/ /\ coord[k] \notin {"RUNNING", "STOPPING"}
        /\ UNCHANGED <<coord, spent>>
     \/ SpendFault /\ UNCHANGED coord
  /\ IF Mine(t).state = "STOPPED" THEN StopPodDone(t) ELSE Moves(t, "halt")
  /\ UNCHANGED <<term, route, mail>>

\* One turn of __wait_coordinator_stopped.
StopWaited(t) ==
  /\ \/ /\ At(t, "stop", "halt") /\ task[t].seen # "UNREAD"
        /\ IF task[t].seen = "RUNNING" THEN Moves(t, "nap") ELSE StopPodDone(t)
     \/ /\ At(t, "stop", "nap")
        /\ IF Mine(t).state = "STOPPED" THEN StopPodDone(t) ELSE Moves(t, "halt")
  /\ UNCHANGED <<cloudVars, spent>>

\* __wait_coordinator_stopped gives up after MAX_RETRY_TIMES * 10 turns.
StopGivesUp(t) ==
  /\ At(t, "stop", "nap") /\ SpendFault
  /\ StopPodDone(t)
  /\ UNCHANGED cloudVars

\* The status calls of stop() are made without the retry of the others: a
\* CoordinatorGetFailed ends the coroutine.
StopAborts(t) ==
  /\ At(t, "stop", "stat") \/ At(t, "stop", "halt")
  /\ task[t].seen = "UNREAD" /\ SpendFault
  /\ Ends(t)
  /\ UNCHANGED <<db, active, queue, job, cloudVars>>

\* The end of stop(): the route is removed and the job is STOPPED, unless its
\* state is another one by now.
StopEnds(t) ==
  /\ At(t, "stop", "unroute")
  /\ route' = route \ {Mine(t).key}
  /\ Ends(t)
  /\ LET k == Mine(t).key IN
     \/ /\ Mine(t).state \in {"STOPPING", "STOPPED"}
        /\ job' = [job EXCEPT ![Me(t)].state = "STOPPED"]
        /\ db' = Record(k, "STOPPED")
        /\ active' = IF HasRecord(k) THEN Finish(k) ELSE active
     \/ /\ Mine(t).state \notin {"STOPPING", "STOPPED"}
        /\ UNCHANGED <<job, db, active>>
  /\ UNCHANGED <<queue, coord, term, mail, spent>>

\* The end of Job.delete: Scheduler.__job_delete_callback.
DeleteEnds(t) ==
  /\ At(t, "delete", "unroute")
  /\ LET k == Mine(t).key IN
     /\ route' = route \ {k}
     /\ active' = Finish(k)
     /\ db' = [db EXCEPT ![k] = "ABSENT"]
  /\ Ends(t)
  /\ UNCHANGED <<queue, job, coord, term, mail, spent>>

-----------------------------------------------------------------------------
(* Heartbeats of the coordinators and their loss. *)

\* Faulty variant: a late RUNNING report is taken from a job that is stopping.
ExpectedLax ==
  [RUNNING  |-> {"RUNNING", "FINISHED", "FAILED"},
   STARTING |-> {"RUNNING", "FINISHED", "FAILED"},
   STOPPING |-> {"RUNNING", "STOPPING", "STOPPED"}]
\* __do_handle_heartbeat: the reports a state expects.
Expected ==
  [RUNNING  |-> {"RUNNING", "FINISHED", "FAILED"},
   STARTING |-> {"RUNNING", "FINISHED", "FAILED"},
   STOPPING |-> {"STOPPING", "STOPPED"}]

Expects(s, report) == s \in DOMAIN Expected /\ report \in Expected[s]

\* Scheduler.handle_heartbeat. A report of a coordinator that ended makes the
\* scheduler delete its pod.
Heartbeat(k) ==
  /\ mail[k] # "NONE"
  /\ mail' = [mail EXCEPT ![k] = "NONE"]
  /\ LET o == active[k]  report == mail[k] IN
     \/ /\ o = NoObj
        /\ UNCHANGED <<db, job, task>>
     \/ /\ o # NoObj /\ ~job[o].first
        /\ job' = [job EXCEPT ![o].first = TRUE]
        /\ UNCHANGED <<db, task>>
     \/ /\ o # NoObj /\ job[o].first /\ ~Expects(job[o].state, report)
        /\ UNCHANGED <<db, job, task>>
     \/ /\ o # NoObj /\ job[o].first /\ Expects(job[o].state, report)
        /\ db' = Record(k, report)
        /\ \/ /\ report \notin {"FINISHED", "FAILED"}
              /\ job' = [job EXCEPT ![o].state = report, ![o].timer = TRUE]
              /\ UNCHANGED task
           \/ /\ report \in {"FINISHED", "FAILED"} /\ HasSpareTask
              /\ job' = [job EXCEPT ![o].state = report, ![o].timer = FALSE]
              /\ task' = [task EXCEPT ![SpareTask] = Run("heartbeat", o, "del")]
  /\ UNCHANGED <<active, queue, loop, coord, term, route, spent>>

\* Nothing of the job's coordinator is left to arrive.
Silent(k) == coord[k] \notin {"PENDING", "RUNNING", "STOPPING"} /\ mail[k] = "NONE"

\* Job.__loss_heartbeat, when the timer expires. That a coordinator which still
\* reports is not heard for the whole timeout is a fault of the network.
LossHeartbeat(o) ==
  /\ job[o].timer
  /\ \/ Silent(job[o].key) /\ UNCHANGED spent
     \/ ~Silent(job[o].key) /\ SpendFault
  /\ LET k == job[o].key IN
     /\ job' = [job EXCEPT ![o].state = "FAILED", ![o].timer = FALSE]
     /\ db' = Record(k, "FAILED")
     /\ active' = IF HasRecord(k) THEN Finish(k) ELSE active
  /\ UNCHANGED <<queue, loop, task, cloudVars>>

-----------------------------------------------------------------------------
(* The requests of clients (http_server/handlers.py). *)

\* A patient client lets one request come to its end before it makes the next,
\* except that it may stop a job while it is being started, though not while the
\* selector may still answer that there are too few clients.
Stoppable(t, o) == /\ task[t].op = "start" /\ active[job[o].key] = o
                   /\ Scarce => task[t].pc # "check"
Launched(k) == \A o \in Obj : job[o].key = k =>
                 /\ ~Queued(o) /\ (job[o].timer => active[k] = o)
                 /\ \A t \in Task : RunsOn(t, o) => Stoppable(t, o)
MayIssue(k) == spent.requests < MaxRequests /\ (Patient => Quiet(k))
MayStop(k) == spent.requests < MaxRequests /\ (Patient => Launched(k))
Issued == spent' = [spent EXCEPT !.requests = @ + 1]

\* The Job object an operation acts on: the active one, or a temporary one
\* generated from the record (__gen_job_from_db).
Target(k) == IF active[k] # NoObj THEN active[k] ELSE SpareObj
HasTarget(k) == active[k] # NoObj \/ HasSpareObj
Loaded(k) == IF active[k] # NoObj THEN job[active[k]] ELSE NewJob(k, db[k])

\* Scheduler.create_job.
CreateJob(k) ==
  /\ MayIssue(k) /\ Issued
  /\ ~HasRecord(k) /\ HasSpareObj
  /\ db' = [db EXCEPT ![k] = "QUEUING"]
  /\ job' = [job EXCEPT ![SpareObj] = NewJob(k, "QUEUING")]
  /\ active' = [active EXCEPT ![k] = SpareObj]
  /\ queue' = Append(queue, SpareObj)
  /\ UNCHANGED <<loop, task, cloudVars>>

\* Scheduler.start_job. An active job is started at once, outside the queue; an
\* inactive one is queued whatever its recorded state is.
StartJob(k) ==
  /\ MayIssue(k) /\ Issued
  /\ HasRecord(k)
  /\ \/ /\ active[k] # NoObj /\ "START" \in Supported[job[active[k]].state]
        /\ HasSpareTask
        /\ Begin(active[k], SpareTask)
        /\ UNCHANGED queue
     \/ /\ active[k] = NoObj /\ HasSpareObj
        /\ job' = [job EXCEPT ![SpareObj] = NewJob(k, db[k])]
        /\ active' = [active EXCEPT ![k] = SpareObj]
        /\ queue' = Append(queue, SpareObj)
        /\ UNCHANGED <<db, task>>
  /\ UNCHANGED <<loop, cloudVars>>

\* Scheduler.stop_job and Job.stop up to its first yield.
StopJob(k) ==
  /\ MayStop(k) /\ Issued
  /\ HasRecord(k) /\ HasTarget(k) /\ HasSpareTask
  /\ "STOP" \in Supported[Loaded(k).state]
  /\ LET launching == Loaded(k).state \in Launching IN
     /\ job' = [job EXCEPT ![Target(k)] =
                  [Loaded(k) EXCEPT !.state = "STOPPING", !.closing = TRUE,
                                    !.released = IF launching THEN FALSE ELSE @]]
     /\ task' = [task EXCEPT ![SpareTask] =
                   Run("stop", Target(k), IF launching THEN "await" ELSE "stat")]
  /\ db' = Record(k, "STOPPING")
  /\ UNCHANGED <<active, queue, loop, cloudVars>>

\* Scheduler.delete_job and Job.delete up to its first yield.
DeleteJob(k) ==
  /\ MayIssue(k) /\ Issued
  /\ HasRecord(k) /\ HasTarget(k) /\ HasSpareTask
  /\ "DELETE" \in Supported[Loaded(k).state]
  /\ job' = [job EXCEPT ![Target(k)] =
               [Loaded(k) EXCEPT !.state = "DELETING", !.closing = TRUE,
                                 !.timer = FALSE]]
  /\ task' = [task EXCEPT ![SpareTask] = Run("delete", Target(k), "del")]
  /\ db' = Record(k, "DELETING")
  /\ UNCHANGED <<active, queue, loop, cloudVars>>

-----------------------------------------------------------------------------
(* The coordinators and the cloud, as the code relies on them; not part of   *)
(* the scheduler.                                                            *)

\* The process of the pod comes up.
CoordinatorRuns(k) ==
  /\ coord[k] = "PENDING" /\ k \notin term
  /\ coord' = [coord EXCEPT ![k] = "RUNNING"]
  /\ UNCHANGED <<schedVars, term, route, mail, spent>>

\* The pod fails, before or while its process runs.
CoordinatorCrashes(k) ==
  /\ coord[k] \in {"PENDING", "RUNNING", "STOPPING"}
  /\ coord' = [coord EXCEPT ![k] = "CRASHED"]
  /\ UNCHANGED <<schedVars, term, route, mail, spent>>

\* Trainer.__do_report_progress, also while the pod is being terminated.
CoordinatorReports(k) ==
  /\ coord[k] \in {"RUNNING", "STOPPING"} /\ mail[k] = "NONE"
  /\ mail' = [mail EXCEPT ![k] = coord[k]]
  /\ UNCHANGED <<schedVars, coord, term, route, spent>>

\* The end of Trainer.start: its state is reported once more, then it exits.
CoordinatorEnds(k) ==
  /\ coord[k] \in {"RUNNING", "STOPPING"} /\ mail[k] = "NONE"
  /\ \E report \in {"FAILED", "STOPPED"}
                  \cup (IF coord[k] = "RUNNING" THEN {"FINISHED"} ELSE {}) :
       mail' = [mail EXCEPT ![k] = report]
  /\ coord' = [coord EXCEPT ![k] = "EXITED"]
  /\ UNCHANGED <<schedVars, term, route, spent>>

PodRemoved(k) ==
  /\ k \in term
  /\ coord' = [coord EXCEPT ![k] = "NONE"]
  /\ term' = term \ {k}
  /\ UNCHANGED <<schedVars, route, mail, spent>>

\* A heartbeat request fails; the trainer only logs that.
HeartbeatLost(k) ==
  /\ mail[k] # "NONE" /\ SpendFault
  /\ mail' = [mail EXCEPT ![k] = "NONE"]
  /\ UNCHANGED <<schedVars, coord, term, route>>

\* The process exits, for one because the retries of a database, cloud or proxy
\* operation are used up (exit_abnormally), and is started again.
Restart ==
  /\ spent.restarts < MaxRestarts
  /\ spent' = [spent EXCEPT !.restarts = @ + 1]
  /\ Reboot
  /\ UNCHANGED cloudVars

-----------------------------------------------------------------------------

Init ==
  /\ db = [k \in Key |-> "ABSENT"]
  /\ active = [k \in Key |-> NoObj]
  /\ queue = <<>>
  /\ loop = NoTask
  /\ job = [o \in Obj |-> Blank]
  /\ task = [t \in Task |-> NoRun]
  /\ coord = [k \in Key |-> "NONE"]
  /\ term = {} /\ route = {}
  /\ mail = [k \in Key |-> "NONE"]
  /\ spent = [requests |-> 0, restarts |-> 0, faults |-> 0]

StartStep(t) ==
  \/ ClientsEnough(t) \/ CheckAgain(t) \/ RouteAdded(t) \/ PodCreated(t)
  \/ PodPolled(t) \/ PollAgain(t)
DeletionStep(t) == PodDeleted(t) \/ PodGone(t)
StopStep(t) == StartReleased(t) \/ StopPolled(t) \/ StopSent(t) \/ StopWaited(t)
EndStep(t) == StopEnds(t) \/ DeleteEnds(t)

\* What a coroutine does when the calls it makes are answered.
Proceeds(t) == ReadPhase(t) \/ StartStep(t) \/ DeletionStep(t) \/ StopStep(t) \/ EndStep(t)

\* What may go wrong for it.
Suffers(t) ==
  \/ ClientsScarce(t) \/ ClientsUnknown(t) \/ RetrySkipped(t) \/ CreateRaises(t)
  \/ StopGivesUp(t) \/ StopAborts(t)

Request(k) == CreateJob(k) \/ StartJob(k) \/ StopJob(k) \/ DeleteJob(k)

Cloud(k) ==
  \/ CoordinatorRuns(k) \/ CoordinatorCrashes(k) \/ CoordinatorReports(k)
  \/ CoordinatorEnds(k) \/ PodRemoved(k) \/ HeartbeatLost(k)

Next ==
  \/ TakeJob
  \/ \E t \in Task : Proceeds(t) \/ Suffers(t)
  \/ \E k \in Key : Heartbeat(k) \/ Request(k) \/ Cloud(k)
  \/ \E o \in Obj : LossHeartbeat(o)
  \/ Restart

Spec == Init /\ [][Next]_vars

\* The event loop runs whatever is ready; calls are answered; the cloud brings
\* pods up and removes the terminated ones; a coordinator that runs reports
\* every REPORT_PERIOD, and one that was told to stop ends. The timer expires
\* when no heartbeat re-arms it: only silence makes it do so for certain.
Fairness ==
  /\ WF_vars(TakeJob)
  /\ \A t \in Task : WF_vars(Proceeds(t))
  /\ \A k \in Key : /\ WF_vars(Heartbeat(k))
                    /\ WF_vars(CoordinatorRuns(k))
                    /\ WF_vars(CoordinatorReports(k))
                    /\ SF_vars(coord[k] = "STOPPING" /\ CoordinatorEnds(k))
                    /\ WF_vars(PodRemoved(k))
  /\ \A o \in Obj : WF_vars(Silent(job[o].key) /\ LossHeartbeat(o))

FairSpec == Spec /\ Fairness

-----------------------------------------------------------------------------
(* Properties. *)

\* A job the scheduler answers for is in the database, under its own key, so a
\* restart finds it (__restore_jobs) and its object is that of the job.
ActiveIsPersisted ==
  \A k \in Key : active[k] # NoObj => HasRecord(k) /\ job[active[k]].key = k

Attended(o) ==
  Queued(o) \/ job[o].timer \/ \E t \in Task : RunsOn(t, o)

\* An active job is never stranded: it is in the queue, a coroutine is at work
\* on it, or the timer that watches its coordinator is armed. The exception are
\* jobs that a stop or a delete was accepted for.
NeverStranded ==
  \A k \in Key : active[k] # NoObj => Attended(active[k]) \/ job[active[k]].closing

\* A record appears only by create_job, fresh and queued: what is left of a
\* deleted job in memory never writes its record again.
NoResurrection ==
  [][\A k \in Key : ~HasRecord(k) /\ HasRecord(k)' =>
       /\ db'[k] = "QUEUING"
       /\ active'[k] # NoObj
       /\ queue' # <<>> /\ queue'[Len(queue')] = active'[k]]_vars

\* What a client reads is what the scheduler goes by: the record of an active
\* job holds the state of its Job object.
RecordMirrorsJob ==
  \A k \in Key : active[k] # NoObj => db[k] = job[active[k]].state

\* No coordinator outlives a job that was deleted (docs/apis.md:302: a deleted job is
\* gone), whatever stop(), start() and a restart were doing; nor one that was stopped or
\* finished, unless a restart came between the record and the removal of the pod.
SettledMeansGone ==
  \A k \in Key :
    /\ AtRest(k)
    /\ db[k] \in {"ABSENT"} \cup IF spent.restarts = 0 THEN {"STOPPED", "FINISHED"} ELSE {}
    => coord[k] = "NONE"

\* The abstract life cycle, seen in the records.
Lifecycle == INSTANCE JobLifecycle WITH record <- db, restarted <- spent.restarts > 0
SettlesLikeLifecycle == Lifecycle!FairSpec

\* The queue keeps moving: no start() blocks the jobs behind it for ever.
QueueMoves == \A o \in Obj : Queued(o) ~> ~Queued(o)

\* The death of a running job's coordinator is noticed, or it is replaced.
DeathIsNoticed ==
  \A k \in Key : db[k] = "RUNNING" /\ Silent(k) ~> db[k] # "RUNNING" \/ ~Silent(k)

(* What a test says and the code does not do. *)

\* test_job.py:988: nothing can be done to a job that is being deleted.
DeletingIsFinal ==
  [][\A k \in Key : db[k] = "DELETING" => db'[k] \in {"DELETING", "ABSENT"}]_vars

==============================================================================
