------------------------ MODULE JobScheduler_proofs ------------------------
(***************************************************************************)
(* Theorems about JobScheduler, for any number of jobs, Job objects and    *)
(* coroutines, and any bounds on requests and restarts. The first half is  *)
(* about any clients and any failures. The second half assumes Patient,    *)
(* and from "no call fails" on also MaxFaults = 0: TLC finds RecordsMirror *)
(* violated without the former, SettledGone and LivesLikeLifecycle without *)
(* either.                                                                 *)
(***************************************************************************)
EXTENDS JobScheduler, FiniteSetTheorems, TLAPS

-----------------------------------------------------------------------------
(* The objects and coroutines that are chosen. *)

\* An object that SpareObj picks is not in use.
LEMMA SpareObjIsSpare ==
  ASSUME HasSpareObj
  PROVE  SpareObj \in Obj /\ ~InUse(SpareObj)
BY DEF HasSpareObj, SpareObj

\* A coroutine that SpareTask picks is idle.
LEMMA SpareTaskIsIdle ==
  ASSUME HasSpareTask
  PROVE  SpareTask \in Task /\ task[SpareTask].op = "idle"
BY DEF HasSpareTask, SpareTask, Idle

\* A restart gives every key an object and a coroutine of its own.
LEMMA RestoredApart ==
  /\ ObjFor \in [Key -> Obj] /\ \A k, l \in Key : ObjFor[k] = ObjFor[l] => k = l
  /\ TaskFor \in [Key -> Task] /\ \A k, l \in Key : TaskFor[k] = TaskFor[l] => k = l
<1>1. ObjFor \in Injections(Key, Obj)
  BY PoolAssumption DEF ObjFor, Injections
<1>2. TaskFor \in Injections(Key, Task)
  BY PoolAssumption DEF TaskFor, Injections
<1> QED BY <1>1, <1>2 DEF Injections

LEMMA RestoredQueue ==
  ASSUME NEW q \in Orders(Requeued)
  PROVE  /\ q \in Seq(Obj)
         /\ \A o \in Requeued : \E i \in DOMAIN q : q[i] = o
<1>1. Requeued \subseteq Obj
  BY RestoredApart DEF Requeued
<1>2. IsFiniteSet(Requeued)
  BY <1>1, PoolAssumption, FS_Subset
<1>3. Cardinality(Requeued) \in Nat
  BY <1>2, FS_CardinalityType
<1>4. q \in [1..Cardinality(Requeued) -> Obj]
  BY <1>1 DEF Orders
<1> QED BY <1>3, <1>4 DEF Orders

LEMMA BlankType == Blank \in JobRecord
BY PoolAssumption DEF Blank, NewJob, JobRecord, State

LEMMA NewJobType ==
  ASSUME NEW k \in Key, NEW s \in State
  PROVE  NewJob(k, s) \in JobRecord
BY DEF NewJob, JobRecord

LEMMA TaskRecords ==
  /\ NoRun \in TaskRecord
  /\ \A op \in Op, o \in Obj, pc \in Pc : Run(op, o, pc) \in TaskRecord
BY DEF TaskRecord, NoRun, Run, Seen

\* A coroutine in progress works on an object, and moves between known yields.
LEMMA TaskMoves ==
  ASSUME TypeOK, NEW t \in Task, task[t].op # "idle"
  PROVE  /\ Me(t) \in Obj /\ Mine(t) \in JobRecord /\ Mine(t).key \in Key
         /\ task[t].op \in Op /\ task[t].pc \in Pc
         /\ \A pc \in Pc : Goto(t, pc) \in [Task -> TaskRecord]
         /\ Ended(t) \in [Task -> TaskRecord]
<1>1. task[t] \in [op : Op, obj : Obj, pc : Pc, seen : Seen]
  BY DEF TypeOK, TaskRecord, NoRun
<1>2. Me(t) \in Obj /\ task[t].op \in Op /\ task[t].pc \in Pc
  BY <1>1 DEF Me
<1>3. Mine(t) \in JobRecord /\ Mine(t).key \in Key
  BY <1>2 DEF TypeOK, Mine, JobRecord
<1>4. ASSUME NEW pc \in Pc
      PROVE  Goto(t, pc) \in [Task -> TaskRecord]
  <2>1. [task[t] EXCEPT !.pc = pc, !.seen = "UNREAD"] \in TaskRecord
    BY <1>1 DEF TaskRecord, Seen
  <2> QED BY <2>1 DEF Goto, TypeOK
<1>5. Ended(t) \in [Task -> TaskRecord]
  BY TaskRecords DEF Ended, TypeOK
<1> QED BY <1>2, <1>3, <1>4, <1>5

\* Records are written as states.
LEMMA RecordType ==
  ASSUME TypeOK, NEW k \in Key, NEW s \in State
  PROVE  Record(k, s) \in [Key -> Recordable]
BY DEF Record, TypeOK, Recordable

LEMMA FinishType ==
  ASSUME TypeOK, NEW k \in Key
  PROVE  Finish(k) \in [Key -> Obj \cup {NoObj}]
BY DEF Finish, TypeOK

\* The types of what the scheduler itself keeps.
SchedTypeOK ==
  /\ db \in [Key -> Recordable]
  /\ active \in [Key -> Obj \cup {NoObj}]
  /\ queue \in Seq(Obj)
  /\ loop \in Task \cup {NoTask}
  /\ job \in [Obj -> JobRecord]
  /\ task \in [Task -> TaskRecord]

CloudTypeOK ==
  /\ coord \in [Key -> CoordState]
  /\ term \subseteq Key
  /\ route \subseteq Key
  /\ mail \in [Key -> Report \cup {"NONE"}]
  /\ spent \in [requests : Nat, restarts : Nat, faults : Nat]

LEMMA TypeParts == TypeOK <=> SchedTypeOK /\ CloudTypeOK
BY DEF TypeOK, SchedTypeOK, CloudTypeOK

LEMMA MovesType ==
  ASSUME TypeOK, NEW t \in Task, task[t].op # "idle", NEW pc \in Pc, Moves(t, pc)
  PROVE  SchedTypeOK'
BY TaskMoves DEF Moves, SchedTypeOK, TypeOK

LEMMA EndsType ==
  ASSUME TypeOK, NEW t \in Task, task[t].op # "idle", Ends(t)
  PROVE  task' \in [Task -> TaskRecord] /\ loop' \in Task \cup {NoTask}
BY TaskMoves DEF Ends, Resumed, TypeOK

LEMMA RestoredJobType ==
  ASSUME NEW k \in Key, db[k] \in State
  PROVE  RestoredJob(k) \in JobRecord
<1> DEFINE timer == db[k] = "RUNNING"
           closing == db[k] \in {"DELETING", "STOPPING"}
<1>1. timer \in BOOLEAN /\ closing \in BOOLEAN
  OBVIOUS
<1>2. RestoredJob(k) = [NewJob(k, db[k]) EXCEPT !.timer = timer, !.closing = closing]
  BY DEF RestoredJob
<1> HIDE DEF timer, closing
<1> QED BY <1>1, <1>2 DEF NewJob, JobRecord

LEMMA RebootType ==
  ASSUME TypeOK, Reboot
  PROVE  SchedTypeOK'
<1>1. queue' \in Seq(Obj)
  BY RestoredQueue DEF Reboot
<1>2. job' \in [Obj -> JobRecord]
  <2> SUFFICES ASSUME NEW o \in Obj
               PROVE  job'[o] \in JobRecord
    BY DEF Reboot
  <2>1. CASE \E k \in Key : ObjFor[k] = o /\ HasRecord(k)
    <3> DEFINE l == CHOOSE k \in Key : ObjFor[k] = o
    <3>1. l \in Key /\ HasRecord(l)
      BY <2>1, RestoredApart
    <3>2. db[l] \in State
      BY <3>1 DEF TypeOK, HasRecord, Recordable
    <3> HIDE DEF l
    <3>3. RestoredJob(l) \in JobRecord
      BY <3>1, <3>2, RestoredJobType
    <3> USE DEF l
    <3> QED BY <2>1, <3>3 DEF Reboot
  <2>2. CASE ~ \E k \in Key : ObjFor[k] = o /\ HasRecord(k)
    BY <2>2, BlankType DEF Reboot
  <2> QED BY <2>1, <2>2
<1>3. task' \in [Task -> TaskRecord]
  <2>1. \A k \in Key : RestoredRun(k) \in TaskRecord
    BY RestoredApart, TaskRecords DEF RestoredRun, Op, Pc, Polling
  <2> QED BY <2>1, TaskRecords DEF Reboot
<1>4. active' \in [Key -> Obj \cup {NoObj}]
  BY RestoredApart DEF Reboot
<1> QED BY <1>1, <1>2, <1>3, <1>4 DEF Reboot, SchedTypeOK, TypeOK

-----------------------------------------------------------------------------
(* Types are preserved by the parts of the actions, ... *)

\* A change of a job's state and flags leaves it a job.
LEMMA JobUpdates ==
  ASSUME TypeOK, NEW o \in Obj, NEW s \in State, NEW b \in BOOLEAN
  PROVE  /\ [job[o] EXCEPT !.state = s] \in JobRecord
         /\ [job EXCEPT ![o].state = s] \in [Obj -> JobRecord]
         /\ [job EXCEPT ![o].state = s, ![o].timer = b] \in [Obj -> JobRecord]
         /\ [job EXCEPT ![o].state = s, ![o].first = FALSE, ![o].timer = FALSE]
              \in [Obj -> JobRecord]
         /\ [job EXCEPT ![o].timer = b] \in [Obj -> JobRecord]
         /\ [job EXCEPT ![o].first = TRUE] \in [Obj -> JobRecord]
         /\ [job EXCEPT ![o].released = TRUE] \in [Obj -> JobRecord]
<1>1. job \in [Obj -> JobRecord] /\ job[o] \in JobRecord
  BY DEF TypeOK
<1>2. \A r \in JobRecord : [job EXCEPT ![o] = r] \in [Obj -> JobRecord]
  BY <1>1
<1>3. /\ [job[o] EXCEPT !.state = s] \in JobRecord
      /\ [job[o] EXCEPT !.timer = b] \in JobRecord
      /\ [job[o] EXCEPT !.first = TRUE] \in JobRecord
      /\ [job[o] EXCEPT !.released = TRUE] \in JobRecord
  BY <1>1 DEF JobRecord
<1>4. /\ [job[o] EXCEPT !.state = s, !.timer = b] \in JobRecord
      /\ [job[o] EXCEPT !.state = s, !.first = FALSE, !.timer = FALSE] \in JobRecord
  BY <1>1 DEF JobRecord
<1>5. /\ [job EXCEPT ![o].state = s] = [job EXCEPT ![o] = [job[o] EXCEPT !.state = s]]
      /\ [job EXCEPT ![o].timer = b] = [job EXCEPT ![o] = [job[o] EXCEPT !.timer = b]]
      /\ [job EXCEPT ![o].first = TRUE] = [job EXCEPT ![o] = [job[o] EXCEPT !.first = TRUE]]
      /\ [job EXCEPT ![o].released = TRUE] = [job EXCEPT ![o] = [job[o] EXCEPT !.released = TRUE]]
  BY <1>1
<1>6. /\ [job EXCEPT ![o].state = s, ![o].timer = b]
           = [job EXCEPT ![o] = [job[o] EXCEPT !.state = s, !.timer = b]]
      /\ [job EXCEPT ![o].state = s, ![o].first = FALSE, ![o].timer = FALSE]
           = [job EXCEPT ![o] = [job[o] EXCEPT !.state = s, !.first = FALSE, !.timer = FALSE]]
  BY <1>1
<1> QED BY <1>2, <1>3, <1>4, <1>5, <1>6

LEMMA BeginType ==
  ASSUME TypeOK, NEW o \in Obj, NEW t \in Task, Begin(o, t)
  PROVE  /\ db' \in [Key -> Recordable] /\ active' \in [Key -> Obj \cup {NoObj}]
         /\ job' \in [Obj -> JobRecord] /\ task' \in [Task -> TaskRecord]
<1>1. job[o].key \in Key
  BY DEF TypeOK, JobRecord
<1>2. {"STARTING", "FAILED"} \subseteq State
  BY DEF State
<1>3. Run("start", o, "check") \in TaskRecord
  BY TaskRecords DEF Op, Pc
<1>4. job' \in [Obj -> JobRecord]
  <2> DEFINE begun(s) == [job EXCEPT ![o].state = s, ![o].first = FALSE, ![o].timer = FALSE]
  <2>1. \A s \in State : begun(s) \in [Obj -> JobRecord]
    BY JobUpdates
  <2>2. job' = begun("STARTING") \/ job' = begun("FAILED")
    BY DEF Begin
  <2> HIDE DEF begun
  <2> QED BY <1>2, <2>1, <2>2
<1>5. db' \in [Key -> Recordable]
  BY <1>1, <1>2, RecordType DEF Begin
<1>6. active' \in [Key -> Obj \cup {NoObj}]
  BY <1>1, FinishType DEF Begin, TypeOK
<1>7. task' \in [Task -> TaskRecord]
  BY <1>3 DEF Begin, TypeOK
<1> QED BY <1>4, <1>5, <1>6, <1>7

LEMMA StartFailsType ==
  ASSUME TypeOK, NEW t \in Task, task[t].op # "idle", StartFails(t)
  PROVE  SchedTypeOK'
<1>1. "FAILED" \in State
  BY DEF State
<1>2. [job EXCEPT ![Me(t)].state = "FAILED"] \in [Obj -> JobRecord]
  BY <1>1, TaskMoves, JobUpdates
<1>3. /\ Record(Mine(t).key, "FAILED") \in [Key -> Recordable]
      /\ Finish(Mine(t).key) \in [Key -> Obj \cup {NoObj}]
  BY <1>1, TaskMoves, RecordType, FinishType
<1>4. CASE ~ Reboot
  <2>1. Ends(t) /\ queue' = queue /\ job' = [job EXCEPT ![Me(t)].state = "FAILED"]
    BY <1>4 DEF StartFails
  <2>2. db' \in [Key -> Recordable] /\ active' \in [Key -> Obj \cup {NoObj}]
    BY <1>3, <1>4 DEF StartFails, TypeOK
  <2> QED BY <1>2, <2>1, <2>2, EndsType DEF SchedTypeOK, TypeOK
<1>5. CASE Reboot
  BY <1>5, RebootType
<1> QED BY <1>4, <1>5

LEMMA AfterDeletedType ==
  ASSUME TypeOK, NEW t \in Task, task[t].op # "idle", AfterDeleted(t)
  PROVE  SchedTypeOK'
<1>1. \A s \in State : CreatePc(s) \in Pc
  BY DEF CreatePc, Pc, Polling
<1>2. "unroute" \in Pc
  BY DEF Pc
<1>3. Mine(t).state \in State
  BY TaskMoves DEF JobRecord
<1>4. CASE task[t].op = "start"
  BY <1>1, <1>3, <1>4, MovesType DEF AfterDeleted
<1>5. CASE task[t].op \in {"stop", "delete"}
  BY <1>2, <1>5, MovesType DEF AfterDeleted
<1>6. CASE task[t].op = "heartbeat"
  BY <1>6, TaskMoves, EndsType, FinishType DEF AfterDeleted, SchedTypeOK, TypeOK
<1> QED BY <1>4, <1>5, <1>6, TaskMoves DEF Op

LEMMA StopPodDoneType ==
  ASSUME TypeOK, NEW t \in Task, task[t].op # "idle", StopPodDone(t)
  PROVE  SchedTypeOK'
<1>1. "del" \in Pc
  BY DEF Pc
<1>2. task' \in [Task -> TaskRecord]
  BY <1>1, TaskMoves DEF StopPodDone
<1>3. job' \in [Obj -> JobRecord]
  <2>1. Me(t) \in Obj
    BY TaskMoves
  <2>2. [job EXCEPT ![Me(t)].timer = FALSE] \in [Obj -> JobRecord]
    <3>1. "FAILED" \in State
      BY DEF State
    <3> QED BY <2>1, <3>1, JobUpdates
  <2> QED BY <2>2 DEF StopPodDone
<1>4. UNCHANGED <<db, active, queue, loop>>
  BY DEF StopPodDone
<1> QED BY <1>2, <1>3, <1>4 DEF SchedTypeOK, TypeOK

LEMMA RunningType ==
  ASSUME TypeOK, NEW t \in Task, task[t].op # "idle",
         BecomesRunning(t) \/ Releases(t)
  PROVE  SchedTypeOK'
<1>1. "RUNNING" \in State
  BY DEF State
<1>2. job' \in [Obj -> JobRecord]
  <2>1. CASE BecomesRunning(t)
    <3>1. [job EXCEPT ![Me(t)].state = "RUNNING", ![Me(t)].timer = TRUE] \in [Obj -> JobRecord]
      BY <1>1, TaskMoves, JobUpdates
    <3> QED BY <2>1, <3>1 DEF BecomesRunning
  <2>2. CASE Releases(t)
    <3>1. [job EXCEPT ![Me(t)].released = TRUE] \in [Obj -> JobRecord]
      BY <1>1, TaskMoves, JobUpdates
    <3> QED BY <2>2, <3>1 DEF Releases
  <2> QED BY <2>1, <2>2
<1>3. db' \in [Key -> Recordable]
  BY <1>1, TaskMoves, RecordType DEF BecomesRunning, Releases, TypeOK
<1> QED BY <1>2, <1>3, EndsType DEF BecomesRunning, Releases, SchedTypeOK, TypeOK

\* ... and by the actions.
LEMMA CoroutineTypes ==
  ASSUME TypeOK, NEW t \in Task, Proceeds(t) \/ Suffers(t)
  PROVE  SchedTypeOK'
<1> USE DEF At
<1>0. task[t].op # "idle"
  BY DEF Proceeds, ReadPhase, StartStep, DeletionStep, StopStep, EndStep, Suffers,
         ClientsEnough, CheckAgain, RouteAdded, PodCreated, PodPolled, PollAgain,
         PodDeleted, PodGone, StartReleased, StopPolled, StopSent, StopWaited,
         StopEnds, DeleteEnds, ClientsScarce, ClientsUnknown, RetrySkipped,
         CreateRaises, StopGivesUp, StopAborts
<1>s. Me(t) \in Obj /\ Mine(t) \in JobRecord /\ Mine(t).key \in Key /\ Mine(t).state \in State
  BY <1>0, TaskMoves DEF JobRecord
<1>p. \A pc \in Pc : Moves(t, pc) => SchedTypeOK'
  BY <1>0, MovesType
<1>g. \A pc \in Pc : Goto(t, pc) \in [Task -> TaskRecord]
  BY <1>0, TaskMoves
<1>c. \A s \in State : CreatePc(s) \in Pc
  BY DEF CreatePc, Pc, Polling
<1>1. CASE ReadPhase(t)
  <2>1. Phase(Mine(t).key) \in Seen
    BY <1>s DEF Phase, Seen, TypeOK, CoordState
  <2>2. task[t] \in [op : Op, obj : Obj, pc : Pc, seen : Seen]
    BY <1>0 DEF TypeOK, TaskRecord, NoRun
  <2>3. [task[t] EXCEPT !.seen = Phase(Mine(t).key)] \in TaskRecord
    BY <2>1, <2>2 DEF TaskRecord
  <2> QED BY <1>1, <2>3 DEF ReadPhase, SchedTypeOK, TypeOK
<1>2. CASE ClientsEnough(t)
  <2>1. CASE LeavesPending(t, "route")
    <3>1. [job EXCEPT ![Me(t)].state = "STARTING"] \in [Obj -> JobRecord]
      BY <1>s, JobUpdates DEF State
    <3>2. Record(Mine(t).key, "STARTING") \in [Key -> Recordable]
      BY <1>s, RecordType DEF State
    <3> QED BY <1>g, <2>1, <3>1, <3>2 DEF LeavesPending, SchedTypeOK, TypeOK, Pc
  <2>2. CASE Moves(t, "route") \/ Moves(t, "poll")
    BY <1>p, <2>2 DEF Pc, Polling
  <2> QED BY <1>2, <2>1, <2>2 DEF ClientsEnough
<1>3. CASE CheckAgain(t)
  <2>1. CASE Moves(t, "check")
    BY <1>p, <2>1 DEF Pc
  <2>2. CASE /\ job' = [job EXCEPT ![Me(t)].released = TRUE] /\ task' = Goto(t, "poll")
             /\ UNCHANGED <<db, active, queue, loop>>
    <3>1. job' \in [Obj -> JobRecord]
      BY <1>s, <2>2, JobUpdates
    <3>2. task' \in [Task -> TaskRecord]
      BY <1>g, <2>2 DEF Pc, Polling
    <3> QED BY <2>2, <3>1, <3>2 DEF SchedTypeOK, TypeOK
  <2> QED BY <1>3, <2>1, <2>2 DEF CheckAgain
<1>4. CASE RouteAdded(t)
  BY <1>4, <1>p, <1>c, <1>s DEF RouteAdded
<1>5. CASE PodCreated(t)
  BY <1>5, <1>p DEF PodCreated, Pc, Polling
<1>6. CASE PodPolled(t)
  <2>1. Moves(t, "repoll") \/ Moves(t, "poll") \/ Releases(t) \/ BecomesRunning(t) \/ StartFails(t)
    BY <1>6 DEF PodPolled
  <2> QED BY <2>1, <1>0, <1>p, RunningType, StartFailsType DEF Pc, Polling
<1>7. CASE PollAgain(t)
  BY <1>7, <1>0, <1>p, RunningType DEF PollAgain, Pc, Polling
<1>8. CASE PodDeleted(t)
  BY <1>8, <1>0, <1>p, AfterDeletedType DEF PodDeleted, Pc, Polling
<1>9. CASE PodGone(t)
  BY <1>9, <1>0, <1>p, AfterDeletedType DEF PodGone, Pc, Polling
<1>10. CASE StartReleased(t)
  BY <1>10, <1>p DEF StartReleased, Pc, Polling
<1>11. CASE StopPolled(t) \/ StopSent(t) \/ StopWaited(t) \/ StopGivesUp(t)
  <2>1. Moves(t, "send") \/ Moves(t, "halt") \/ Moves(t, "nap") \/ StopPodDone(t)
    BY <1>11 DEF StopPolled, StopSent, StopWaited, StopGivesUp
  <2> QED BY <2>1, <1>0, <1>p, StopPodDoneType DEF Pc, Polling
<1>12. CASE StopEnds(t)
  <2>1. job' \in [Obj -> JobRecord]
    <3>1. [job EXCEPT ![Me(t)].state = "STOPPED"] \in [Obj -> JobRecord]
      BY <1>s, JobUpdates DEF State
    <3> QED BY <1>12, <3>1 DEF StopEnds, TypeOK
  <2>2. db' \in [Key -> Recordable]
    <3>1. Record(Mine(t).key, "STOPPED") \in [Key -> Recordable]
      BY <1>s, RecordType DEF State
    <3> QED BY <1>12, <3>1 DEF StopEnds, TypeOK
  <2>3. active' \in [Key -> Obj \cup {NoObj}]
    BY <1>12, <1>s, FinishType DEF StopEnds, TypeOK
  <2> QED BY <1>12, <1>0, <2>1, <2>2, <2>3, EndsType DEF StopEnds, SchedTypeOK, TypeOK
<1>13. CASE DeleteEnds(t)
  <2>1. active' \in [Key -> Obj \cup {NoObj}]
    BY <1>13, <1>s, FinishType DEF DeleteEnds
  <2>2. db' \in [Key -> Recordable]
    BY <1>13, <1>s DEF DeleteEnds, TypeOK, Recordable
  <2> QED BY <1>13, <1>0, <2>1, <2>2, EndsType DEF DeleteEnds, SchedTypeOK, TypeOK
<1>14. CASE ClientsScarce(t)
  <2>1. [job EXCEPT ![Me(t)].state = "PENDING"] \in [Obj -> JobRecord]
    BY <1>s, JobUpdates DEF State
  <2>2. Record(Mine(t).key, "PENDING") \in [Key -> Recordable]
    BY <1>s, RecordType DEF State
  <2> QED BY <1>14, <1>g, <2>1, <2>2 DEF ClientsScarce, SchedTypeOK, TypeOK, Pc
<1>15. CASE ClientsUnknown(t)
  BY <1>15, <1>p DEF ClientsUnknown, Pc
<1>16. CASE RetrySkipped(t)
  BY <1>16, <1>p DEF RetrySkipped, Pc, Polling
<1>17. CASE CreateRaises(t)
  BY <1>17, <1>0, StartFailsType DEF CreateRaises
<1>18. CASE StopAborts(t)
  BY <1>18, <1>0, EndsType DEF StopAborts, SchedTypeOK, TypeOK
<1> QED
  BY <1>1, <1>2, <1>3, <1>4, <1>5, <1>6, <1>7, <1>8, <1>9, <1>10, <1>11, <1>12, <1>13,
     <1>14, <1>15, <1>16, <1>17, <1>18
     DEF Proceeds, StartStep, DeletionStep, StopStep, EndStep, Suffers

LEMMA RequestTypes ==
  ASSUME TypeOK, NEW k \in Key, Request(k)
  PROVE  SchedTypeOK'
<1>1. CASE CreateJob(k)
  <2>1. SpareObj \in Obj
    BY <1>1, SpareObjIsSpare DEF CreateJob
  <2>2. "QUEUING" \in State /\ "QUEUING" \in Recordable
    BY DEF State, Recordable
  <2>3. NewJob(k, "QUEUING") \in JobRecord
    BY <2>2, NewJobType
  <2> QED BY <1>1, <2>1, <2>2, <2>3 DEF CreateJob, SchedTypeOK, TypeOK
<1>2. CASE StartJob(k)
  <2>1. CASE active[k] # NoObj
    <3>1. active[k] \in Obj
      BY <2>1 DEF TypeOK
    <3>2. Begin(active[k], SpareTask) /\ SpareTask \in Task
      BY <1>2, <2>1, SpareTaskIsIdle DEF StartJob
    <3> QED BY <1>2, <2>1, <3>1, <3>2, BeginType DEF StartJob, SchedTypeOK, TypeOK
  <2>2. CASE active[k] = NoObj
    <3>1. SpareObj \in Obj
      BY <1>2, <2>2, SpareObjIsSpare DEF StartJob
    <3>2. db[k] \in State
      BY <1>2 DEF StartJob, HasRecord, TypeOK, Recordable
    <3>3. NewJob(k, db[k]) \in JobRecord
      BY <3>2, NewJobType
    <3>4. /\ job' = [job EXCEPT ![SpareObj] = NewJob(k, db[k])]
          /\ active' = [active EXCEPT ![k] = SpareObj]
          /\ queue' = Append(queue, SpareObj) /\ UNCHANGED <<db, task, loop>>
      BY <1>2, <2>2 DEF StartJob
    <3>5. job' \in [Obj -> JobRecord] /\ active' \in [Key -> Obj \cup {NoObj}]
      BY <3>1, <3>3, <3>4 DEF TypeOK
    <3>6. queue' \in Seq(Obj)
      BY <3>1, <3>4 DEF TypeOK
    <3> QED BY <3>4, <3>5, <3>6 DEF SchedTypeOK, TypeOK
  <2> QED BY <2>1, <2>2
<1>3. ASSUME HasTarget(k), HasRecord(k)
      PROVE  Target(k) \in Obj /\ Loaded(k) \in JobRecord
  <2>1. db[k] \in State
    BY <1>3 DEF HasRecord, TypeOK, Recordable
  <2>2. NewJob(k, db[k]) \in JobRecord
    BY <2>1, NewJobType
  <2> QED BY <1>3, <2>2, SpareObjIsSpare DEF HasTarget, Target, Loaded, TypeOK
<1>4. CASE StopJob(k)
  <2>1. Target(k) \in Obj /\ Loaded(k) \in JobRecord /\ SpareTask \in Task
    BY <1>3, <1>4, SpareTaskIsIdle DEF StopJob
  <2>2. \A b \in BOOLEAN :
          [Loaded(k) EXCEPT !.state = "STOPPING", !.closing = TRUE, !.released = b] \in JobRecord
    BY <2>1 DEF JobRecord, State
  <2>3. job' \in [Obj -> JobRecord]
    <3> DEFINE b == IF Loaded(k).state \in Launching THEN FALSE ELSE Loaded(k).released
    <3>1. b \in BOOLEAN
      BY <2>1 DEF JobRecord
    <3>2. job' = [job EXCEPT ![Target(k)] =
                    [Loaded(k) EXCEPT !.state = "STOPPING", !.closing = TRUE, !.released = b]]
      BY <1>4, <2>1 DEF StopJob, JobRecord
    <3> HIDE DEF b
    <3> QED BY <2>1, <2>2, <3>1, <3>2 DEF TypeOK
  <2>4. \A pc \in {"await", "stat"} : Run("stop", Target(k), pc) \in TaskRecord
    BY <2>1, TaskRecords DEF Op, Pc, Polling
  <2>5. task' \in [Task -> TaskRecord]
    BY <1>4, <2>1, <2>4 DEF StopJob, TypeOK
  <2>6. db' \in [Key -> Recordable]
    BY <1>4, RecordType DEF StopJob, State
  <2> QED BY <1>4, <2>3, <2>5, <2>6 DEF StopJob, SchedTypeOK, TypeOK
<1>5. CASE DeleteJob(k)
  <2>1. Target(k) \in Obj /\ Loaded(k) \in JobRecord /\ SpareTask \in Task
    BY <1>3, <1>5, SpareTaskIsIdle DEF DeleteJob
  <2>2. [Loaded(k) EXCEPT !.state = "DELETING", !.closing = TRUE, !.timer = FALSE] \in JobRecord
    BY <2>1 DEF JobRecord, State
  <2>3. job' \in [Obj -> JobRecord]
    BY <1>5, <2>1, <2>2 DEF DeleteJob, TypeOK
  <2>4. Run("delete", Target(k), "del") \in TaskRecord
    BY <2>1, TaskRecords DEF Op, Pc
  <2>5. task' \in [Task -> TaskRecord]
    BY <1>5, <2>1, <2>4 DEF DeleteJob, TypeOK
  <2>6. db' \in [Key -> Recordable]
    BY <1>5, RecordType DEF DeleteJob, State
  <2> QED BY <1>5, <2>3, <2>5, <2>6 DEF DeleteJob, SchedTypeOK, TypeOK
<1> QED BY <1>1, <1>2, <1>4, <1>5 DEF Request

LEMMA HeartbeatTypes ==
  ASSUME TypeOK
  PROVE  /\ \A k \in Key : Heartbeat(k) => SchedTypeOK'
         /\ \A o \in Obj : LossHeartbeat(o) => SchedTypeOK'
<1>1. ASSUME NEW k \in Key, Heartbeat(k)
      PROVE  SchedTypeOK'
  <2> DEFINE o == active[k]
             report == mail[k]
  <2>1. report \in State
    BY <1>1 DEF Heartbeat, TypeOK, Report, State
  <2>2. CASE UNCHANGED <<db, job, task>>
    BY <1>1, <2>2 DEF Heartbeat, SchedTypeOK, TypeOK
  <2>3. CASE o # NoObj /\ ~job[o].first
    <3>1. [job EXCEPT ![o].first = TRUE] \in [Obj -> JobRecord]
      BY <2>1, <2>3, JobUpdates DEF TypeOK
    <3> QED BY <1>1, <2>3, <3>1 DEF Heartbeat, SchedTypeOK, TypeOK
  <2>4. CASE o # NoObj /\ job[o].first /\ Expects(job[o].state, report)
    <3>1. Record(k, report) \in [Key -> Recordable]
      BY <2>1, RecordType
    <3>2. \A b \in BOOLEAN :
            [job EXCEPT ![o].state = report, ![o].timer = b] \in [Obj -> JobRecord]
      BY <2>1, <2>4, JobUpdates DEF TypeOK
    <3>3. CASE report \notin {"FINISHED", "FAILED"}
      BY <1>1, <2>4, <3>1, <3>2, <3>3 DEF Heartbeat, SchedTypeOK, TypeOK
    <3>4. CASE report \in {"FINISHED", "FAILED"}
      <4>1. SpareTask \in Task
        BY <1>1, <2>4, <3>4, SpareTaskIsIdle DEF Heartbeat
      <4>2. Run("heartbeat", o, "del") \in TaskRecord
        BY <2>4, TaskRecords DEF TypeOK, Op, Pc
      <4>3. /\ UNCHANGED <<active, queue, loop>> /\ db' = Record(k, report)
            /\ job' = [job EXCEPT ![o].state = report, ![o].timer = FALSE]
            /\ task' = [task EXCEPT ![SpareTask] = Run("heartbeat", o, "del")]
        BY <1>1, <2>4, <3>4 DEF Heartbeat
      <4>4. job' \in [Obj -> JobRecord]
        BY <3>2, <4>3
      <4>5. task' \in [Task -> TaskRecord]
        BY <4>1, <4>2, <4>3 DEF TypeOK
      <4> QED BY <3>1, <4>3, <4>4, <4>5 DEF SchedTypeOK, TypeOK
    <3> QED BY <3>3, <3>4
  <2> QED BY <1>1, <2>2, <2>3, <2>4 DEF Heartbeat
<1>2. ASSUME NEW o \in Obj, LossHeartbeat(o)
      PROVE  SchedTypeOK'
  <2>1. job[o].key \in Key /\ "FAILED" \in State
    BY DEF TypeOK, JobRecord, State
  <2>2. [job EXCEPT ![o].state = "FAILED", ![o].timer = FALSE] \in [Obj -> JobRecord]
    BY <2>1, JobUpdates
  <2>3. Record(job[o].key, "FAILED") \in [Key -> Recordable]
    BY <2>1, RecordType
  <2>4. active' \in [Key -> Obj \cup {NoObj}]
    BY <1>2, <2>1, FinishType DEF LossHeartbeat, TypeOK
  <2> QED BY <1>2, <2>2, <2>3, <2>4 DEF LossHeartbeat, SchedTypeOK, TypeOK
<1> QED BY <1>1, <1>2

LEMMA TakeJobTypes ==
  ASSUME TypeOK, TakeJob
  PROVE  SchedTypeOK'
<1>1. Head(queue) \in Obj /\ Tail(queue) \in Seq(Obj)
  BY DEF TakeJob, TypeOK
<1>2. CASE active[job[Head(queue)].key] = NoObj
  BY <1>1, <1>2 DEF TakeJob, SchedTypeOK, TypeOK
<1>3. CASE active[job[Head(queue)].key] # NoObj
  <2>1. SpareTask \in Task /\ Begin(Head(queue), SpareTask)
    BY <1>3, SpareTaskIsIdle DEF TakeJob
  <2>2. loop' \in Task \cup {NoTask} /\ queue' \in Seq(Obj)
    BY <1>1, <1>3, <2>1 DEF TakeJob
  <2> QED BY <1>1, <2>1, <2>2, BeginType DEF SchedTypeOK
<1> QED BY <1>2, <1>3

LEMMA SpendFaultType ==
  ASSUME TypeOK, SpendFault
  PROVE  spent' \in [requests : Nat, restarts : Nat, faults : Nat]
BY DEF SpendFault, TypeOK

LEMMA CloudTypes ==
  ASSUME TypeOK, Next
  PROVE  CloudTypeOK'
<1> USE DEF TypeOK, CloudTypeOK, cloudVars
<1>1. CASE TakeJob
  BY <1>1 DEF TakeJob
<1>2. ASSUME NEW t \in Task, Proceeds(t) \/ Suffers(t)
      PROVE  CloudTypeOK'
  <2>1. CASE \/ ReadPhase(t) \/ ClientsEnough(t) \/ CheckAgain(t) \/ PodPolled(t)
             \/ PollAgain(t) \/ PodGone(t) \/ StartReleased(t) \/ StopPolled(t)
             \/ StopWaited(t) \/ ClientsScarce(t) \/ RetrySkipped(t)
    BY <2>1 DEF ReadPhase, ClientsEnough, CheckAgain, PodPolled, PollAgain, PodGone,
                StartReleased, StopPolled, StopWaited, ClientsScarce, RetrySkipped
  <2>2. CASE ClientsUnknown(t) \/ CreateRaises(t) \/ StopGivesUp(t) \/ StopAborts(t)
    BY <2>2, SpendFaultType DEF ClientsUnknown, CreateRaises, StopGivesUp, StopAborts
  <2>3. CASE RouteAdded(t) \/ StopEnds(t) \/ DeleteEnds(t)
    <3>1. Mine(t).key \in Key
      BY <2>3, TaskMoves DEF RouteAdded, StopEnds, DeleteEnds, At
    <3> QED BY <2>3, <3>1 DEF RouteAdded, StopEnds, DeleteEnds
  <2>4. CASE PodCreated(t) \/ PodDeleted(t)
    <3>1. Mine(t).key \in Key
      BY <2>4, TaskMoves DEF PodCreated, PodDeleted, At
    <3> QED BY <2>4, <3>1 DEF PodCreated, PodDeleted, CoordState
  <2>5. CASE StopSent(t)
    <3>1. spent' \in [requests : Nat, restarts : Nat, faults : Nat]
      BY <2>5, SpendFaultType DEF StopSent
    <3>2. coord' \in [Key -> CoordState]
      BY <2>5 DEF StopSent, CoordState
    <3> QED BY <2>5, <3>1, <3>2 DEF StopSent
  <2> QED BY <1>2, <2>1, <2>2, <2>3, <2>4, <2>5
          DEF Proceeds, StartStep, DeletionStep, StopStep, EndStep, Suffers
<1>3. ASSUME NEW k \in Key, Heartbeat(k)
      PROVE  CloudTypeOK'
  BY <1>3 DEF Heartbeat
<1>4. ASSUME NEW k \in Key, Request(k)
      PROVE  CloudTypeOK'
  BY <1>4 DEF Request, CreateJob, StartJob, StopJob, DeleteJob, Issued
<1>5. ASSUME NEW k \in Key, Cloud(k)
      PROVE  CloudTypeOK'
  <2>1. CASE CoordinatorRuns(k) \/ CoordinatorCrashes(k) \/ PodRemoved(k)
    BY <2>1 DEF CoordinatorRuns, CoordinatorCrashes, PodRemoved, CoordState
  <2>2. CASE CoordinatorReports(k) \/ CoordinatorEnds(k)
    BY <2>2 DEF CoordinatorReports, CoordinatorEnds, CoordState, Report
  <2>3. CASE HeartbeatLost(k)
    BY <2>3, SpendFaultType DEF HeartbeatLost
  <2> QED BY <1>5, <2>1, <2>2, <2>3 DEF Cloud
<1>6. ASSUME NEW o \in Obj, LossHeartbeat(o)
      PROVE  CloudTypeOK'
  BY <1>6, SpendFaultType DEF LossHeartbeat
<1>7. CASE Restart
  BY <1>7 DEF Restart
<1> QED BY <1>1, <1>2, <1>3, <1>4, <1>5, <1>6, <1>7 DEF Next

LEMMA TypeInit == Init => TypeOK
BY BlankType, TaskRecords DEF Init, TypeOK, Recordable, CoordState

LEMMA TypeNext == TypeOK /\ [Next]_vars => TypeOK'
<1>1. CASE UNCHANGED vars
  BY <1>1 DEF vars, schedVars, cloudVars, TypeOK
<1>2. ASSUME TypeOK, Next
      PROVE  TypeOK'
  <2>1. SchedTypeOK'
    <3>1. ASSUME NEW k \in Key, Cloud(k)
          PROVE  SchedTypeOK'
      BY <1>2, <3>1 DEF Cloud, CoordinatorRuns, CoordinatorCrashes, CoordinatorReports,
           CoordinatorEnds, PodRemoved, HeartbeatLost, schedVars, SchedTypeOK, TypeOK
    <3>2. Restart => SchedTypeOK'
      BY <1>2, RebootType DEF Restart
    <3> QED BY <1>2, <3>1, <3>2, TakeJobTypes, CoroutineTypes, RequestTypes, HeartbeatTypes
            DEF Next
  <2> QED BY <1>2, <2>1, CloudTypes, TypeParts DEF SchedTypeOK, CloudTypeOK, TypeOK
<1> QED BY <1>1, <1>2

\* The scheduler's state, the cloud's and the messages between them keep their
\* types whatever the clients, the cloud and the failures do.
THEOREM TypeCorrect == Spec => []TypeOK
BY TypeInit, TypeNext, PTL DEF Spec

-----------------------------------------------------------------------------
(* The inductive invariant behind ActiveIsPersisted and NeverStranded.       *)
(*                                                                           *)
(* NeverStranded is not inductive: nothing in it says why the end of a       *)
(* coroutine leaves something else at work. What does is the state of the    *)
(* job: a job that is STARTING has a start() in progress, one that is        *)
(* PENDING has a start() that still asks for clients, one that is RUNNING    *)
(* has its timer armed, and one that ended is waiting for the heartbeat's    *)
(* coroutine to delete its pod. A stop() or delete() runs on closing jobs    *)
(* only.                                                                     *)

StartsOn(o) == \E t \in Task : RunsOn(t, o) /\ task[t].op = "start"
WaitsOn(o) == \E t \in Task :
  RunsOn(t, o) /\ task[t].op = "start" /\ task[t].pc \in {"check", "backoff"}
EndsOn(o) == \E t \in Task : RunsOn(t, o) /\ task[t].op = "heartbeat"

Covered(o) ==
  \/ Queued(o)
  \/ job[o].closing
  \/ job[o].state = "STARTING" /\ StartsOn(o)
  \/ job[o].state = "PENDING" /\ WaitsOn(o)
  \/ job[o].state = "RUNNING" /\ job[o].timer
  \/ job[o].state \in {"FINISHED", "FAILED"} /\ EndsOn(o)

AllCovered == \A k \in Key : active[k] # NoObj => Covered(active[k])

CloseClosing == \A t \in Task : task[t].op \in {"stop", "delete"} => job[Me(t)].closing

Guarded == ActiveIsPersisted /\ AllCovered /\ CloseClosing

IInv == TypeOK /\ Guarded

\* What a step of coroutine t leaves alone, as long as it does not restart the
\* process: everything of other coroutines and objects, and whose job is whose.
Steady(t) ==
  /\ queue' = queue
  /\ \A u \in Task : u # t => task'[u] = task[u]
  /\ task'[t] = NoRun \/ (task'[t].op = task[t].op /\ task'[t].obj = task[t].obj)
  /\ \A o \in Obj : o # Me(t) => job'[o] = job[o]
  /\ job'[Me(t)].key = Mine(t).key /\ job'[Me(t)].closing = Mine(t).closing
  /\ \A k \in Key : active'[k] = active[k] \/ active'[k] = NoObj
  /\ \A k \in Key : HasRecord(k)' => HasRecord(k)
  /\ \A k \in Key : HasRecord(k) /\ active'[k] # NoObj => HasRecord(k)'

LEMMA RecordKeeps ==
  ASSUME TypeOK, NEW k \in Key, NEW s \in State
  PROVE  \A l \in Key : HasRecord(l) <=> Record(k, s)[l] # "ABSENT"
BY DEF HasRecord, Record, TypeOK, State

LEMMA MovesSteady ==
  ASSUME TypeOK, NEW t \in Task, task[t].op # "idle", NEW pc \in Pc, Moves(t, pc)
  PROVE  Steady(t)
<1>1. task[t] \in [op : Op, obj : Obj, pc : Pc, seen : Seen]
  BY DEF TypeOK, TaskRecord, NoRun
<1> QED BY <1>1 DEF Moves, Goto, Steady, Mine, HasRecord, TypeOK

LEMMA GotoSteady ==
  ASSUME TypeOK, NEW t \in Task, task[t].op # "idle", NEW pc \in Pc, task' = Goto(t, pc)
  PROVE  /\ \A u \in Task : u # t => task'[u] = task[u]
         /\ task'[t].op = task[t].op /\ task'[t].obj = task[t].obj /\ task'[t].pc = pc
<1>1. task[t] \in [op : Op, obj : Obj, pc : Pc, seen : Seen]
  BY DEF TypeOK, TaskRecord, NoRun
<1> QED BY <1>1 DEF Goto, TypeOK

LEMMA EndsSteady ==
  ASSUME TypeOK, NEW t \in Task, Ends(t)
  PROVE  /\ \A u \in Task : u # t => task'[u] = task[u]
         /\ task'[t] = NoRun
BY DEF Ends, Ended, TypeOK

\* The coroutine's object changes neither its key nor that it is closing.
LEMMA MineSteady ==
  ASSUME TypeOK, NEW t \in Task, task[t].op # "idle", NEW s \in State,
         \/ job' = [job EXCEPT ![Me(t)].state = s]
         \/ job' = [job EXCEPT ![Me(t)].state = s, ![Me(t)].timer = TRUE]
         \/ job' = [job EXCEPT ![Me(t)].timer = FALSE]
         \/ job' = [job EXCEPT ![Me(t)].released = TRUE]
         \/ job' = job
  PROVE  /\ \A o \in Obj : o # Me(t) => job'[o] = job[o]
         /\ job'[Me(t)].key = Mine(t).key /\ job'[Me(t)].closing = Mine(t).closing
BY TaskMoves DEF TypeOK, Mine, JobRecord

LEMMA FinishSteady ==
  ASSUME TypeOK, NEW k \in Key
  PROVE  \A l \in Key : Finish(k)[l] = IF l = k THEN NoObj ELSE active[l]
BY DEF Finish, TypeOK

LEMMA StartFailsSteady ==
  ASSUME TypeOK, NEW t \in Task, task[t].op # "idle", StartFails(t),
         HasRecord(Mine(t).key) \/ ~Reboot
  PROVE  Steady(t)
<1>1. "FAILED" \in State /\ Mine(t).key \in Key
  BY TaskMoves DEF State
<1>2. Ends(t) /\ queue' = queue /\ job' = [job EXCEPT ![Me(t)].state = "FAILED"]
  BY DEF StartFails
<1>3. \A k \in Key : active'[k] = active[k] \/ active'[k] = NoObj
  BY <1>1, FinishSteady DEF StartFails
<1>4. \A k \in Key : HasRecord(k)' <=> HasRecord(k)
  BY <1>1, RecordKeeps DEF StartFails, HasRecord
<1> QED BY <1>1, <1>2, <1>3, <1>4, EndsSteady, MineSteady DEF Steady

LEMMA AfterDeletedSteady ==
  ASSUME TypeOK, NEW t \in Task, task[t].op # "idle", AfterDeleted(t)
  PROVE  Steady(t)
<1>1. Mine(t).key \in Key /\ Mine(t).state \in State
  BY TaskMoves DEF JobRecord
<1>2. CASE task[t].op = "start"
  <2>1. CreatePc(Mine(t).state) \in Pc
    BY DEF CreatePc, Pc, Polling
  <2> QED BY <1>2, <2>1, MovesSteady DEF AfterDeleted
<1>3. CASE task[t].op \in {"stop", "delete"}
  BY <1>3, MovesSteady DEF AfterDeleted, Pc
<1>4. CASE task[t].op = "heartbeat"
  BY <1>1, <1>4, EndsSteady, FinishSteady DEF AfterDeleted, Steady, Mine, HasRecord
<1> QED BY <1>2, <1>3, <1>4, TaskMoves DEF Op

LEMMA StopPodDoneSteady ==
  ASSUME TypeOK, NEW t \in Task, task[t].op # "idle", StopPodDone(t)
  PROVE  Steady(t)
<1>1. "del" \in Pc
  BY DEF Pc
<1>2. /\ \A o \in Obj : o # Me(t) => job'[o] = job[o]
      /\ job'[Me(t)].key = Mine(t).key /\ job'[Me(t)].closing = Mine(t).closing
  BY TaskMoves DEF StopPodDone, TypeOK, Mine, JobRecord
<1> QED BY <1>1, <1>2, GotoSteady DEF StopPodDone, Steady, HasRecord

LEMMA RunningSteady ==
  ASSUME TypeOK, NEW t \in Task, task[t].op # "idle", BecomesRunning(t) \/ Releases(t)
  PROVE  Steady(t)
<1>1. "RUNNING" \in State /\ Mine(t).key \in Key
  BY TaskMoves DEF State
<1>2. /\ \A o \in Obj : o # Me(t) => job'[o] = job[o]
      /\ job'[Me(t)].key = Mine(t).key /\ job'[Me(t)].closing = Mine(t).closing
  BY <1>1, MineSteady DEF BecomesRunning, Releases
<1>3. \A k \in Key : HasRecord(k)' <=> HasRecord(k)
  BY <1>1, RecordKeeps DEF BecomesRunning, Releases, HasRecord
<1> QED BY <1>2, <1>3, EndsSteady DEF BecomesRunning, Releases, Steady

LEMMA LeavesSteady ==
  ASSUME TypeOK, NEW t \in Task, task[t].op # "idle", LeavesPending(t, "route")
  PROVE  Steady(t)
<1>1. Mine(t).key \in Key /\ {"route", "backoff"} \subseteq Pc /\ "STARTING" \in State
  BY TaskMoves DEF Pc, State
<1>2. /\ \A o \in Obj : o # Me(t) => job'[o] = job[o]
      /\ job'[Me(t)].key = Mine(t).key /\ job'[Me(t)].closing = Mine(t).closing
  BY <1>1, MineSteady DEF LeavesPending
<1>3. \A k \in Key : HasRecord(k)' <=> HasRecord(k)
  BY <1>1, RecordKeeps DEF LeavesPending, HasRecord
<1> QED BY <1>1, <1>2, <1>3, GotoSteady DEF LeavesPending, Steady

LEMMA AgainSteady ==
  ASSUME TypeOK, NEW t \in Task, task[t].op # "idle", CheckAgain(t), ~Moves(t, "check")
  PROVE  Steady(t)
<1>1. "poll" \in Pc
  BY DEF Pc, Polling
<1>2. /\ \A o \in Obj : o # Me(t) => job'[o] = job[o]
      /\ job'[Me(t)].key = Mine(t).key /\ job'[Me(t)].closing = Mine(t).closing
  BY MineSteady DEF CheckAgain, State
<1> QED BY <1>1, <1>2, GotoSteady DEF CheckAgain, Steady, HasRecord

LEMMA ScarceSteady ==
  ASSUME TypeOK, NEW t \in Task, task[t].op # "idle", ClientsScarce(t)
  PROVE  Steady(t)
<1>1. Mine(t).key \in Key /\ "backoff" \in Pc /\ "PENDING" \in State
  BY TaskMoves DEF Pc, State
<1>2. /\ \A o \in Obj : o # Me(t) => job'[o] = job[o]
      /\ job'[Me(t)].key = Mine(t).key /\ job'[Me(t)].closing = Mine(t).closing
  BY <1>1, MineSteady DEF ClientsScarce
<1>3. \A k \in Key : HasRecord(k)' <=> HasRecord(k)
  BY <1>1, RecordKeeps DEF ClientsScarce, HasRecord
<1> QED BY <1>1, <1>2, <1>3, GotoSteady DEF ClientsScarce, Steady

LEMMA CoroutineSteady ==
  ASSUME TypeOK, NEW t \in Task, Proceeds(t) \/ Suffers(t),
         HasRecord(Mine(t).key) \/ ~Reboot
  PROVE  Steady(t) /\ task[t].op # "idle"
<1> USE DEF At
<1>0. task[t].op # "idle"
  BY DEF Proceeds, ReadPhase, StartStep, DeletionStep, StopStep, EndStep, Suffers,
         ClientsEnough, CheckAgain, RouteAdded, PodCreated, PodPolled, PollAgain,
         PodDeleted, PodGone, StartReleased, StopPolled, StopSent, StopWaited,
         StopEnds, DeleteEnds, ClientsScarce, ClientsUnknown, RetrySkipped,
         CreateRaises, StopGivesUp, StopAborts
<1>s. Me(t) \in Obj /\ Mine(t).key \in Key /\ Mine(t).state \in State
  BY <1>0, TaskMoves DEF JobRecord
<1>p. \A pc \in Pc : Moves(t, pc) => Steady(t)
  BY <1>0, MovesSteady
<1>c. \A s \in State : CreatePc(s) \in Pc
  BY DEF CreatePc, Pc, Polling
<1>1. CASE ReadPhase(t)
  <2>1. task[t] \in [op : Op, obj : Obj, pc : Pc, seen : Seen]
    BY <1>0 DEF TypeOK, TaskRecord, NoRun
  <2> QED BY <1>1, <2>1 DEF ReadPhase, Steady, Mine, HasRecord, TypeOK
<1>2. CASE ClientsEnough(t)
  <2>1. CASE LeavesPending(t, "route")
    BY <1>0, <2>1, LeavesSteady
  <2>2. CASE Moves(t, "route") \/ Moves(t, "poll")
    BY <1>0, <1>p, <2>2 DEF Pc, Polling
  <2> QED BY <1>2, <2>1, <2>2 DEF ClientsEnough
<1>3. CASE CheckAgain(t)
  <2>1. CASE Moves(t, "check")
    BY <1>0, <1>p, <2>1 DEF Pc
  <2>2. CASE ~ Moves(t, "check")
    BY <1>0, <1>3, <2>2, AgainSteady
  <2> QED BY <2>1, <2>2
<1>4. CASE RouteAdded(t)
  BY <1>4, <1>p, <1>c, <1>s DEF RouteAdded
<1>5. CASE PodCreated(t)
  BY <1>5, <1>p DEF PodCreated, Pc, Polling
<1>6. CASE PodPolled(t)
  <2>1. Moves(t, "repoll") \/ Moves(t, "poll") \/ Releases(t) \/ BecomesRunning(t) \/ StartFails(t)
    BY <1>6 DEF PodPolled
  <2> QED BY <2>1, <1>0, <1>p, RunningSteady, StartFailsSteady DEF Pc, Polling
<1>7. CASE PollAgain(t)
  BY <1>7, <1>0, <1>p, RunningSteady DEF PollAgain, Pc, Polling
<1>8. CASE PodDeleted(t) \/ PodGone(t)
  BY <1>8, <1>0, <1>p, AfterDeletedSteady DEF PodDeleted, PodGone, Pc, Polling
<1>9. CASE StartReleased(t)
  BY <1>9, <1>p DEF StartReleased, Pc, Polling
<1>10. CASE StopPolled(t) \/ StopSent(t) \/ StopWaited(t) \/ StopGivesUp(t)
  <2>1. Moves(t, "send") \/ Moves(t, "halt") \/ Moves(t, "nap") \/ StopPodDone(t)
    BY <1>10 DEF StopPolled, StopSent, StopWaited, StopGivesUp
  <2> QED BY <2>1, <1>0, <1>p, StopPodDoneSteady DEF Pc, Polling
<1>11. CASE StopEnds(t)
  <2>1. /\ \A o \in Obj : o # Me(t) => job'[o] = job[o]
        /\ job'[Me(t)].key = Mine(t).key /\ job'[Me(t)].closing = Mine(t).closing
    BY <1>0, <1>11, MineSteady DEF StopEnds, State
  <2>2. \A k \in Key : HasRecord(k)' <=> HasRecord(k)
    BY <1>s, <1>11, RecordKeeps DEF StopEnds, HasRecord, State
  <2>3. \A k \in Key : active'[k] = active[k] \/ active'[k] = NoObj
    BY <1>s, <1>11, FinishSteady DEF StopEnds
  <2> QED BY <1>11, <2>1, <2>2, <2>3, EndsSteady DEF StopEnds, Steady
<1>12. CASE DeleteEnds(t)
  <2>1. \A k \in Key : active'[k] = IF k = Mine(t).key THEN NoObj ELSE active[k]
    BY <1>s, <1>12, FinishSteady DEF DeleteEnds
  <2>2. \A k \in Key : db'[k] = IF k = Mine(t).key THEN "ABSENT" ELSE db[k]
    BY <1>12 DEF DeleteEnds, TypeOK
  <2> QED BY <1>12, <2>1, <2>2, EndsSteady DEF DeleteEnds, Steady, HasRecord, Mine
<1>13. CASE ClientsScarce(t)
  BY <1>0, <1>13, ScarceSteady
<1>14. CASE ClientsUnknown(t)
  BY <1>14, <1>p DEF ClientsUnknown, Pc
<1>15. CASE RetrySkipped(t)
  BY <1>15, <1>p DEF RetrySkipped, Pc, Polling
<1>16. CASE CreateRaises(t)
  BY <1>16, <1>0, StartFailsSteady DEF CreateRaises
<1>17. CASE StopAborts(t)
  BY <1>17, EndsSteady DEF StopAborts, Steady, Mine, HasRecord
<1> QED
  BY <1>0, <1>1, <1>2, <1>3, <1>4, <1>5, <1>6, <1>7, <1>8, <1>9, <1>10, <1>11, <1>12, <1>13,
     <1>14, <1>15, <1>16, <1>17
     DEF Proceeds, StartStep, DeletionStep, StopStep, EndStep, Suffers

-----------------------------------------------------------------------------
(* An object that a step has nothing to do with stays covered. *)

LEMMA KeptApart ==
  ASSUME NEW o \in Obj, Covered(o),
         job'[o] = job[o],
         Queued(o) => Queued(o)',
         \A u \in Task : RunsOn(u, o) => task'[u] = task[u]
  PROVE  Covered(o)'
<1>1. \A u \in Task : RunsOn(u, o) => RunsOn(u, o)' /\ task'[u] = task[u]
  BY DEF RunsOn
<1>2. /\ StartsOn(o) => StartsOn(o)'
      /\ WaitsOn(o) => WaitsOn(o)'
      /\ EndsOn(o) => EndsOn(o)'
  BY <1>1 DEF StartsOn, WaitsOn, EndsOn
<1> QED BY <1>2 DEF Covered

\* The object of a coroutine stays covered while the state and the timer stay
\* what they are, unless the coroutine was what covered it and gives that up.
LEMMA KeptByMine ==
  ASSUME NEW t \in Task, task[t].op # "idle", Steady(t),
         NEW o \in Obj, o = Me(t), Covered(o),
         job'[o].state = job[o].state,
         job'[o].timer = job[o].timer,
         job[o].state = "STARTING" /\ task[t].op = "start" => task'[t] # NoRun,
         job[o].state = "PENDING" /\ task[t].op = "start" /\ task[t].pc \in {"check", "backoff"}
           => task'[t] # NoRun /\ task'[t].pc \in {"check", "backoff"},
         job[o].state \in {"FINISHED", "FAILED"} /\ task[t].op = "heartbeat" => task'[t] # NoRun
  PROVE  Covered(o)'
<1>1. \A u \in Task : u # t /\ RunsOn(u, o) => RunsOn(u, o)' /\ task'[u] = task[u]
  BY DEF RunsOn, Steady
<1>2. task'[t] # NoRun => RunsOn(t, o)' /\ task'[t].op = task[t].op
  BY DEF RunsOn, Steady, Me
<1>3. Queued(o) => Queued(o)'
  BY DEF Queued, Steady
<1>4. job'[o].closing = job[o].closing
  BY DEF Steady, Mine
<1>5. job[o].state = "STARTING" /\ StartsOn(o) => StartsOn(o)'
  BY <1>1, <1>2 DEF StartsOn
<1>6. job[o].state = "PENDING" /\ WaitsOn(o) => WaitsOn(o)'
  BY <1>1, <1>2 DEF WaitsOn
<1>7. job[o].state \in {"FINISHED", "FAILED"} /\ EndsOn(o) => EndsOn(o)'
  BY <1>1, <1>2 DEF EndsOn
<1> QED BY <1>3, <1>4, <1>5, <1>6, <1>7 DEF Covered

\* (To speak of one object before and after a step, a constant names it.)
LEMMA AllCoveredNext ==
  ASSUME SchedTypeOK',
         \A k \in Key, o \in Obj : active'[k] = o => Covered(o)'
  PROVE  AllCovered'
<1>1. \A k \in Key : active'[k] # NoObj => \E o \in Obj : active'[k] = o
  BY DEF SchedTypeOK
<1> QED BY <1>1 DEF AllCovered, Covered, Queued, StartsOn, WaitsOn, EndsOn, RunsOn

\* What is left to show of a step of a coroutine: its own object stays covered
\* if it stays active and was not closing.
LEMMA SteadyGuards ==
  ASSUME IInv, SchedTypeOK', NEW t \in Task, task[t].op # "idle", Steady(t),
         NEW m \in Obj, m = Me(t),
         ~job[m].closing /\ (\E k \in Key : active'[k] = m) => Covered(m)'
  PROVE  Guarded'
<1>2. \A o \in Obj : job'[o].key = job[o].key /\ job'[o].closing = job[o].closing
  BY DEF Steady, Mine
<1>3. ActiveIsPersisted'
  <2> SUFFICES ASSUME NEW k \in Key, active'[k] # NoObj
               PROVE  HasRecord(k)' /\ job'[active'[k]].key = k
    BY DEF ActiveIsPersisted, HasRecord
  <2>1. active'[k] = active[k] /\ active[k] \in Obj
    BY DEF Steady, IInv, TypeOK
  <2>2. HasRecord(k) /\ job[active[k]].key = k
    BY <2>1 DEF IInv, Guarded, ActiveIsPersisted, TypeOK
  <2> QED BY <1>2, <2>1, <2>2 DEF Steady
<1>4. AllCovered'
  <2> SUFFICES ASSUME NEW k \in Key, NEW o \in Obj, active'[k] = o
               PROVE  Covered(o)'
    BY AllCoveredNext
  <2>1. active[k] = o
    BY PoolAssumption DEF Steady
  <2>2. Covered(o)
    BY <2>1, PoolAssumption DEF IInv, Guarded, AllCovered
  <2>3. CASE o # m
    <3>1. job'[o] = job[o] /\ (Queued(o) => Queued(o)')
      BY <2>3 DEF Steady, Queued
    <3>2. \A u \in Task : RunsOn(u, o) => task'[u] = task[u]
      BY <2>3 DEF Steady, RunsOn, Me
    <3> QED BY <2>2, <3>1, <3>2, KeptApart
  <2>4. CASE o = m
    <3>1. CASE job[m].closing
      BY <1>2, <2>4, <3>1 DEF Covered
    <3> QED BY <2>4, <3>1
  <2> QED BY <2>3, <2>4
<1>5. CloseClosing'
  <2> SUFFICES ASSUME NEW u \in Task, task'[u].op \in {"stop", "delete"}
               PROVE  job'[task'[u].obj].closing
    BY DEF CloseClosing, Me
  <2>1. task[u].op = task'[u].op /\ task[u].obj = task'[u].obj
    BY DEF Steady, NoRun
  <2>2. task[u].obj \in Obj
    BY <2>1, TaskMoves DEF IInv, Me
  <2> QED BY <1>2, <2>1, <2>2 DEF IInv, Guarded, CloseClosing, Me
<1> QED BY <1>3, <1>4, <1>5 DEF Guarded

\* A step that only moves a coroutine on, without letting go of a job that is
\* waiting for clients, keeps everything.
LEMMA MovesGuards ==
  ASSUME IInv, NEW t \in Task, task[t].op # "idle", NEW pc \in Pc, Moves(t, pc),
         \/ pc \in {"check", "backoff"}
         \/ task[t].pc \notin {"check", "backoff"}
         \/ task[t].op # "start"
         \/ Mine(t).state # "PENDING"
  PROVE  Guarded'
<1>1. PICK m \in Obj : m = Me(t)
  BY TaskMoves DEF IInv
<1>2. TypeOK /\ Steady(t) /\ SchedTypeOK' /\ job' = job
  BY MovesSteady, MovesType DEF IInv, Moves
<1>3. /\ task'[t].op = task[t].op /\ task'[t].pc = pc
  BY <1>2, GotoSteady DEF Moves
<1>4. ASSUME NEW k \in Key, active'[k] = m
      PROVE  Covered(m)'
  <2>1. Covered(m)
    BY <1>4, PoolAssumption DEF Moves, IInv, Guarded, AllCovered
  <2>2. task'[t] # NoRun
    BY <1>3 DEF NoRun
  <2> QED BY <1>1, <1>2, <1>3, <2>1, <2>2, KeptByMine DEF Mine
<1> QED BY <1>1, <1>2, <1>4, SteadyGuards

\* The coroutine of a stop or a delete works on a closing job.
LEMMA ClosingGuards ==
  ASSUME IInv, NEW t \in Task, task[t].op \in {"stop", "delete"}, Steady(t), SchedTypeOK'
  PROVE  Guarded'
<1>1. PICK m \in Obj : m = Me(t)
  BY TaskMoves DEF IInv
<1>2. job[m].closing
  BY <1>1 DEF IInv, Guarded, CloseClosing
<1> QED BY <1>1, <1>2, SteadyGuards

\* A job that is finished, or whose record is gone, is not active.
LEMMA NotActive ==
  ASSUME IInv, NEW o \in Obj, NEW l \in Key, l = job[o].key,
         ~HasRecord(l) \/ active' = Finish(l),
         \A k \in Key : active'[k] = active[k] \/ active'[k] = NoObj
  PROVE  ~ \E k \in Key : active'[k] = o
<1> SUFFICES ASSUME NEW k \in Key, active'[k] = o
             PROVE  FALSE
  OBVIOUS
<1>1. active[k] = o /\ o # NoObj
  BY PoolAssumption
<1>2. k = l /\ HasRecord(l)
  BY <1>1 DEF IInv, Guarded, ActiveIsPersisted
<1>3. Finish(l)[l] = NoObj
  BY FinishSteady DEF IInv
<1> QED BY <1>1, <1>2, <1>3

LEMMA StartFailsGuards ==
  ASSUME IInv, NEW t \in Task, task[t].op # "idle", StartFails(t), ~Reboot
  PROVE  Guarded'
<1>1. PICK m \in Obj : m = Me(t)
  BY TaskMoves DEF IInv
<1>2. TypeOK /\ Steady(t) /\ SchedTypeOK'
  BY StartFailsSteady, StartFailsType DEF IInv
<1>3. ~HasRecord(job[m].key) \/ active' = Finish(job[m].key)
  BY <1>1 DEF StartFails, Mine
<1>4. job[m].key \in Key
  BY <1>1, <1>2, TaskMoves DEF Mine
<1>5. ~ \E k \in Key : active'[k] = m
  BY <1>2, <1>3, <1>4, NotActive DEF Steady
<1> QED BY <1>1, <1>2, <1>5, SteadyGuards

LEMMA RunningGuards ==
  ASSUME IInv, NEW t \in Task, task[t].op = "start",
         task[t].pc \notin {"check", "backoff"},
         BecomesRunning(t) \/ (Releases(t) /\ Mine(t).state # "STARTING")
  PROVE  Guarded'
<1>1. PICK m \in Obj : m = Me(t)
  BY TaskMoves DEF IInv
<1>2. TypeOK /\ Steady(t) /\ SchedTypeOK' /\ Mine(t) = job[m]
  BY <1>1, RunningSteady, RunningType DEF IInv, Mine
<1>3. CASE BecomesRunning(t)
  <2>1. job'[m].state = "RUNNING" /\ job'[m].timer
    BY <1>1, <1>2, <1>3 DEF BecomesRunning, TypeOK, JobRecord
  <2> QED BY <1>1, <1>2, <2>1, SteadyGuards DEF Covered
<1>4. CASE Releases(t) /\ Mine(t).state # "STARTING"
  <2>1. job'[m].state = job[m].state /\ job'[m].timer = job[m].timer
    BY <1>1, <1>2, <1>4 DEF Releases, TypeOK, JobRecord
  <2>2. ASSUME NEW k \in Key, active'[k] = m
        PROVE  Covered(m)'
    <3>1. Covered(m)
      BY <1>4, <2>2, PoolAssumption DEF Releases, IInv, Guarded, AllCovered
    <3> QED BY <1>1, <1>2, <1>4, <2>1, <3>1, KeptByMine
  <2> QED BY <1>1, <1>2, <2>2, SteadyGuards
<1> QED BY <1>3, <1>4

LEMMA AfterDeletedGuards ==
  ASSUME IInv, NEW t \in Task, task[t].op # "idle",
         task[t].pc \notin {"check", "backoff"}, AfterDeleted(t)
  PROVE  Guarded'
<1>1. PICK m \in Obj : m = Me(t)
  BY TaskMoves DEF IInv
<1>2. TypeOK /\ Steady(t) /\ SchedTypeOK' /\ Mine(t) = job[m] /\ job[m].key \in Key
  BY <1>1, AfterDeletedSteady, AfterDeletedType, TaskMoves DEF IInv, Mine
<1>3. CASE task[t].op = "start"
  <2>1. CreatePc(Mine(t).state) \in Pc
    BY DEF CreatePc, Pc, Polling
  <2> QED BY <1>3, <2>1, MovesGuards DEF AfterDeleted
<1>4. CASE task[t].op \in {"stop", "delete"}
  BY <1>2, <1>4, ClosingGuards
<1>5. CASE task[t].op = "heartbeat"
  <2>1. CASE job[m].state \in Launching
    <3>1. ASSUME NEW k \in Key, active'[k] = m
          PROVE  Covered(m)'
      <4>1. Covered(m) /\ job' = job
        BY <1>2, <1>5, <2>1, <3>1, PoolAssumption
           DEF AfterDeleted, IInv, Guarded, AllCovered
      <4>2. job[m].state \notin {"FINISHED", "FAILED"}
        BY <2>1 DEF Launching
      <4> QED BY <1>1, <1>2, <1>5, <4>1, <4>2, KeptByMine
    <3> QED BY <1>1, <1>2, <3>1, SteadyGuards
  <2>2. CASE job[m].state \notin Launching
    <3>1. active' = Finish(job[m].key)
      BY <1>2, <1>5, <2>2 DEF AfterDeleted
    <3>2. ~ \E k \in Key : active'[k] = m
      BY <1>2, <3>1, NotActive DEF Steady
    <3> QED BY <1>1, <1>2, <3>2, SteadyGuards
  <2> QED BY <2>1, <2>2
<1> QED BY <1>2, <1>3, <1>4, <1>5, TaskMoves DEF Op

LEMMA CheckGuards ==
  ASSUME IInv, NEW t \in Task, ClientsEnough(t) \/ ClientsScarce(t) \/ CheckAgain(t)
  PROVE  Guarded'
<1>0. task[t].op = "start" /\ TypeOK
  BY DEF ClientsEnough, ClientsScarce, CheckAgain, At, IInv
<1>1. PICK m \in Obj : m = Me(t)
  BY <1>0, TaskMoves
<1>2. Mine(t) = job[m] /\ Mine(t).state \in State
  BY <1>0, <1>1, TaskMoves DEF Mine, JobRecord
<1>3. SchedTypeOK'
  BY <1>0, CoroutineTypes DEF Proceeds, StartStep, Suffers
<1>4. CASE ClientsEnough(t) /\ LeavesPending(t, "route")
  <2>1. Steady(t)
    BY <1>0, <1>4, LeavesSteady
  <2>2. job'[m].state = "STARTING"
    BY <1>0, <1>1, <1>4 DEF LeavesPending, TypeOK, JobRecord
  <2>3. task'[t].op = "start" /\ task'[t].obj = m
    BY <1>0, <1>1, <1>4, GotoSteady DEF LeavesPending, Me, Pc
  <2> QED BY <1>0, <1>1, <1>3, <2>1, <2>2, <2>3, SteadyGuards DEF Covered, StartsOn, RunsOn
<1>5. CASE ClientsEnough(t) /\ ~LeavesPending(t, "route")
  <2>1. Mine(t).state # "PENDING"
    BY <1>5 DEF ClientsEnough, Launching
  <2>2. Moves(t, "route") \/ Moves(t, "poll")
    BY <1>5 DEF ClientsEnough
  <2> QED BY <1>0, <2>1, <2>2, MovesGuards DEF Pc, Polling
<1>6. CASE ClientsScarce(t)
  <2>1. Steady(t)
    BY <1>0, <1>6, ScarceSteady
  <2>2. job'[m].state = "PENDING"
    BY <1>0, <1>1, <1>6 DEF ClientsScarce, TypeOK, JobRecord
  <2>3. task'[t].op = "start" /\ task'[t].obj = m /\ task'[t].pc = "backoff"
    BY <1>0, <1>1, <1>6, GotoSteady DEF ClientsScarce, Me, Pc
  <2> QED BY <1>0, <1>1, <1>3, <2>1, <2>2, <2>3, SteadyGuards DEF Covered, WaitsOn, RunsOn
<1>7. CASE CheckAgain(t) /\ Moves(t, "check")
  BY <1>0, <1>7, MovesGuards DEF Pc
<1>8. CASE CheckAgain(t) /\ ~Moves(t, "check")
  <2>1. Steady(t)
    BY <1>0, <1>8, AgainSteady
  <2>2. job'[m].state = job[m].state /\ job'[m].timer = job[m].timer
    BY <1>0, <1>1, <1>8 DEF CheckAgain, TypeOK, JobRecord
  <2>3. task'[t].op = "start"
    BY <1>0, <1>8, GotoSteady DEF CheckAgain, Pc, Polling
  <2>4. ASSUME NEW k \in Key, active'[k] = m
        PROVE  Covered(m)'
    <3>1. Covered(m)
      BY <1>8, <2>4, PoolAssumption DEF CheckAgain, IInv, Guarded, AllCovered
    <3>2. job[m].state # "PENDING"
      BY <1>2, <1>8 DEF CheckAgain, Launching
    <3>3. task'[t] # NoRun
      BY <2>3 DEF NoRun
    <3> QED BY <1>0, <1>1, <2>1, <2>2, <3>1, <3>2, <3>3, KeptByMine
  <2> QED BY <1>0, <1>1, <1>3, <2>1, <2>4, SteadyGuards
<1> QED BY <1>4, <1>5, <1>6, <1>7, <1>8

\* A restart queues the jobs that were queued or being started, watches those
\* that were running, and goes on with the stops and deletes.
LEMMA RebootGuards ==
  ASSUME IInv, Reboot
  PROVE  Guarded'
<1>1. SchedTypeOK'
  BY RebootType DEF IInv
<1>2. ASSUME NEW k \in Key, HasRecord(k)
      PROVE  /\ ObjFor[k] \in Obj /\ job'[ObjFor[k]] = RestoredJob(k)
             /\ RestoredJob(k).key = k /\ RestoredJob(k).state = db[k]
             /\ RestoredJob(k).timer = (db[k] = "RUNNING")
             /\ RestoredJob(k).closing = (db[k] \in {"DELETING", "STOPPING"})
  <2>1. k = CHOOSE l \in Key : ObjFor[l] = ObjFor[k]
    BY RestoredApart
  <2>2. ObjFor[k] \in Obj
    BY RestoredApart
  <2>3. job'[ObjFor[k]] = RestoredJob(k)
    BY <1>2, <2>1, <2>2 DEF Reboot
  <2> DEFINE timer == db[k] = "RUNNING"
             closing == db[k] \in {"DELETING", "STOPPING"}
  <2>4. RestoredJob(k) = [NewJob(k, db[k]) EXCEPT !.timer = timer, !.closing = closing]
    BY DEF RestoredJob
  <2> HIDE DEF timer, closing
  <2>5. /\ RestoredJob(k).key = k /\ RestoredJob(k).state = db[k]
        /\ RestoredJob(k).timer = timer /\ RestoredJob(k).closing = closing
    BY <2>4 DEF NewJob
  <2> USE DEF timer, closing
  <2> QED BY <2>2, <2>3, <2>5
<1>3. ASSUME NEW k \in Key, active'[k] # NoObj
      PROVE  /\ db[k] \in {"QUEUING", "RUNNING", "STARTING", "PENDING"}
             /\ active'[k] = ObjFor[k] /\ HasRecord(k)
  BY <1>3 DEF Reboot, HasRecord
<1>4. ActiveIsPersisted'
  <2>1. db' = db
    BY DEF Reboot
  <2> QED BY <1>2, <1>3, <2>1 DEF ActiveIsPersisted, HasRecord
<1>5. AllCovered'
  <2> SUFFICES ASSUME NEW k \in Key, NEW o \in Obj, active'[k] = o
               PROVE  Covered(o)'
    BY <1>1, AllCoveredNext
  <2>1. o = ObjFor[k] /\ HasRecord(k) /\ db[k] \in {"QUEUING", "RUNNING", "STARTING", "PENDING"}
    BY <1>3, PoolAssumption
  <2>2. CASE db[k] = "RUNNING"
    <3>1. RestoredJob(k).state = "RUNNING" /\ RestoredJob(k).timer = TRUE
      BY <1>2, <2>1, <2>2
    <3>2. job'[o] = RestoredJob(k)
      BY <1>2, <2>1
    <3>3. job'[o].state = "RUNNING" /\ job'[o].timer
      BY <3>1, <3>2
    <3> QED BY <3>3 DEF Covered
  <2>3. CASE db[k] # "RUNNING"
    <3>1. o \in Requeued
      BY <2>1, <2>3 DEF Requeued
    <3>2. queue' \in Orders(Requeued)
      BY DEF Reboot
    <3>3. \E i \in DOMAIN queue' : queue'[i] = o
      BY <3>1, <3>2, RestoredQueue
    <3> QED BY <3>3 DEF Covered, Queued
  <2> QED BY <2>2, <2>3
<1>6. CloseClosing'
  <2> SUFFICES ASSUME NEW t \in Task, task'[t].op \in {"stop", "delete"}
               PROVE  job'[task'[t].obj].closing
    BY DEF CloseClosing, Me
  <2>1. PICK k \in Key : TaskFor[k] = t
    BY DEF Reboot, NoRun
  <2>2. k = CHOOSE l \in Key : TaskFor[l] = t
    BY <2>1, RestoredApart
  <2>3. task'[t] = RestoredRun(k)
    BY <2>1, <2>2 DEF Reboot
  <2>4. db[k] \in {"DELETING", "STOPPING"} /\ task'[t].obj = ObjFor[k]
    BY <2>3 DEF RestoredRun, Run, NoRun
  <2>5. HasRecord(k)
    BY <2>4 DEF HasRecord
  <2>6. job'[ObjFor[k]] = RestoredJob(k) /\ RestoredJob(k).closing
    BY <1>2, <2>4, <2>5
  <2> QED BY <2>4, <2>6
<1> QED BY <1>4, <1>5, <1>6 DEF Guarded

LEMMA CoroutineGuards ==
  ASSUME IInv, NEW t \in Task, Proceeds(t) \/ Suffers(t)
  PROVE  Guarded'
<1> USE DEF At
<1> SUFFICES ASSUME ~Reboot
             PROVE  Guarded'
  BY RebootGuards
<1>0. TypeOK /\ SchedTypeOK' /\ Steady(t) /\ task[t].op # "idle"
  BY CoroutineSteady, CoroutineTypes DEF IInv
<1>1. CASE task[t].op \in {"stop", "delete"}
  BY <1>0, <1>1, ClosingGuards
<1>2. CASE ReadPhase(t)
  <2>1. PICK m \in Obj : m = Me(t)
    BY <1>0, TaskMoves
  <2>2. task'[t].pc = task[t].pc /\ task'[t].op = task[t].op
    <3>1. task[t] \in [op : Op, obj : Obj, pc : Pc, seen : Seen]
      BY <1>0 DEF TypeOK, TaskRecord, NoRun
    <3> QED BY <1>0, <1>2, <3>1 DEF ReadPhase, TypeOK
  <2>3. ASSUME NEW k \in Key, active'[k] = m
        PROVE  Covered(m)'
    <3>1. Covered(m) /\ job' = job
      BY <1>2, <2>3, PoolAssumption DEF ReadPhase, IInv, Guarded, AllCovered
    <3>2. task'[t] # NoRun
      BY <1>0, <2>2 DEF NoRun
    <3>3. task[t].pc \notin {"check", "backoff"}
      BY <1>2 DEF ReadPhase, Polling
    <3> QED BY <1>0, <2>1, <3>1, <3>2, <3>3, KeptByMine
  <2> QED BY <1>0, <2>1, <2>3, SteadyGuards
<1>3. CASE ClientsEnough(t) \/ ClientsScarce(t) \/ CheckAgain(t)
  BY <1>3, CheckGuards
<1>4. CASE RouteAdded(t)
  <2>1. CreatePc(Mine(t).state) \in Pc
    BY DEF CreatePc, Pc, Polling
  <2> QED BY <1>0, <1>4, <2>1, MovesGuards DEF RouteAdded
<1>5. CASE PodCreated(t)
  BY <1>0, <1>5, MovesGuards DEF PodCreated, Pc, Polling
<1>6. CASE PodPolled(t)
  <2>1. CASE Moves(t, "repoll") \/ Moves(t, "poll")
    BY <1>0, <1>6, <2>1, MovesGuards DEF PodPolled, Pc, Polling
  <2>2. CASE StartFails(t)
    BY <1>0, <2>2, StartFailsGuards
  <2>3. CASE BecomesRunning(t) \/ (Releases(t) /\ Mine(t).state # "STARTING")
    BY <1>6, <2>3, RunningGuards DEF PodPolled
  <2> QED BY <1>6, <2>1, <2>2, <2>3 DEF PodPolled
<1>7. CASE PollAgain(t)
  <2>1. CASE Moves(t, "poll")
    BY <1>0, <1>7, <2>1, MovesGuards DEF PollAgain, Pc, Polling
  <2>2. CASE ~ Moves(t, "poll")
    BY <1>7, <2>2, RunningGuards DEF PollAgain
  <2> QED BY <2>1, <2>2
<1>8. CASE PodDeleted(t) \/ PodGone(t)
  <2>1. CASE Moves(t, "gone")
    BY <1>0, <1>8, <2>1, MovesGuards DEF PodDeleted, PodGone, Pc, Polling
  <2>2. CASE AfterDeleted(t)
    BY <1>0, <1>8, <2>2, AfterDeletedGuards DEF PodDeleted, PodGone
  <2> QED BY <1>8, <2>1, <2>2 DEF PodDeleted, PodGone
<1>9. CASE ClientsUnknown(t)
  BY <1>0, <1>9, MovesGuards DEF ClientsUnknown, Pc
<1>10. CASE RetrySkipped(t)
  BY <1>0, <1>10, MovesGuards DEF RetrySkipped, Pc, Polling
<1>11. CASE CreateRaises(t)
  BY <1>0, <1>11, StartFailsGuards DEF CreateRaises
<1>12. CASE \/ StartReleased(t) \/ StopPolled(t) \/ StopSent(t) \/ StopWaited(t)
            \/ StopEnds(t) \/ DeleteEnds(t) \/ StopGivesUp(t) \/ StopAborts(t)
  BY <1>1, <1>12 DEF StartReleased, StopPolled, StopSent, StopWaited, StopEnds,
                     DeleteEnds, StopGivesUp, StopAborts
<1> QED
  BY <1>2, <1>3, <1>4, <1>5, <1>6, <1>7, <1>8, <1>9, <1>10, <1>11, <1>12
     DEF Proceeds, StartStep, DeletionStep, StopStep, EndStep, Suffers

-----------------------------------------------------------------------------
(* The steps that are not a coroutine's. *)

\* What is left to show of a step that concerns one object, and that lets the
\* coroutines in progress alone.
LEMMA ConcernGuards ==
  ASSUME IInv, SchedTypeOK', NEW c \in Obj,
         \A o \in Obj : o # c => job'[o] = job[o] /\ (Queued(o) => Queued(o)'),
         \A u \in Task : task[u].op # "idle" => task'[u] = task[u],
         \A u \in Task : task[u].op = "idle" /\ task'[u].op \in {"stop", "delete"} =>
           task'[u].obj = c /\ job'[c].closing,
         job[c].closing => job'[c].closing \/ \A u \in Task : ~RunsOn(u, c),
         \A k \in Key : HasRecord(k) => HasRecord(k)',
         \A k \in Key : active'[k] \in {active[k], NoObj, c},
         \A k \in Key : active'[k] = c => HasRecord(k)' /\ job'[c].key = k /\ Covered(c)'
  PROVE  Guarded'
<1>1. ActiveIsPersisted'
  <2> SUFFICES ASSUME NEW k \in Key, active'[k] # NoObj
               PROVE  HasRecord(k)' /\ job'[active'[k]].key = k
    BY DEF ActiveIsPersisted, HasRecord
  <2>1. CASE active'[k] = c
    BY <2>1
  <2>2. CASE active'[k] # c
    <3>1. active'[k] = active[k] /\ active[k] \in Obj
      BY <2>2 DEF IInv, TypeOK
    <3> QED BY <2>2, <3>1 DEF IInv, Guarded, ActiveIsPersisted
  <2> QED BY <2>1, <2>2
<1>2. AllCovered'
  <2> SUFFICES ASSUME NEW k \in Key, NEW o \in Obj, active'[k] = o, o # c
               PROVE  Covered(o)'
    BY AllCoveredNext
  <2>1. active[k] = o
    BY PoolAssumption
  <2>2. Covered(o)
    BY <2>1, PoolAssumption DEF IInv, Guarded, AllCovered
  <2> QED BY <2>2, KeptApart DEF RunsOn
<1>3. CloseClosing'
  <2> SUFFICES ASSUME NEW u \in Task, task'[u].op \in {"stop", "delete"}
               PROVE  job'[task'[u].obj].closing
    BY DEF CloseClosing, Me
  <2>1. CASE task[u].op = "idle"
    BY <2>1
  <2>2. CASE task[u].op # "idle"
    <3>1. task'[u] = task[u] /\ task[u].obj \in Obj
      BY <2>2, TaskMoves DEF IInv, Me
    <3>2. job[task[u].obj].closing
      BY <3>1 DEF IInv, Guarded, CloseClosing, Me
    <3>3. RunsOn(u, task[u].obj)
      BY <2>2 DEF RunsOn
    <3> QED BY <3>1, <3>2, <3>3
  <2> QED BY <2>1, <2>2
<1> QED BY <1>1, <1>2, <1>3 DEF Guarded

LEMMA BeginGuards ==
  ASSUME IInv, SchedTypeOK', NEW c \in Obj, NEW t \in Task, task[t].op = "idle",
         Begin(c, t),
         \A o \in Obj : o # c => (Queued(o) => Queued(o)')
  PROVE  Guarded'
<1>1. job[c].key \in Key /\ {"STARTING", "FAILED"} \subseteq State
  BY DEF IInv, TypeOK, JobRecord, State
<1>2. \A k \in Key : HasRecord(k)' <=> HasRecord(k)
  BY <1>1, RecordKeeps DEF Begin, HasRecord, IInv
<1>3. \A o \in Obj : o # c => job'[o] = job[o]
  BY DEF Begin, IInv, TypeOK
<1>4. job'[c].key = job[c].key /\ job'[c].closing = job[c].closing
  BY DEF Begin, IInv, TypeOK, JobRecord
<1>5. \A k \in Key : active'[k] = active[k] \/ active'[k] = NoObj
  BY <1>1, FinishSteady DEF Begin, IInv
<1>6. /\ \A u \in Task : u # t => task'[u] = task[u]
      /\ task'[t].op \in {"idle", "start"}
  BY DEF Begin, IInv, TypeOK, Run
<1>7. ASSUME NEW k \in Key, active'[k] = c
      PROVE  HasRecord(k)' /\ job'[c].key = k /\ Covered(c)'
  <2>1. active[k] = c
    BY <1>5, <1>7, PoolAssumption
  <2>2. HasRecord(k)' /\ job'[c].key = k
    BY <1>2, <1>4, <2>1, PoolAssumption DEF IInv, Guarded, ActiveIsPersisted
  <2>3. active' # Finish(job[c].key)
    BY <1>1, <1>5, <1>7, NotActive
  <2>4. job'[c].state = "STARTING" /\ task'[t].op = "start" /\ task'[t].obj = c
    BY <2>3 DEF Begin, IInv, TypeOK, JobRecord, Run
  <2>5. Covered(c)'
    BY <2>4 DEF Covered, StartsOn, RunsOn
  <2> QED BY <2>2, <2>5
<1> QED BY <1>2, <1>3, <1>4, <1>5, <1>6, <1>7, ConcernGuards

LEMMA TakeJobGuards ==
  ASSUME IInv, TakeJob
  PROVE  Guarded'
<1>1. SchedTypeOK' /\ queue \in Seq(Obj) /\ queue # <<>> /\ queue' = Tail(queue)
  BY TakeJobTypes DEF IInv, TypeOK, TakeJob
<1>2. PICK c \in Obj : c = Head(queue)
  BY <1>1
<1>3. ASSUME NEW o \in Obj, o # c, Queued(o)
      PROVE  Queued(o)'
  <2>1. PICK i \in DOMAIN queue : queue[i] = o
    BY <1>3 DEF Queued
  <2>2. i # 1
    BY <1>1, <1>2, <1>3, <2>1
  <2>3. i - 1 \in DOMAIN queue' /\ queue'[i - 1] = o
    BY <1>1, <2>1, <2>2
  <2> QED BY <2>3 DEF Queued
<1>4. CASE active[job[c].key] = NoObj
  <2>1. UNCHANGED <<db, active, loop, job, task>>
    BY <1>2, <1>4 DEF TakeJob
  <2>2. ~ \E k \in Key : active'[k] = c
    BY <1>4, <2>1, PoolAssumption DEF IInv, Guarded, ActiveIsPersisted
  <2>3. \A k \in Key : HasRecord(k) => HasRecord(k)'
    BY <2>1 DEF HasRecord
  <2> QED BY <1>1, <1>3, <2>1, <2>2, <2>3, ConcernGuards
<1>5. CASE active[job[c].key] # NoObj
  <2>1. PICK t \in Task : t = SpareTask /\ task[t].op = "idle"
    BY <1>2, <1>5, SpareTaskIsIdle DEF TakeJob
  <2>2. Begin(c, t)
    BY <1>2, <1>5, <2>1 DEF TakeJob
  <2> QED BY <1>1, <1>3, <2>1, <2>2, BeginGuards
<1> QED BY <1>4, <1>5

LEMMA LossGuards ==
  ASSUME IInv, NEW c \in Obj, LossHeartbeat(c)
  PROVE  Guarded'
<1>1. SchedTypeOK' /\ job[c].key \in Key /\ "FAILED" \in State
  BY HeartbeatTypes DEF IInv, TypeOK, JobRecord, State
<1>2. \A k \in Key : HasRecord(k)' <=> HasRecord(k)
  BY <1>1, RecordKeeps DEF LossHeartbeat, HasRecord, IInv
<1>3. \A o \in Obj : o # c => job'[o] = job[o]
  BY DEF LossHeartbeat, IInv, TypeOK
<1>4. job'[c].closing = job[c].closing
  BY DEF LossHeartbeat, IInv, TypeOK, JobRecord
<1>5. \A k \in Key : active'[k] = active[k] \/ active'[k] = NoObj
  BY <1>1, FinishSteady DEF LossHeartbeat, IInv
<1>6. ~HasRecord(job[c].key) \/ active' = Finish(job[c].key)
  BY DEF LossHeartbeat
<1>7. ~ \E k \in Key : active'[k] = c
  BY <1>1, <1>5, <1>6, NotActive
<1>8. UNCHANGED <<queue, task>>
  BY DEF LossHeartbeat
<1>9. \A o \in Obj : Queued(o) => Queued(o)'
  BY <1>8 DEF Queued
<1> QED BY <1>1, <1>2, <1>3, <1>4, <1>5, <1>7, <1>8, <1>9, ConcernGuards

LEMMA HeartbeatGuards ==
  ASSUME IInv, NEW l \in Key, Heartbeat(l)
  PROVE  Guarded'
<1>1. SchedTypeOK' /\ mail[l] \in Report
  BY HeartbeatTypes DEF IInv, TypeOK, Heartbeat
<1>2. UNCHANGED <<active, queue>>
  BY DEF Heartbeat
<1>3. \A o \in Obj : Queued(o) => Queued(o)'
  BY <1>2 DEF Queued
<1>4. \A k \in Key : HasRecord(k)' <=> HasRecord(k)
  BY <1>1, RecordKeeps DEF Heartbeat, HasRecord, IInv, Report, State
<1>5. \A k \in Key, o \in Obj : active'[k] = o =>
        HasRecord(k)' /\ job[o].key = k /\ Covered(o)
  BY <1>2, <1>4, PoolAssumption DEF IInv, Guarded, ActiveIsPersisted, AllCovered
<1>6. CASE UNCHANGED <<db, job, task>>
  <2>1. \A o \in Obj : job'[o] = job[o]
    BY <1>6
  <2>2. \A o \in Obj : Covered(o) => Covered(o)'
    BY <1>3, <1>6, KeptApart
  <2>3. \A c \in Obj, k \in Key : active'[k] = c =>
          HasRecord(k)' /\ job'[c].key = k /\ Covered(c)'
    BY <1>5, <2>1, <2>2
  <2>4. PICK c \in Obj : TRUE
    BY RestoredApart, PoolAssumption
  <2> QED BY <1>1, <1>2, <1>3, <1>4, <1>6, <2>1, <2>3, ConcernGuards
<1>7. CASE ~ UNCHANGED <<db, job, task>>
  <2>1. PICK c \in Obj : c = active[l]
    BY <1>7 DEF Heartbeat, IInv, TypeOK
  <2>2. \A o \in Obj : o # c => job'[o] = job[o]
    BY <1>7, <2>1 DEF Heartbeat, IInv, TypeOK
  <2>3. job'[c].key = job[c].key /\ job'[c].closing = job[c].closing
    BY <1>7, <2>1 DEF Heartbeat, IInv, TypeOK, JobRecord
  <2>4. \A u \in Task : task[u].op # "idle" => task'[u] = task[u]
    BY <1>7, SpareTaskIsIdle DEF Heartbeat, IInv, TypeOK
  <2>5. \A u \in Task : task[u].op = "idle" => task'[u].op \in {"idle", "heartbeat"}
    <3>1. task' = task \/ task' = [task EXCEPT ![SpareTask] = Run("heartbeat", c, "del")]
      BY <1>7, <2>1 DEF Heartbeat
    <3>2. Run("heartbeat", c, "del").op = "heartbeat"
      BY DEF Run
    <3> QED BY <3>1, <3>2 DEF IInv, TypeOK
  <2>6. Covered(c)'
    <3>1. Covered(c)
      BY <1>2, <1>5, <2>1
    <3>2. \A u \in Task : RunsOn(u, c) => task'[u] = task[u]
      BY <2>4 DEF RunsOn
    <3>3. CASE job'[c].state = job[c].state /\ job'[c].timer = job[c].timer
      <4>1. \A u \in Task : RunsOn(u, c) => RunsOn(u, c)'
        BY <3>2 DEF RunsOn
      <4> QED BY <1>3, <2>3, <3>1, <3>2, <3>3, <4>1 DEF Covered, StartsOn, WaitsOn, EndsOn
    <3>4. CASE ~(job'[c].state = job[c].state /\ job'[c].timer = job[c].timer)
      <4>1. job[c].first /\ Expects(job[c].state, mail[l])
        BY <1>7, <2>1, <3>4 DEF Heartbeat, IInv, TypeOK, JobRecord
      <4>2. CASE mail[l] = "RUNNING"
        <5>1. job'[c].state = "RUNNING" /\ job'[c].timer
          BY <1>7, <2>1, <3>4, <4>1, <4>2 DEF Heartbeat, IInv, TypeOK, JobRecord
        <5> QED BY <5>1 DEF Covered
      <4>3. CASE mail[l] \in {"FINISHED", "FAILED"}
        <5>1. job'[c].state = mail[l]
          BY <1>7, <2>1, <3>4, <4>1, <4>3 DEF Heartbeat, IInv, TypeOK, JobRecord
        <5>2. task' = [task EXCEPT ![SpareTask] = Run("heartbeat", c, "del")] /\ HasSpareTask
          BY <1>7, <2>1, <3>4, <4>1, <4>3 DEF Heartbeat
        <5>3. PICK t \in Task : t = SpareTask
          BY <5>2, SpareTaskIsIdle
        <5>4. task'[t].op = "heartbeat" /\ task'[t].obj = c
          BY <5>2, <5>3 DEF IInv, TypeOK, Run
        <5> QED BY <4>3, <5>1, <5>4 DEF Covered, EndsOn, RunsOn
      <4>4. CASE mail[l] \in {"STOPPING", "STOPPED"}
        <5>1. job[c].state = "STOPPING"
          BY <4>1, <4>4 DEF Expects, Expected
        <5>2. Queued(c) \/ job[c].closing
          BY <3>1, <5>1 DEF Covered
        <5> QED BY <1>3, <2>3, <5>2 DEF Covered
      <4> QED BY <1>1, <4>2, <4>3, <4>4 DEF Report
    <3> QED BY <3>3, <3>4
  <2>7. \A k \in Key : active'[k] = c => HasRecord(k)' /\ job'[c].key = k /\ Covered(c)'
    BY <1>5, <2>3, <2>6
  <2> QED BY <1>1, <1>2, <1>3, <1>4, <2>2, <2>3, <2>4, <2>5, <2>7, ConcernGuards
<1> QED BY <1>6, <1>7

\* An object that is not in use is not active, and no coroutine runs on it.
LEMMA SpareIsApart ==
  ASSUME HasSpareObj
  PROVE  /\ SpareObj \in Obj
         /\ \A k \in Key : active[k] # SpareObj
         /\ \A u \in Task : ~RunsOn(u, SpareObj)
BY SpareObjIsSpare DEF InUse

LEMMA AppendQueues ==
  ASSUME queue \in Seq(Obj), NEW c \in Obj, queue' = Append(queue, c)
  PROVE  (\A o \in Obj : Queued(o) => Queued(o)') /\ Queued(c)'
<1>1. Len(queue') \in DOMAIN queue' /\ queue'[Len(queue')] = c
  OBVIOUS
<1>2. \A i \in DOMAIN queue : i \in DOMAIN queue' /\ queue'[i] = queue[i]
  OBVIOUS
<1> QED BY <1>1, <1>2 DEF Queued

LEMMA RequestGuards ==
  ASSUME IInv, NEW l \in Key, Request(l)
  PROVE  Guarded'
<1> USE DEF IInv
<1>1. SchedTypeOK' /\ TypeOK
  BY RequestTypes
<1>2. \A k \in Key, s \in State : HasRecord(k) => Record(l, s)[k] # "ABSENT"
  BY RecordKeeps
<1>3. CASE CreateJob(l)
  <2>1. PICK c \in Obj : c = SpareObj
    BY <1>3, SpareIsApart DEF CreateJob
  <2>2. \A o \in Obj : o # c => job'[o] = job[o]
    BY <1>3, <2>1 DEF CreateJob, TypeOK
  <2>3. (\A o \in Obj : Queued(o) => Queued(o)') /\ Queued(c)'
    BY <1>1, <1>3, <2>1, AppendQueues DEF CreateJob, TypeOK
  <2>5. job'[c].key = l /\ db'[l] = "QUEUING" /\ \A k \in Key : k # l => db'[k] = db[k]
    BY <1>1, <1>3, <2>1 DEF CreateJob, TypeOK, NewJob
  <2>6. \A k \in Key : HasRecord(k) => HasRecord(k)'
    BY <2>5 DEF HasRecord
  <2>7. \A k \in Key : active'[k] = IF k = l THEN c ELSE active[k]
    BY <1>1, <1>3, <2>1 DEF CreateJob, TypeOK
  <2>8. \A k \in Key : active'[k] = c => HasRecord(k)' /\ job'[c].key = k /\ Covered(c)'
    <3>1. \A k \in Key : active[k] # c
      BY <1>3, <2>1, SpareIsApart DEF CreateJob
    <3> QED BY <2>3, <2>5, <2>7, <3>1 DEF Covered, HasRecord
  <2>9. task' = task /\ \A u \in Task : ~RunsOn(u, c)
    BY <1>3, <2>1, SpareIsApart DEF CreateJob
  <2> QED BY <1>1, <2>2, <2>3, <2>6, <2>7, <2>8, <2>9, ConcernGuards
<1>4. CASE StartJob(l) /\ active[l] # NoObj
  <2>1. PICK c \in Obj : c = active[l]
    BY <1>1, <1>4 DEF TypeOK
  <2>2. PICK t \in Task : t = SpareTask /\ task[t].op = "idle"
    BY <1>4, SpareTaskIsIdle DEF StartJob
  <2>3. Begin(c, t) /\ queue' = queue
    BY <1>4, <2>1, <2>2 DEF StartJob
  <2> QED BY <1>1, <2>2, <2>3, BeginGuards DEF Queued
<1>5. CASE StartJob(l) /\ active[l] = NoObj
  <2>1. PICK c \in Obj : c = SpareObj
    BY <1>5, SpareIsApart DEF StartJob
  <2>2. \A o \in Obj : o # c => job'[o] = job[o]
    BY <1>5, <2>1 DEF StartJob, TypeOK
  <2>3. (\A o \in Obj : Queued(o) => Queued(o)') /\ Queued(c)'
    BY <1>1, <1>5, <2>1, AppendQueues DEF StartJob, TypeOK
  <2>5. job'[c].key = l /\ HasRecord(l) /\ db' = db
    BY <1>1, <1>5, <2>1 DEF StartJob, TypeOK, NewJob
  <2>6. \A k \in Key : HasRecord(k) => HasRecord(k)'
    BY <2>5 DEF HasRecord
  <2>7. \A k \in Key : active'[k] = IF k = l THEN c ELSE active[k]
    BY <1>1, <1>5, <2>1 DEF StartJob, TypeOK
  <2>8. \A k \in Key : active'[k] = c => HasRecord(k)' /\ job'[c].key = k /\ Covered(c)'
    <3>1. \A k \in Key : active[k] # c
      BY <1>5, <2>1, SpareIsApart DEF StartJob
    <3> QED BY <2>3, <2>5, <2>6, <2>7, <3>1 DEF Covered
  <2>9. task' = task /\ \A u \in Task : ~RunsOn(u, c)
    BY <1>5, <2>1, SpareIsApart DEF StartJob
  <2> QED BY <1>1, <2>2, <2>3, <2>6, <2>7, <2>8, <2>9, ConcernGuards
<1>6. CASE StopJob(l) \/ DeleteJob(l)
  <2>1. HasRecord(l) /\ HasTarget(l) /\ HasSpareTask
    BY <1>6 DEF StopJob, DeleteJob
  <2>2. PICK t \in Task : t = SpareTask /\ task[t].op = "idle"
    BY <2>1, SpareTaskIsIdle
  <2>3. PICK c \in Obj : c = Target(l)
    BY <1>1, <2>1, SpareIsApart DEF HasTarget, Target, TypeOK
  <2>4. Loaded(l) \in JobRecord /\ Loaded(l).key = l
    <3>1. CASE active[l] # NoObj
      BY <1>1, <3>1 DEF Loaded, TypeOK, Guarded, ActiveIsPersisted
    <3>2. CASE active[l] = NoObj
      <4>1. db[l] \in State
        BY <1>1, <2>1 DEF HasRecord, TypeOK, Recordable
      <4> QED BY <3>2, <4>1, NewJobType DEF Loaded, NewJob
    <3> QED BY <3>1, <3>2
  <2>5. job'[c].key = l /\ job'[c].closing = TRUE
    <3>1. CASE StopJob(l)
      <4> DEFINE released == IF Loaded(l).state \in Launching THEN FALSE ELSE Loaded(l).released
      <4>1. job'[c] = [Loaded(l) EXCEPT !.state = "STOPPING", !.closing = TRUE,
                                        !.released = released]
        BY <1>1, <2>3, <2>4, <3>1 DEF StopJob, TypeOK, JobRecord
      <4> HIDE DEF released
      <4> QED BY <2>4, <4>1 DEF JobRecord
    <3>2. CASE DeleteJob(l)
      BY <1>1, <2>3, <2>4, <3>2 DEF DeleteJob, TypeOK, JobRecord
    <3> QED BY <1>6, <3>1, <3>2
  <2>6. \A o \in Obj : o # c => job'[o] = job[o]
    BY <1>1, <1>6, <2>3 DEF StopJob, DeleteJob, TypeOK
  <2>7. /\ \A u \in Task : u # t => task'[u] = task[u]
        /\ task'[t].obj = c
    BY <1>1, <1>6, <2>2, <2>3 DEF StopJob, DeleteJob, TypeOK, Run
  <2>8. UNCHANGED <<active, queue>> /\ \A k \in Key : HasRecord(k) => HasRecord(k)'
    BY <1>2, <1>6 DEF StopJob, DeleteJob, HasRecord, State
  <2>9. ASSUME NEW k \in Key, active'[k] = c
        PROVE  HasRecord(k)' /\ job'[c].key = k /\ Covered(c)'
    <3>1. active[k] = c
      BY <2>8, <2>9
    <3>2. active[l] # NoObj
      BY <2>1, <2>3, <3>1, SpareIsApart DEF Target, HasTarget
    <3>3. k = l
      BY <2>3, <3>1, <3>2 DEF Target, Guarded, ActiveIsPersisted
    <3> QED BY <2>1, <2>5, <2>8, <3>3 DEF Covered
  <2>10. \A o \in Obj : Queued(o) => Queued(o)'
    BY <2>8 DEF Queued
  <2> QED BY <1>1, <2>2, <2>5, <2>6, <2>7, <2>8, <2>9, <2>10, ConcernGuards
<1> QED BY <1>3, <1>4, <1>5, <1>6 DEF Request

-----------------------------------------------------------------------------
(* The theorems.                                                             *)

LEMMA GuardedNext == IInv /\ [Next]_vars => IInv'
<1> SUFFICES ASSUME IInv, [Next]_vars
             PROVE  IInv'
  OBVIOUS
<1>1. TypeOK'
  BY TypeNext DEF IInv
<1>2. ASSUME UNCHANGED schedVars
      PROVE  Guarded'
  <2>1. UNCHANGED <<db, active, queue, job, task>>
    BY <1>2 DEF schedVars
  <2>2. ActiveIsPersisted' /\ CloseClosing'
    BY <2>1 DEF IInv, Guarded, ActiveIsPersisted, CloseClosing, Me, HasRecord
  <2>3. AllCovered'
    BY <2>1 DEF IInv, Guarded, AllCovered, Covered, Queued, StartsOn, WaitsOn, EndsOn, RunsOn
  <2> QED BY <2>2, <2>3 DEF Guarded
<1>3. CASE UNCHANGED vars
  BY <1>1, <1>2, <1>3 DEF vars, IInv
<1>4. ASSUME NEW k \in Key, Cloud(k)
      PROVE  Guarded'
  <2>1. UNCHANGED schedVars
    BY <1>4 DEF Cloud, CoordinatorRuns, CoordinatorCrashes, CoordinatorReports,
                CoordinatorEnds, PodRemoved, HeartbeatLost
  <2> QED BY <1>2, <2>1
<1>5. CASE Next
  BY <1>4, <1>5, TakeJobGuards, CoroutineGuards, HeartbeatGuards, RequestGuards, LossGuards,
     RebootGuards, <1>1 DEF Next, Restart, IInv
<1> QED BY <1>3, <1>5

\* The inductive invariant holds of every behaviour.
THEOREM Guard == Spec => []IInv
<1>1. Init => IInv
  BY TypeInit, PoolAssumption
     DEF IInv, Guarded, ActiveIsPersisted, AllCovered, CloseClosing, Init, NoRun
<1> QED BY <1>1, GuardedNext, PTL DEF Spec

\* A job the scheduler answers for is always in the database, whatever stops,
\* deletes, heartbeats, failures and restarts come together: a crash at any
\* moment loses no job that a client sees as active (Scheduler.__active_jobs).
THEOREM ActivePersisted == Spec => []ActiveIsPersisted
<1>1. IInv => ActiveIsPersisted
  BY DEF IInv, Guarded
<1> QED BY <1>1, Guard, PTL

\* No sequence of steps leaves an active job with nothing at work on it, unless
\* a stop or a delete was accepted for it.
THEOREM NoneStranded == Spec => []NeverStranded
<1>1. IInv => NeverStranded
  <2> SUFFICES ASSUME IInv, NEW k \in Key, active[k] # NoObj
               PROVE  Attended(active[k]) \/ job[active[k]].closing
    BY DEF NeverStranded
  <2>1. Covered(active[k])
    BY DEF IInv, Guarded, AllCovered
  <2> QED BY <2>1 DEF Covered, Attended, StartsOn, WaitsOn, EndsOn
<1> QED BY <1>1, Guard, PTL

\* Only create_job makes a record: every other step leaves an absent one absent.
LEMMA OnlyCreated ==
  ASSUME TypeOK, Next, ~ \E k \in Key : CreateJob(k), NEW l \in Key, HasRecord(l)'
  PROVE  HasRecord(l)
<1>0. \A k \in Key, s \in State : HasRecord(l) <=> Record(k, s)[l] # "ABSENT"
  BY RecordKeeps
<1>1. CASE db' = db
  BY <1>1 DEF HasRecord
<1>2. ASSUME NEW k \in Key, NEW s \in State, db' = Record(k, s)
      PROVE  HasRecord(l)
  BY <1>0, <1>2 DEF HasRecord
<1>3. ASSUME NEW o \in Obj, NEW t \in Task, Begin(o, t)
      PROVE  HasRecord(l)
  BY <1>2, <1>3 DEF Begin, TypeOK, JobRecord, State
<1>4. CASE TakeJob
  <2>1. Head(queue) \in Obj
    BY <1>4 DEF TakeJob, TypeOK
  <2> QED BY <1>1, <1>3, <1>4, <2>1, SpareTaskIsIdle DEF TakeJob
<1>5. ASSUME NEW t \in Task, Proceeds(t) \/ Suffers(t)
      PROVE  HasRecord(l)
  BY <1>1, <1>5, CoroutineSteady DEF Steady, Reboot
<1>6. ASSUME NEW k \in Key, Heartbeat(k)
      PROVE  HasRecord(l)
  BY <1>1, <1>2, <1>6 DEF Heartbeat, TypeOK, Report, State
<1>7. ASSUME NEW k \in Key, StartJob(k)
      PROVE  HasRecord(l)
  BY <1>1, <1>3, <1>7, SpareTaskIsIdle DEF StartJob, TypeOK
<1>8. ASSUME NEW k \in Key, StopJob(k) \/ DeleteJob(k)
      PROVE  HasRecord(l)
  BY <1>2, <1>8 DEF StopJob, DeleteJob, State
<1>9. ASSUME NEW k \in Key, Cloud(k)
      PROVE  HasRecord(l)
  BY <1>1, <1>9 DEF Cloud, CoordinatorRuns, CoordinatorCrashes, CoordinatorReports,
                    CoordinatorEnds, PodRemoved, HeartbeatLost, schedVars
<1>10. ASSUME NEW o \in Obj, LossHeartbeat(o)
       PROVE  HasRecord(l)
  BY <1>2, <1>10 DEF LossHeartbeat, TypeOK, JobRecord, State
<1>11. CASE Restart
  BY <1>1, <1>11 DEF Restart, Reboot
<1> QED BY <1>4, <1>5, <1>6, <1>7, <1>8, <1>9, <1>10, <1>11 DEF Next, Request

\* What is left of a deleted job in memory (a start() or a stop() still in
\* progress, an armed timer, a late heartbeat) never brings its record back.
THEOREM NeverResurrected == Spec => NoResurrection
<1> DEFINE Fresh(k) ==
      ~HasRecord(k) /\ HasRecord(k)' =>
        /\ db'[k] = "QUEUING"
        /\ active'[k] # NoObj
        /\ queue' # <<>> /\ queue'[Len(queue')] = active'[k]
<1>1. TypeOK /\ [Next]_vars => [\A k \in Key : Fresh(k)]_vars
  <2> SUFFICES ASSUME TypeOK, Next, NEW k \in Key, ~HasRecord(k), HasRecord(k)'
               PROVE  Fresh(k)
    OBVIOUS
  <2>1. PICK l \in Key : CreateJob(l)
    BY OnlyCreated
  <2>2. k = l
    BY <2>1 DEF CreateJob, HasRecord, TypeOK
  <2>3. SpareObj \in Obj /\ SpareObj # NoObj
    BY <2>1, SpareObjIsSpare, PoolAssumption DEF CreateJob
  <2>4. db'[k] = "QUEUING" /\ active'[k] = SpareObj
    BY <2>1, <2>2 DEF CreateJob, TypeOK
  <2>5. queue' = Append(queue, SpareObj)
    BY <2>1 DEF CreateJob
  <2>6. queue' # <<>> /\ queue'[Len(queue')] = SpareObj
    BY <2>3, <2>5 DEF TypeOK
  <2> QED BY <2>3, <2>4, <2>6
<1> QED BY <1>1, TypeCorrect, PTL DEF NoResurrection, Spec

-----------------------------------------------------------------------------
(* Patient clients: one object per job.                                      *)
(*                                                                           *)
(* A coroutine, the timer or the queue may hold on to an object that is not  *)
(* the active one of its job any more, and write the record of the job all   *)
(* the same. Clients that wait until the job is quiet before they have it    *)
(* created or loaded anew rule that out: a job has one object in use, its    *)
(* record holds the state of that object, and a delete() works alone.        *)

OneObject ==
  \A o, p \in Obj : InUse(o) /\ InUse(p) /\ job[o].key = job[p].key => o = p

InUseMirrored == \A o \in Obj : InUse(o) => db[job[o].key] = job[o].state

DeleteIsAlone ==
  \A t \in Task : task[t].op = "delete" =>
    /\ \A u \in Task : RunsOn(u, Me(t)) => u = t
    /\ ~Queued(Me(t)) /\ ~Mine(t).timer
    /\ Mine(t).state = "DELETING"

Single == OneObject /\ InUseMirrored /\ DeleteIsAlone

SInv == IInv /\ Single

\* A step concerns object c when nothing of the other objects changes but that
\* they may get out of use.
Concerns(c) ==
  \A o \in Obj : o # c =>
    /\ job'[o] = job[o]
    /\ Queued(o)' => Queued(o)
    /\ \A u \in Task : RunsOn(u, o)' => RunsOn(u, o) /\ task'[u].op = task[u].op
    /\ \A k \in Key : active'[k] = o => active[k] = o

\* ... and writes the record of no other job than that of c.
Writes(c) == \A k \in Key : k # job'[c].key => db'[k] = db[k]

LEMMA ConcernedSingle ==
  ASSUME SInv, NEW c \in Obj, Concerns(c), Writes(c),
         \A o \in Obj : o # c /\ InUse(o) => job[o].key # job'[c].key,
         InUse(c)' => db'[job'[c].key] = job'[c].state
  PROVE  OneObject' /\ InUseMirrored'
<1>1. \A o \in Obj : o # c /\ InUse(o)' => InUse(o)
  BY DEF Concerns, InUse
<1>2. \A o \in Obj : job[o].key \in Key
  BY DEF SInv, IInv, TypeOK, JobRecord
<1>3. OneObject'
  <2> SUFFICES ASSUME NEW o \in Obj, NEW p \in Obj, InUse(o)', InUse(p)',
                      job'[o].key = job'[p].key
               PROVE  o = p
    BY DEF OneObject
  <2>1. CASE o # c /\ p # c
    BY <1>1, <2>1 DEF Concerns, SInv, Single, OneObject
  <2>2. CASE o = c \/ p = c
    BY <1>1, <2>2 DEF Concerns
  <2> QED BY <2>1, <2>2
<1>4. InUseMirrored'
  <2> SUFFICES ASSUME NEW o \in Obj, InUse(o)', o # c
               PROVE  db'[job'[o].key] = job'[o].state
    BY DEF InUseMirrored
  <2>1. InUse(o) /\ job'[o] = job[o] /\ job[o].key # job'[c].key
    BY <1>1 DEF Concerns
  <2> QED BY <1>2, <2>1 DEF Writes, SInv, Single, InUseMirrored
<1> QED BY <1>3, <1>4

LEMMA ConcernedAlone ==
  ASSUME SInv, NEW c \in Obj, Concerns(c),
         \A t \in Task : task'[t].op = "delete" /\ task'[t].obj = c =>
           /\ \A u \in Task : RunsOn(u, c)' => u = t
           /\ ~Queued(c)' /\ ~job'[c].timer
           /\ job'[c].state = "DELETING",
         SchedTypeOK'
  PROVE  DeleteIsAlone'
<1> SUFFICES ASSUME NEW t \in Task, NEW o \in Obj, task'[t].op = "delete", task'[t].obj = o,
                    o # c
             PROVE  /\ \A u \in Task : RunsOn(u, o)' => u = t
                    /\ ~Queued(o)' /\ ~job'[o].timer
                    /\ job'[o].state = "DELETING"
  <2>1. \A t \in Task : task'[t].op = "delete" => \E o \in Obj : o = task'[t].obj
    BY DEF SchedTypeOK, TaskRecord, NoRun
  <2> QED BY <2>1 DEF DeleteIsAlone, Me, Mine, RunsOn, Queued
<1>1. RunsOn(t, o)'
  BY DEF RunsOn
<1>2. task[t].op = "delete" /\ task[t].obj = o
  BY <1>1 DEF Concerns, RunsOn
<1>3. /\ \A u \in Task : RunsOn(u, o) => u = t
      /\ ~Queued(o) /\ ~job[o].timer
      /\ job[o].state = "DELETING"
  BY <1>2 DEF SInv, Single, DeleteIsAlone, Me, Mine
<1> QED BY <1>3 DEF Concerns

\* A step on the object in use of a job.
LEMMA InUseApart ==
  ASSUME SInv, NEW c \in Obj, InUse(c), job'[c].key = job[c].key
  PROVE  \A o \in Obj : o # c /\ InUse(o) => job[o].key # job'[c].key
BY DEF SInv, Single, OneObject

\* The record of a job with an object in use is there.
LEMMA InUseRecorded ==
  ASSUME SInv, NEW c \in Obj, InUse(c)
  PROVE  /\ job[c].key \in Key /\ HasRecord(job[c].key)
         /\ db[job[c].key] = job[c].state /\ job[c].state \in State
BY DEF SInv, IInv, TypeOK, JobRecord, Single, InUseMirrored, HasRecord, State

LEMMA RecordWrites ==
  ASSUME SInv, NEW k \in Key, HasRecord(k), NEW s \in State
  PROVE  Record(k, s)[k] = s /\ \A l \in Key : l # k => Record(k, s)[l] = db[l]
BY DEF Record, SInv, IInv, TypeOK

-----------------------------------------------------------------------------
(* The coroutines. *)

\* How a step writes the record of the job of an object: not at all, or
\* together with the object's state.
WritesState(o) ==
  \/ db' = db /\ job'[o].state = job[o].state
  \/ db' = Record(job[o].key, job'[o].state)

LEMMA CoroutineWrites ==
  ASSUME TypeOK, NEW t \in Task, Proceeds(t) \/ Suffers(t), ~DeleteEnds(t),
         HasRecord(Mine(t).key) \/ ~Reboot
  PROVE  WritesState(Me(t))
<1> USE DEF At
<1>0. task[t].op # "idle" /\ Steady(t)
  BY CoroutineSteady
<1>1. PICK m \in Obj : m = Me(t)
  BY <1>0, TaskMoves
<1>2. Mine(t) = job[m] /\ job[m].key \in Key /\ job \in [Obj -> JobRecord]
  BY <1>0, <1>1, TaskMoves DEF Mine, TypeOK
<1>p. \A pc \in Pc : Moves(t, pc) => WritesState(m)
  BY DEF Moves, WritesState
<1>f. StartFails(t) => WritesState(m)
  <2> SUFFICES ASSUME StartFails(t)
               PROVE  WritesState(m)
    OBVIOUS
  <2>1. job'[m].state = "FAILED"
    BY <1>1, <1>2 DEF StartFails, JobRecord
  <2>2. db' = Record(job[m].key, "FAILED")
    BY <1>2 DEF StartFails, Record
  <2> QED BY <2>1, <2>2 DEF WritesState
<1>d. AfterDeleted(t) => WritesState(m)
  <2> SUFFICES ASSUME AfterDeleted(t)
               PROVE  WritesState(m)
    OBVIOUS
  <2>1. UNCHANGED <<db, job>>
    BY DEF AfterDeleted, Moves
  <2> QED BY <2>1 DEF WritesState
<1>e. StopPodDone(t) => WritesState(m)
  BY <1>1, <1>2 DEF StopPodDone, WritesState, JobRecord
<1>r. BecomesRunning(t) \/ Releases(t) => WritesState(m)
  <2>1. CASE BecomesRunning(t)
    <3>1. job'[m].state = "RUNNING"
      BY <1>1, <1>2, <2>1 DEF BecomesRunning, JobRecord
    <3> QED BY <1>2, <2>1, <3>1 DEF BecomesRunning, WritesState
  <2>2. CASE Releases(t)
    BY <1>1, <1>2, <2>2 DEF Releases, WritesState, JobRecord
  <2> QED BY <2>1, <2>2
<1>3. CASE ReadPhase(t)
  BY <1>3 DEF ReadPhase, WritesState
<1>4. CASE ClientsEnough(t)
  <2>1. CASE LeavesPending(t, "route")
    <3>1. job'[m].state = "STARTING"
      BY <1>1, <1>2, <2>1 DEF LeavesPending, JobRecord
    <3> QED BY <1>1, <1>2, <2>1, <3>1 DEF LeavesPending, WritesState
  <2>2. CASE Moves(t, "route") \/ Moves(t, "poll")
    BY <1>1, <1>p, <2>2 DEF Pc, Polling
  <2> QED BY <1>1, <1>4, <2>1, <2>2 DEF ClientsEnough
<1>5. CASE CheckAgain(t)
  <2>1. CASE Moves(t, "check")
    BY <1>1, <1>p, <2>1 DEF Pc
  <2>2. CASE ~ Moves(t, "check")
    BY <1>1, <1>2, <1>5, <2>2 DEF CheckAgain, WritesState, JobRecord
  <2> QED BY <1>1, <2>1, <2>2
<1>6. CASE RouteAdded(t) \/ PodCreated(t) \/ StartReleased(t) \/ ClientsUnknown(t) \/ RetrySkipped(t)
  BY <1>6 DEF RouteAdded, PodCreated, StartReleased, ClientsUnknown, RetrySkipped, Moves,
              WritesState
<1>7. CASE PodPolled(t) \/ PollAgain(t)
  <2>1. \/ Moves(t, "repoll") \/ Moves(t, "poll") \/ Releases(t) \/ BecomesRunning(t)
        \/ StartFails(t)
    BY <1>7 DEF PodPolled, PollAgain
  <2> QED BY <1>1, <1>p, <1>r, <1>f, <2>1 DEF Pc, Polling
<1>8. CASE PodDeleted(t) \/ PodGone(t)
  BY <1>1, <1>8, <1>p, <1>d DEF PodDeleted, PodGone, Pc, Polling
<1>9. CASE StopPolled(t) \/ StopSent(t) \/ StopWaited(t) \/ StopGivesUp(t)
  <2>1. Moves(t, "send") \/ Moves(t, "halt") \/ Moves(t, "nap") \/ StopPodDone(t)
    BY <1>9 DEF StopPolled, StopSent, StopWaited, StopGivesUp
  <2> QED BY <1>1, <1>p, <1>e, <2>1 DEF Pc, Polling
<1>10. CASE StopEnds(t)
  <2>1. CASE Mine(t).state \in {"STOPPING", "STOPPED"}
    <3>1. job'[m].state = "STOPPED"
      BY <1>1, <1>2, <1>10, <2>1 DEF StopEnds, JobRecord
    <3> QED BY <1>1, <1>2, <1>10, <2>1, <3>1 DEF StopEnds, WritesState
  <2>2. CASE Mine(t).state \notin {"STOPPING", "STOPPED"}
    BY <1>10, <2>2 DEF StopEnds, WritesState
  <2> QED BY <2>1, <2>2
<1>12. CASE ClientsScarce(t)
  <2>1. job'[m].state = "PENDING"
    BY <1>1, <1>2, <1>12 DEF ClientsScarce, JobRecord
  <2> QED BY <1>1, <1>2, <1>12, <2>1 DEF ClientsScarce, WritesState
<1>13. CASE CreateRaises(t)
  BY <1>1, <1>f, <1>13 DEF CreateRaises
<1>14. CASE StopAborts(t)
  BY <1>14 DEF StopAborts, WritesState
<1> QED
  BY <1>3, <1>4, <1>5, <1>6, <1>7, <1>8, <1>9, <1>10, <1>12, <1>13, <1>14
     DEF Proceeds, StartStep, DeletionStep, StopStep, EndStep, Suffers

\* A restart does not happen in the midst of a coroutine: a start() whose record is
\* gone would have to be at work on a job without one.
LEMMA NoReboot ==
  ASSUME SInv, NEW t \in Task, StartFails(t), task[t].op # "idle"
  PROVE  HasRecord(Mine(t).key)
<1>1. PICK m \in Obj : m = Me(t)
  BY TaskMoves DEF SInv, IInv
<1>2. InUse(m)
  BY <1>1 DEF InUse, RunsOn, Me
<1> QED BY <1>1, <1>2, InUseRecorded DEF Mine

\* A delete() changes nothing of its object.
LEMMA DeleteStep ==
  ASSUME NEW t \in Task, Proceeds(t) \/ Suffers(t), task[t].op = "delete"
  PROVE  job' = job
BY DEF At, Proceeds, ReadPhase, StartStep, DeletionStep, StopStep, EndStep, Suffers,
       ClientsEnough, CheckAgain, RouteAdded, PodCreated, PodPolled, PollAgain,
       PodDeleted, PodGone, StartReleased, StopPolled, StopSent, StopWaited,
       StopEnds, DeleteEnds, ClientsScarce, ClientsUnknown, RetrySkipped,
       CreateRaises, StopGivesUp, StopAborts, AfterDeleted, Moves

\* A coroutine concerns its object, and no other coroutine.
LEMMA SteadyConcerns ==
  ASSUME TypeOK, NEW t \in Task, task[t].op # "idle", Steady(t)
  PROVE  /\ Concerns(Me(t))
         /\ \A o \in Obj, u \in Task : RunsOn(u, o)' => RunsOn(u, o)
<1>1. \A o \in Obj, u \in Task : RunsOn(u, o)' => RunsOn(u, o) /\ task'[u].op = task[u].op
  BY PoolAssumption DEF RunsOn, Steady, NoRun
<1> QED BY <1>1, PoolAssumption DEF Concerns, Steady, Queued

LEMMA CoroutineSingle ==
  ASSUME SInv, NEW t \in Task, Proceeds(t) \/ Suffers(t), ~Reboot
  PROVE  Single'
<1>0. TypeOK /\ SchedTypeOK' /\ Steady(t) /\ task[t].op # "idle"
  BY CoroutineSteady, CoroutineTypes DEF SInv, IInv
<1>1. PICK m \in Obj : m = Me(t) /\ InUse(m)
  BY <1>0, TaskMoves DEF InUse, RunsOn, Me
<1>2. Concerns(m) /\ \A u \in Task : RunsOn(u, m)' => RunsOn(u, m)
  BY <1>0, <1>1, SteadyConcerns
<1>3. job'[m].key = job[m].key
  BY <1>0, <1>1 DEF Steady, Mine
<1>4. \A o \in Obj : o # m /\ InUse(o) => job[o].key # job'[m].key
  BY <1>1, <1>3, InUseApart
<1>5. DeleteIsAlone'
  <2> SUFFICES ASSUME NEW d \in Task, task'[d].op = "delete", task'[d].obj = m
               PROVE  /\ \A u \in Task : RunsOn(u, m)' => u = d
                      /\ ~Queued(m)' /\ ~job'[m].timer /\ job'[m].state = "DELETING"
    BY <1>0, <1>2, ConcernedAlone
  <2>1. task[d].op = "delete" /\ Me(d) = m
    BY <1>0 DEF Steady, Me, NoRun
  <2>2. /\ \A u \in Task : RunsOn(u, m) => u = d
        /\ ~Queued(m) /\ ~job[m].timer /\ job[m].state = "DELETING"
    BY <2>1 DEF SInv, Single, DeleteIsAlone, Mine
  <2>3. t = d
    BY <1>0, <1>1, <2>2 DEF RunsOn, Me
  <2>4. job' = job
    BY <2>1, <2>3, DeleteStep
  <2> QED BY <1>0, <1>2, <2>2, <2>4 DEF Steady, Queued
<1>6. CASE ~DeleteEnds(t)
  <2>1. WritesState(m)
    BY <1>0, <1>1, <1>6, CoroutineWrites
  <2>2. /\ HasRecord(job[m].key) /\ job[m].key \in Key /\ db[job[m].key] = job[m].state
        /\ job'[m].state \in State
    BY <1>0, <1>1, InUseRecorded DEF SchedTypeOK, JobRecord
  <2>3. Writes(m) /\ db'[job'[m].key] = job'[m].state
    BY <1>3, <2>1, <2>2, RecordWrites DEF WritesState, Writes
  <2> QED BY <1>2, <1>4, <1>5, <2>3, ConcernedSingle DEF Single
<1>7. CASE DeleteEnds(t)
  <2>1. task[t].op = "delete" /\ job[m].key \in Key
    BY <1>1, <1>7, InUseRecorded DEF DeleteEnds, At
  <2>2. /\ \A u \in Task : RunsOn(u, m) => u = t
        /\ ~Queued(m) /\ ~job[m].timer
    BY <1>1, <2>1 DEF SInv, Single, DeleteIsAlone, Me, Mine
  <2>3. ~RunsOn(t, m)'
    BY <1>0, <1>7, EndsSteady DEF DeleteEnds, RunsOn, NoRun
  <2>4. ~Queued(m)' /\ ~job'[m].timer
    BY <1>0, <1>7, <2>2 DEF DeleteEnds, Steady, Queued
  <2>5. \A k \in Key : active'[k] # m
    <3>1. active' = Finish(job[m].key)
      BY <1>1, <1>7 DEF DeleteEnds, Mine
    <3>2. ~ \E k \in Key : active'[k] = m
      BY <1>0, <2>1, <3>1, NotActive DEF SInv, Steady
    <3> QED BY <3>2
  <2>6. ~InUse(m)'
    BY <1>2, <2>2, <2>3, <2>4, <2>5 DEF InUse
  <2>7. Writes(m)
    BY <1>0, <1>1, <1>3, <1>7 DEF DeleteEnds, Writes, Mine, TypeOK
  <2> QED BY <1>2, <1>4, <1>5, <2>6, <2>7, ConcernedSingle DEF Single
<1> QED BY <1>6, <1>7

-----------------------------------------------------------------------------
(* The steps that are not a coroutine's. *)

\* A step on the object in use of a job, which no delete() works on.
LEMMA WorkSingle ==
  ASSUME SInv, SchedTypeOK', NEW c \in Obj, Concerns(c), InUse(c),
         job'[c].key = job[c].key, WritesState(c),
         \A d \in Task : ~(task'[d].op = "delete" /\ task'[d].obj = c)
  PROVE  Single'
<1>1. \A o \in Obj : o # c /\ InUse(o) => job[o].key # job'[c].key
  BY InUseApart
<1>2. /\ HasRecord(job[c].key) /\ job[c].key \in Key /\ db[job[c].key] = job[c].state
      /\ job'[c].state \in State
  BY InUseRecorded DEF SchedTypeOK, JobRecord
<1>3. Writes(c) /\ db'[job'[c].key] = job'[c].state
  BY <1>2, RecordWrites DEF WritesState, Writes
<1> QED BY <1>1, <1>3, ConcernedSingle, ConcernedAlone DEF Single

LEMMA BeginSingle ==
  ASSUME SInv, SchedTypeOK', NEW c \in Obj, InUse(c), NEW t \in Task, task[t].op = "idle",
         Begin(c, t),
         \A d \in Task : ~(task[d].op = "delete" /\ task[d].obj = c),
         \A o \in Obj : Queued(o)' => Queued(o)
  PROVE  Single'
<1>1. job[c].key \in Key /\ job[c] \in JobRecord
  BY DEF SInv, IInv, TypeOK, JobRecord
<1>2. WritesState(c)
  <2>1. CASE job' = [job EXCEPT ![c].state = "STARTING", ![c].first = FALSE,
                                ![c].timer = FALSE]
             /\ db' = Record(job[c].key, "STARTING")
    <3>1. job'[c].state = "STARTING"
      BY <1>1, <2>1 DEF SInv, IInv, TypeOK, JobRecord
    <3> QED BY <2>1, <3>1 DEF WritesState
  <2>2. CASE job' = [job EXCEPT ![c].state = "FAILED", ![c].first = FALSE,
                                ![c].timer = FALSE]
             /\ db' = Record(job[c].key, "FAILED")
    <3>1. job'[c].state = "FAILED"
      BY <1>1, <2>2 DEF SInv, IInv, TypeOK, JobRecord
    <3> QED BY <2>2, <3>1 DEF WritesState
  <2> QED BY <2>1, <2>2 DEF Begin
<1>3. job'[c].key = job[c].key /\ \A o \in Obj : o # c => job'[o] = job[o]
  BY DEF Begin, SInv, IInv, TypeOK, JobRecord
<1>4. /\ \A u \in Task : u # t => task'[u] = task[u]
      /\ task'[t] = task[t] \/ task'[t] = Run("start", c, "check")
  BY DEF Begin, SInv, IInv, TypeOK
<1>5. \A o \in Obj, u \in Task : o # c /\ RunsOn(u, o)' => RunsOn(u, o) /\ task'[u].op = task[u].op
  BY <1>4 DEF RunsOn, Run
<1>6. \A k \in Key, o \in Obj : active'[k] = o => active[k] = o
  BY <1>1, FinishSteady, PoolAssumption DEF Begin, SInv, IInv
<1>7. \A d \in Task : ~(task'[d].op = "delete" /\ task'[d].obj = c)
  BY <1>4 DEF Run
<1> QED BY <1>2, <1>3, <1>5, <1>6, <1>7, WorkSingle DEF Concerns

\* A queued job, or one whose timer is armed, is not being deleted.
LEMMA NotDeleted ==
  ASSUME SInv, NEW c \in Obj, Queued(c) \/ job[c].timer \/ job[c].state # "DELETING"
  PROVE  \A d \in Task : ~(task[d].op = "delete" /\ task[d].obj = c)
BY DEF SInv, Single, DeleteIsAlone, Me, Mine

\* The head of the queue, and what is left of the queue.
LEMMA HeadOfQueue ==
  ASSUME TypeOK, TakeJob, NEW c \in Obj, c = Head(queue)
  PROVE  Queued(c) /\ \A o \in Obj : Queued(o)' => Queued(o)
<1>1. queue \in Seq(Obj) /\ queue # <<>> /\ queue' = Tail(queue)
  BY DEF TypeOK, TakeJob
<1>2. 1 \in DOMAIN queue /\ queue[1] = c
  BY <1>1
<1>3. ASSUME NEW o \in Obj, NEW i \in DOMAIN queue', queue'[i] = o
      PROVE  Queued(o)
  <2>1. i + 1 \in DOMAIN queue /\ queue[i + 1] = o
    BY <1>1, <1>3
  <2> QED BY <2>1 DEF Queued
<1> QED BY <1>2, <1>3 DEF Queued

LEMMA TakeJobSingle ==
  ASSUME SInv, TakeJob
  PROVE  Single'
<1>1. SchedTypeOK' /\ TypeOK
  BY TakeJobTypes DEF SInv, IInv
<1>2. PICK c \in Obj : c = Head(queue)
  BY <1>1 DEF TakeJob, TypeOK
<1>3. Queued(c) /\ \A o \in Obj : Queued(o)' => Queued(o)
  BY <1>1, <1>2, HeadOfQueue
<1>4. InUse(c) /\ \A d \in Task : ~(task[d].op = "delete" /\ task[d].obj = c)
  BY <1>3, NotDeleted DEF InUse
<1>5. CASE active[job[c].key] = NoObj
  <2>1. UNCHANGED <<db, active, loop, job, task>>
    BY <1>2, <1>5 DEF TakeJob
  <2> QED BY <1>1, <1>3, <1>4, <2>1, WorkSingle DEF WritesState, RunsOn, Concerns
<1>6. CASE active[job[c].key] # NoObj
  <2>1. PICK t \in Task : t = SpareTask /\ task[t].op = "idle"
    BY <1>2, <1>6, SpareTaskIsIdle DEF TakeJob
  <2>2. Begin(c, t)
    BY <1>2, <1>6, <2>1 DEF TakeJob
  <2> QED BY <1>1, <1>3, <1>4, <2>1, <2>2, BeginSingle
<1> QED BY <1>5, <1>6

LEMMA LossSingle ==
  ASSUME SInv, NEW c \in Obj, LossHeartbeat(c)
  PROVE  Single'
<1>1. SchedTypeOK' /\ job[c].key \in Key /\ job[c] \in JobRecord
  BY HeartbeatTypes DEF SInv, IInv, TypeOK, JobRecord
<1>2. InUse(c) /\ \A d \in Task : ~(task[d].op = "delete" /\ task[d].obj = c)
  BY NotDeleted DEF InUse, LossHeartbeat
<1>3. /\ job'[c].state = "FAILED" /\ job'[c].key = job[c].key
      /\ \A o \in Obj : o # c => job'[o] = job[o]
  BY <1>1 DEF LossHeartbeat, SInv, IInv, TypeOK, JobRecord
<1>4. WritesState(c)
  BY <1>3 DEF LossHeartbeat, WritesState
<1>5. \A k \in Key, o \in Obj : active'[k] = o => active[k] = o
  BY <1>1, FinishSteady, PoolAssumption DEF LossHeartbeat, SInv, IInv
<1>6. UNCHANGED <<queue, task>>
  BY DEF LossHeartbeat
<1> QED BY <1>1, <1>2, <1>3, <1>4, <1>5, <1>6, WorkSingle DEF Queued, RunsOn, Concerns

\* The object a heartbeat is for.
LEMMA HeartbeatObject ==
  ASSUME SInv, NEW l \in Key, Heartbeat(l), ~ UNCHANGED <<db, job, task>>,
         NEW c \in Obj, c = active[l]
  PROVE  /\ job[c].key = l /\ job[c] \in JobRecord /\ InUse(c)
         /\ job'[c].key = job[c].key /\ job'[c].released = job[c].released
         /\ \A o \in Obj : o # c => job'[o] = job[o]
         /\ mail[l] # "NONE" /\ mail'[l] = "NONE"
         /\ \/ ~job[c].first /\ UNCHANGED <<db, task>> /\ job'[c].state = job[c].state
            \/ /\ job[c].first /\ Expects(job[c].state, mail[l])
               /\ job'[c].first
               /\ db' = Record(l, mail[l]) /\ job'[c].state = mail[l]
               /\ \/ task' = task /\ mail[l] \notin {"FINISHED", "FAILED"}
                  \/ /\ task' = [task EXCEPT ![SpareTask] = Run("heartbeat", c, "del")]
                     /\ mail[l] \in {"FINISHED", "FAILED"} /\ HasSpareTask
<1>1. c # NoObj /\ TypeOK
  BY PoolAssumption DEF SInv, IInv
<1>2. job[c].key = l /\ job[c] \in JobRecord /\ InUse(c)
  BY <1>1 DEF SInv, IInv, Guarded, ActiveIsPersisted, TypeOK, InUse
<1>3. mail[l] # "NONE" /\ mail'[l] = "NONE"
  BY <1>1 DEF Heartbeat, TypeOK
<1>4. CASE ~job[c].first
  <2>1. job' = [job EXCEPT ![c].first = TRUE] /\ UNCHANGED <<db, task>>
    BY <1>1, <1>4 DEF Heartbeat
  <2>2. /\ job'[c].key = job[c].key /\ job'[c].released = job[c].released
        /\ job'[c].state = job[c].state
        /\ \A o \in Obj : o # c => job'[o] = job[o]
    BY <1>1, <1>2, <2>1 DEF TypeOK, JobRecord
  <2> QED BY <1>2, <1>3, <1>4, <2>1, <2>2
<1>5. CASE job[c].first
  <2>1. /\ Expects(job[c].state, mail[l]) /\ db' = Record(l, mail[l])
        /\ \/ /\ mail[l] \notin {"FINISHED", "FAILED"} /\ task' = task
              /\ job' = [job EXCEPT ![c].state = mail[l], ![c].timer = TRUE]
           \/ /\ mail[l] \in {"FINISHED", "FAILED"} /\ HasSpareTask
              /\ task' = [task EXCEPT ![SpareTask] = Run("heartbeat", c, "del")]
              /\ job' = [job EXCEPT ![c].state = mail[l], ![c].timer = FALSE]
    BY <1>1, <1>5 DEF Heartbeat
  <2>2. /\ job'[c].key = job[c].key /\ job'[c].released = job[c].released
        /\ job'[c].state = mail[l] /\ job'[c].first
        /\ \A o \in Obj : o # c => job'[o] = job[o]
    BY <1>1, <1>2, <1>5, <2>1 DEF TypeOK, JobRecord
  <2> QED BY <1>2, <1>3, <1>5, <2>1, <2>2
<1> QED BY <1>4, <1>5

LEMMA HeartbeatSingle ==
  ASSUME SInv, NEW l \in Key, Heartbeat(l)
  PROVE  Single'
<1>1. SchedTypeOK' /\ TypeOK
  BY HeartbeatTypes DEF SInv, IInv
<1>2. UNCHANGED <<active, queue>>
  BY DEF Heartbeat
<1>3. CASE UNCHANGED <<db, job, task>>
  BY <1>2, <1>3 DEF SInv, Single, OneObject, InUseMirrored, DeleteIsAlone, InUse, Queued, RunsOn,
                    Me, Mine
<1>4. CASE ~ UNCHANGED <<db, job, task>>
  <2>1. PICK c \in Obj : c = active[l]
    BY <1>1, <1>4 DEF Heartbeat, TypeOK
  <2>2. /\ job[c].key = l /\ InUse(c) /\ job'[c].key = job[c].key
        /\ \A o \in Obj : o # c => job'[o] = job[o]
    BY <1>4, <2>1, HeartbeatObject
  <2>3. CASE UNCHANGED <<db, task>> /\ job'[c].state = job[c].state /\ ~job[c].first
    <3>1. WritesState(c)
      BY <2>3 DEF WritesState
    <3>2. CASE \A d \in Task : ~(task'[d].op = "delete" /\ task'[d].obj = c)
      BY <1>1, <1>2, <2>2, <2>3, <3>1, <3>2, WorkSingle DEF Concerns, Queued, RunsOn
    <3>3. CASE \E d \in Task : task'[d].op = "delete" /\ task'[d].obj = c
      <4>1. job'[c].timer = job[c].timer
        BY <1>1, <1>4, <2>1, <2>3, PoolAssumption DEF Heartbeat, TypeOK, JobRecord
      <4>2. Concerns(c) /\ Writes(c)
        BY <1>2, <2>2, <2>3 DEF Concerns, Queued, RunsOn, Writes
      <4>3. DeleteIsAlone'
        BY <1>2, <2>2, <2>3, <4>1
           DEF SInv, Single, DeleteIsAlone, Me, Mine, RunsOn, Queued, IInv, TypeOK, TaskRecord, NoRun
      <4> QED BY <2>2, <2>3, <4>2, <4>3, ConcernedSingle, InUseApart, InUseRecorded DEF Single
    <3> QED BY <3>2, <3>3
  <2>4. CASE /\ Expects(job[c].state, mail[l])
             /\ db' = Record(l, mail[l]) /\ job'[c].state = mail[l]
             /\ \/ task' = task
                \/ /\ task' = [task EXCEPT ![SpareTask] = Run("heartbeat", c, "del")]
                   /\ HasSpareTask
    <3>1. WritesState(c)
      BY <2>2, <2>4 DEF WritesState
    <3>2. \A d \in Task : ~(task[d].op = "delete" /\ task[d].obj = c)
      <4>1. job[c].state # "DELETING"
        BY <2>4 DEF Expects, Expected
      <4> QED BY <4>1, NotDeleted
    <3>3. \A d \in Task : ~(task'[d].op = "delete" /\ task'[d].obj = c)
      BY <1>1, <2>4, <3>2 DEF TypeOK, Run
    <3>4. \A o \in Obj, u \in Task : o # c /\ RunsOn(u, o)' =>
            RunsOn(u, o) /\ task'[u].op = task[u].op
      BY <1>1, <2>4 DEF RunsOn, Run, TypeOK
    <3> QED BY <1>1, <1>2, <2>2, <3>1, <3>3, <3>4, WorkSingle DEF Concerns, Queued
  <2> QED BY <1>4, <2>1, <2>3, <2>4, HeartbeatObject
<1> QED BY <1>3, <1>4

\* What a restart makes of a job with a record.
LEMMA Restored ==
  ASSUME Reboot, NEW k \in Key, HasRecord(k)
  PROVE  /\ ObjFor[k] \in Obj /\ job'[ObjFor[k]] = RestoredJob(k)
         /\ RestoredJob(k).key = k /\ RestoredJob(k).state = db[k]
         /\ RestoredJob(k).timer = (db[k] = "RUNNING")
<1>1. k = CHOOSE l \in Key : ObjFor[l] = ObjFor[k]
  BY RestoredApart
<1>2. ObjFor[k] \in Obj
  BY RestoredApart
<1>3. job'[ObjFor[k]] = RestoredJob(k)
  BY <1>1, <1>2 DEF Reboot
<1> DEFINE timer == db[k] = "RUNNING"
           closing == db[k] \in {"DELETING", "STOPPING"}
<1>4. RestoredJob(k) = [NewJob(k, db[k]) EXCEPT !.timer = timer, !.closing = closing]
  BY DEF RestoredJob
<1> HIDE DEF timer, closing
<1>5. /\ RestoredJob(k).key = k /\ RestoredJob(k).state = db[k]
      /\ RestoredJob(k).timer = timer
  BY <1>4 DEF NewJob
<1> USE DEF timer
<1> QED BY <1>2, <1>3, <1>5

LEMMA RestoredTask ==
  ASSUME Reboot, NEW u \in Task, task'[u].op # "idle"
  PROVE  \E l \in Key : /\ HasRecord(l) /\ db[l] \in {"DELETING", "STOPPING"}
                        /\ TaskFor[l] = u
                        /\ task'[u] = RestoredRun(l) /\ task'[u].obj = ObjFor[l]
<1>1. PICK l \in Key : TaskFor[l] = u
  BY DEF Reboot, NoRun
<1>2. l = CHOOSE x \in Key : TaskFor[x] = u
  BY <1>1, RestoredApart
<1>3. task'[u] = RestoredRun(l)
  BY <1>1, <1>2 DEF Reboot
<1>4. db[l] \in {"DELETING", "STOPPING"} /\ task'[u].obj = ObjFor[l]
  BY <1>3 DEF RestoredRun, Run, NoRun
<1> QED BY <1>1, <1>3, <1>4 DEF HasRecord

\* What is in use after a restart is what was made for the records.
LEMMA RestoredInUse ==
  ASSUME Reboot, NEW o \in Obj, InUse(o)'
  PROVE  \E l \in Key : o = ObjFor[l] /\ HasRecord(l)
<1>1. CASE \E i \in DOMAIN queue' : queue'[i] = o
  <2>1. queue' \in [1..Cardinality(Requeued) -> Requeued]
    BY DEF Reboot, Orders
  <2>2. o \in Requeued
    BY <1>1, <2>1
  <2> QED BY <2>2 DEF Requeued, HasRecord
<1>2. CASE job'[o].timer
  <2>1. CASE ~ \E l \in Key : ObjFor[l] = o /\ HasRecord(l)
    <3>1. job'[o] = Blank
      BY <2>1 DEF Reboot
    <3> QED BY <1>2, <3>1 DEF Blank, NewJob
  <2> QED BY <2>1
<1>3. CASE \E u \in Task : task'[u].op # "idle" /\ task'[u].obj = o
  BY <1>3, RestoredTask
<1>4. CASE \E k \in Key : active'[k] = o
  BY <1>4, PoolAssumption DEF Reboot, HasRecord
<1> QED BY <1>1, <1>2, <1>3, <1>4 DEF InUse, Queued, RunsOn

LEMMA RebootSingle ==
  ASSUME IInv, Reboot
  PROVE  Single'
<1>1. db' = db
  BY DEF Reboot
<1>2. \A o \in Obj : InUse(o)' =>
        \E l \in Key : /\ o = ObjFor[l] /\ HasRecord(l)
                       /\ job'[o].key = l /\ job'[o].state = db[l]
  BY RestoredInUse, Restored
<1>3. OneObject'
  BY <1>2 DEF OneObject
<1>4. InUseMirrored'
  BY <1>1, <1>2 DEF InUseMirrored
<1>5. DeleteIsAlone'
  <2> SUFFICES ASSUME NEW t \in Task, task'[t].op = "delete", NEW o \in Obj, task'[t].obj = o
               PROVE  /\ \A u \in Task : RunsOn(u, o)' => u = t
                      /\ ~Queued(o)' /\ ~job'[o].timer
                      /\ job'[o].state = "DELETING"
    <3>1. \A t \in Task : task'[t].op = "delete" => \E o \in Obj : o = task'[t].obj
      BY RestoredTask, RestoredApart
    <3> QED BY <3>1 DEF DeleteIsAlone, Me, Mine, RunsOn, Queued
  <2>1. PICK l \in Key : /\ HasRecord(l) /\ TaskFor[l] = t
                         /\ task'[t] = RestoredRun(l) /\ o = ObjFor[l]
    BY RestoredTask
  <2>2. db[l] = "DELETING"
    BY <2>1 DEF RestoredRun, Run, NoRun
  <2>3. job'[o].state = "DELETING" /\ ~job'[o].timer
    <3>1. /\ job'[o] = RestoredJob(l) /\ RestoredJob(l).state = db[l]
          /\ RestoredJob(l).timer = (db[l] = "RUNNING")
      BY <2>1, Restored
    <3>2. (db[l] = "RUNNING") = FALSE
      BY <2>2
    <3> QED BY <2>2, <3>1, <3>2
  <2>4. ASSUME NEW u \in Task, RunsOn(u, o)'
        PROVE  u = t
    <3>1. PICK x \in Key : TaskFor[x] = u /\ task'[u].obj = ObjFor[x]
      BY <2>4, RestoredTask DEF RunsOn
    <3>2. ObjFor[x] = ObjFor[l]
      BY <2>1, <2>4, <3>1 DEF RunsOn
    <3>3. x = l
      BY <3>2, RestoredApart
    <3> QED BY <2>1, <3>1, <3>3
  <2>5. ~Queued(o)'
    <3> SUFFICES ASSUME NEW i \in DOMAIN queue', queue'[i] = o
                 PROVE  FALSE
      BY DEF Queued
    <3>1. queue' \in [1..Cardinality(Requeued) -> Requeued]
      BY DEF Reboot, Orders
    <3>2. o \in Requeued
      BY <3>1
    <3>3. PICK x \in Key : o = ObjFor[x] /\ db[x] \in {"QUEUING", "STARTING", "PENDING"}
      BY <3>2 DEF Requeued
    <3>4. x = l
      BY <2>1, <3>3, RestoredApart
    <3> QED BY <2>2, <3>3, <3>4
  <2> QED BY <2>3, <2>4, <2>5
<1> QED BY <1>3, <1>4, <1>5 DEF Single

-----------------------------------------------------------------------------
(* The requests of patient clients. *)

\* An object that is not in use.
LEMMA SpareIsIdle ==
  ASSUME HasSpareObj
  PROVE  SpareObj \in Obj /\ ~InUse(SpareObj)
BY SpareObjIsSpare

\* A job that a patient client may have stopped, or has more done to, and that is not
\* active has no object in use.
LEMMA QuietIsIdle ==
  ASSUME SInv, NEW k \in Key, Quiet(k) \/ Launched(k), active[k] = NoObj,
         NEW o \in Obj, job[o].key = k
  PROVE  ~InUse(o)
<1>0. o # NoObj
  BY PoolAssumption
<1>1. ~Queued(o) /\ ~job[o].timer
  BY <1>0 DEF Quiet, AtRest, Launched
<1>2. \A t \in Task : ~RunsOn(t, o)
  BY <1>0 DEF Quiet, AtRest, Launched, Stoppable
<1>3. \A l \in Key : active[l] # o
  BY <1>0 DEF SInv, IInv, Guarded, ActiveIsPersisted
<1> QED BY <1>1, <1>2, <1>3 DEF InUse

\* A request that queues a new object for a quiet job.
LEMMA QueueSingle ==
  ASSUME SInv, SchedTypeOK', NEW l \in Key, HasSpareObj, Quiet(l), active[l] = NoObj,
         NEW s \in State,
         job' = [job EXCEPT ![SpareObj] = NewJob(l, s)],
         active' = [active EXCEPT ![l] = SpareObj],
         queue' = Append(queue, SpareObj),
         task' = task,
         db'[l] = s, \A k \in Key : k # l => db'[k] = db[k]
  PROVE  Single'
<1>1. PICK c \in Obj : c = SpareObj /\ ~InUse(c)
  BY SpareIsIdle
<1>2. /\ job'[c].key = l /\ job'[c].state = s
      /\ \A o \in Obj : o # c => job'[o] = job[o]
  BY <1>1 DEF SInv, IInv, TypeOK, NewJob
<1>3. \A k \in Key, o \in Obj : o # c /\ active'[k] = o => active[k] = o
  BY <1>1 DEF SInv, IInv, TypeOK
<1>4. \A o \in Obj : o # c /\ Queued(o)' => Queued(o)
  <2> SUFFICES ASSUME NEW o \in Obj, o # c, NEW i \in DOMAIN queue', queue'[i] = o
               PROVE  Queued(o)
    BY DEF Queued
  <2>1. i \in DOMAIN queue /\ queue[i] = o
    BY <1>1 DEF SInv, IInv, TypeOK
  <2> QED BY <2>1 DEF Queued
<1>5. Concerns(c) /\ Writes(c)
  BY <1>2, <1>3, <1>4 DEF Concerns, Writes, RunsOn
<1>6. \A o \in Obj : o # c /\ InUse(o) => job[o].key # job'[c].key
  BY <1>2, QuietIsIdle
<1>7. \A d \in Task : ~(task'[d].op = "delete" /\ task'[d].obj = c)
  BY <1>1 DEF InUse, RunsOn
<1> QED BY <1>2, <1>5, <1>6, <1>7, ConcernedSingle, ConcernedAlone DEF Single

\* What a request to stop or to delete a job does: the object it is for is the active
\* one, or a new one for a job that has none in use.
LEMMA CloseObject ==
  ASSUME Patient, SInv, NEW l \in Key, StopJob(l) \/ DeleteJob(l),
         NEW c \in Obj, c = Target(l), NEW t \in Task, t = SpareTask
  PROVE  /\ task[t].op = "idle" /\ HasRecord(l)
         /\ \A u \in Task : u # t => task'[u] = task[u]
         /\ UNCHANGED <<active, queue>>
         /\ \A o \in Obj : o # c => job'[o] = job[o]
         /\ job'[c].key = l
         /\ \/ active[l] = c /\ InUse(c) /\ job[c].key = l /\ Loaded(l) = job[c]
            \/ /\ active[l] = NoObj /\ ~InUse(c) /\ Loaded(l) = NewJob(l, db[l])
               /\ \A o \in Obj : InUse(o) => job[o].key # l
         /\ Loaded(l).state = db[l] /\ Loaded(l) \in JobRecord
         /\ \/ /\ StopJob(l) /\ job'[c].state = "STOPPING" /\ db' = Record(l, "STOPPING")
               /\ task'[t] = Run("stop", c, IF Loaded(l).state \in Launching
                                             THEN "await" ELSE "stat")
               /\ Loaded(l).state \in Launching => ~job'[c].released
               /\ job'[c].timer = Loaded(l).timer /\ job'[c].first = Loaded(l).first
            \/ /\ DeleteJob(l) /\ job'[c].state = "DELETING" /\ db' = Record(l, "DELETING")
               /\ task'[t] = Run("delete", c, "del")
               /\ ~job'[c].timer /\ job'[c].first = Loaded(l).first
<1>1. TypeOK
  BY DEF SInv, IInv
<1>2. HasRecord(l) /\ HasTarget(l) /\ HasSpareTask
  BY DEF StopJob, DeleteJob
<1>3. task[t].op = "idle"
  BY <1>2, SpareTaskIsIdle
<1>4. UNCHANGED <<active, queue>> /\ \A u \in Task : u # t => task'[u] = task[u]
  BY <1>1 DEF StopJob, DeleteJob, TypeOK
<1>5. \/ active[l] = c /\ InUse(c) /\ job[c].key = l /\ Loaded(l) = job[c]
      \/ /\ active[l] = NoObj /\ ~InUse(c) /\ Loaded(l) = NewJob(l, db[l])
         /\ \A o \in Obj : InUse(o) => job[o].key # l
  <2>1. CASE active[l] # NoObj
    BY <2>1 DEF Target, Loaded, InUse, SInv, IInv, Guarded, ActiveIsPersisted
  <2>2. CASE active[l] = NoObj
    <3>1. ~InUse(c)
      BY <1>2, <2>2, SpareIsIdle DEF HasTarget, Target
    <3>2. Quiet(l) \/ Launched(l)
      BY DEF StopJob, DeleteJob, MayIssue, MayStop
    <3> QED BY <2>2, <3>1, <3>2, QuietIsIdle DEF Loaded
  <2> QED BY <2>1, <2>2
<1>6. Loaded(l).state = db[l] /\ Loaded(l) \in JobRecord /\ Loaded(l).key = l
  <2>1. CASE Loaded(l) = job[c] /\ InUse(c) /\ job[c].key = l
    BY <1>1, <2>1, InUseRecorded DEF TypeOK
  <2>2. CASE Loaded(l) = NewJob(l, db[l])
    <3>1. db[l] \in State
      BY <1>1, <1>2 DEF HasRecord, TypeOK, Recordable
    <3> QED BY <2>2, <3>1, NewJobType DEF NewJob
  <2> QED BY <1>5, <2>1, <2>2
<1>7. CASE StopJob(l)
  <2> DEFINE launching == Loaded(l).state \in Launching
             released == IF launching THEN FALSE ELSE Loaded(l).released
  <2>1. job' = [job EXCEPT ![c] = [Loaded(l) EXCEPT !.state = "STOPPING", !.closing = TRUE,
                                                    !.released = released]]
    BY <1>7 DEF StopJob
  <2>2. launching => released = FALSE
    OBVIOUS
  <2>3. task' = [task EXCEPT ![t] = Run("stop", c, IF launching THEN "await" ELSE "stat")]
    BY <1>7 DEF StopJob
  <2> HIDE DEF released, launching
  <2>4. /\ job'[c].key = l /\ job'[c].state = "STOPPING" /\ job'[c].released = released
        /\ job'[c].timer = Loaded(l).timer /\ job'[c].first = Loaded(l).first
        /\ \A o \in Obj : o # c => job'[o] = job[o]
    BY <1>1, <1>6, <2>1 DEF TypeOK, JobRecord
  <2>5. task'[t] = Run("stop", c, IF launching THEN "await" ELSE "stat")
    BY <1>1, <2>3 DEF TypeOK
  <2>6. db' = Record(l, "STOPPING")
    BY <1>7 DEF StopJob
  <2>7. launching => ~job'[c].released
    BY <2>2, <2>4
  <2> USE DEF launching
  <2> QED BY <1>2, <1>3, <1>4, <1>5, <1>6, <1>7, <2>4, <2>5, <2>6, <2>7
<1>8. CASE DeleteJob(l)
  <2>1. /\ job'[c].key = l /\ job'[c].state = "DELETING" /\ ~job'[c].timer
        /\ job'[c].first = Loaded(l).first
        /\ \A o \in Obj : o # c => job'[o] = job[o]
    BY <1>1, <1>6, <1>8 DEF DeleteJob, TypeOK, JobRecord
  <2>2. task'[t] = Run("delete", c, "del") /\ db' = Record(l, "DELETING")
    BY <1>1, <1>8 DEF DeleteJob, TypeOK
  <2> QED BY <1>2, <1>3, <1>4, <1>5, <1>6, <1>8, <2>1, <2>2
<1> QED BY <1>7, <1>8

\* The object and the coroutine of a request to stop or to delete.
LEMMA CloseChoice ==
  ASSUME TypeOK, NEW l \in Key, StopJob(l) \/ DeleteJob(l)
  PROVE  Target(l) \in Obj /\ SpareTask \in Task
<1>1. HasTarget(l) /\ HasSpareTask
  BY DEF StopJob, DeleteJob
<1> QED BY <1>1, SpareIsApart, SpareTaskIsIdle DEF HasTarget, Target, TypeOK

LEMMA CloseSingle ==
  ASSUME Patient, SInv, NEW l \in Key, StopJob(l) \/ DeleteJob(l)
  PROVE  Single'
<1>1. SchedTypeOK' /\ TypeOK
  BY RequestTypes DEF SInv, IInv, Request
<1>2. PICK c \in Obj : c = Target(l)
  BY <1>1, CloseChoice
<1>3. PICK t \in Task : t = SpareTask
  BY <1>1, CloseChoice
<1>4. /\ task[t].op = "idle" /\ HasRecord(l)
      /\ \A u \in Task : u # t => task'[u] = task[u]
      /\ UNCHANGED <<active, queue>>
      /\ \A o \in Obj : o # c => job'[o] = job[o]
      /\ job'[c].key = l
      /\ \/ active[l] = c /\ InUse(c) /\ job[c].key = l
         \/ ~InUse(c) /\ \A o \in Obj : InUse(o) => job[o].key # l
  BY <1>2, <1>3, CloseObject
<1>5. \/ StopJob(l) /\ job'[c].state = "STOPPING" /\ db' = Record(l, "STOPPING")
         /\ task'[t].op = "stop" /\ task'[t].obj = c
      \/ /\ DeleteJob(l) /\ job'[c].state = "DELETING" /\ db' = Record(l, "DELETING")
         /\ task'[t].op = "delete" /\ task'[t].obj = c
         /\ ~job'[c].timer
  <2>1. /\ Run("stop", c, "await").op = "stop" /\ Run("stop", c, "await").obj = c
        /\ Run("stop", c, "stat").op = "stop" /\ Run("stop", c, "stat").obj = c
        /\ Run("delete", c, "del").op = "delete" /\ Run("delete", c, "del").obj = c
    BY DEF Run
  <2> QED BY <1>2, <1>3, <2>1, CloseObject
<1>6. Concerns(c)
  BY <1>4, <1>5 DEF Concerns, Queued, RunsOn
<1>7. Writes(c) /\ db'[job'[c].key] = job'[c].state
  BY <1>4, <1>5, RecordWrites DEF Writes, State
<1>8. \A o \in Obj : o # c /\ InUse(o) => job[o].key # job'[c].key
  BY <1>4 DEF SInv, Single, OneObject
<1>9. ASSUME NEW d \in Task, task'[d].op = "delete", task'[d].obj = c
      PROVE  /\ \A u \in Task : RunsOn(u, c)' => u = d
             /\ ~Queued(c)' /\ ~job'[c].timer
             /\ job'[c].state = "DELETING"
  <2>1. ASSUME NEW u \in Task, RunsOn(u, c), Quiet(l) \/ Launched(l)
        PROVE  task[u].op = "start" /\ ~Quiet(l)
    BY <1>4, <2>1 DEF InUse, Quiet, AtRest, Launched, Stoppable
  <2>2. Quiet(l) \/ Launched(l)
    BY DEF StopJob, DeleteJob, MayIssue, MayStop
  <2>3. d = t
    BY <1>4, <1>9, <2>1, <2>2 DEF RunsOn
  <2>4. DeleteJob(l) /\ job'[c].state = "DELETING" /\ ~job'[c].timer
    BY <1>5, <1>9, <2>3
  <2>5. Quiet(l)
    BY <2>4 DEF DeleteJob, MayIssue
  <2>6. \A u \in Task : RunsOn(u, c)' => u = d
    BY <1>4, <2>1, <2>3, <2>5 DEF RunsOn
  <2>7. ~Queued(c)'
    BY <1>4, <2>5 DEF Quiet, AtRest, Queued, InUse
  <2> QED BY <2>4, <2>6, <2>7
<1> QED BY <1>1, <1>6, <1>7, <1>8, <1>9, ConcernedSingle, ConcernedAlone DEF Single

LEMMA RequestSingle ==
  ASSUME Patient, SInv, NEW l \in Key, Request(l)
  PROVE  Single'
<1>1. SchedTypeOK' /\ TypeOK
  BY RequestTypes DEF SInv, IInv
<1>2. CASE CreateJob(l)
  <2>1. active[l] = NoObj
    BY <1>2 DEF CreateJob, SInv, IInv, Guarded, ActiveIsPersisted
  <2>2. HasSpareObj /\ Quiet(l)
    BY <1>2 DEF CreateJob, MayIssue
  <2>3. /\ job' = [job EXCEPT ![SpareObj] = NewJob(l, "QUEUING")]
        /\ active' = [active EXCEPT ![l] = SpareObj]
        /\ queue' = Append(queue, SpareObj) /\ task' = task
    BY <1>2 DEF CreateJob
  <2>4. db'[l] = "QUEUING" /\ \A k \in Key : k # l => db'[k] = db[k]
    BY <1>1, <1>2 DEF CreateJob, TypeOK
  <2> QED BY <1>1, <2>1, <2>2, <2>3, <2>4, QueueSingle DEF State
<1>3. CASE StartJob(l) /\ active[l] # NoObj
  <2>1. PICK c \in Obj : c = active[l]
    BY <1>1, <1>3 DEF TypeOK
  <2>2. PICK t \in Task : t = SpareTask /\ task[t].op = "idle"
    BY <1>3, SpareTaskIsIdle DEF StartJob
  <2>3. Begin(c, t) /\ queue' = queue
    BY <1>3, <2>1, <2>2 DEF StartJob
  <2>4. job[c].state # "DELETING"
    BY <1>3, <2>1 DEF StartJob, Supported
  <2> QED BY <1>1, <2>1, <2>2, <2>3, <2>4, BeginSingle, NotDeleted DEF Queued, InUse
<1>4. CASE StartJob(l) /\ active[l] = NoObj
  <2>1. HasSpareObj /\ Quiet(l)
    BY <1>4 DEF StartJob, MayIssue
  <2>2. /\ job' = [job EXCEPT ![SpareObj] = NewJob(l, db[l])]
        /\ active' = [active EXCEPT ![l] = SpareObj]
        /\ queue' = Append(queue, SpareObj) /\ task' = task /\ db' = db
    BY <1>4 DEF StartJob
  <2>3. db[l] \in State
    BY <1>1, <1>4 DEF StartJob, HasRecord, TypeOK, Recordable
  <2> QED BY <1>1, <1>4, <2>1, <2>2, <2>3, QueueSingle
<1>5. CASE StopJob(l) \/ DeleteJob(l)
  BY <1>5, CloseSingle
<1> QED BY <1>2, <1>3, <1>4, <1>5 DEF Request

LEMMA SingleNext ==
  ASSUME Patient, SInv, [Next]_vars
  PROVE  SInv'
<1>0. IInv'
  BY GuardedNext DEF SInv
<1>1. ASSUME UNCHANGED schedVars
      PROVE  Single'
  BY <1>1 DEF schedVars, SInv, Single, OneObject, InUseMirrored, DeleteIsAlone, InUse, Queued,
              RunsOn, Me, Mine
<1>2. CASE UNCHANGED vars
  BY <1>0, <1>1, <1>2 DEF vars, SInv
<1>3. ASSUME NEW k \in Key, Cloud(k)
      PROVE  Single'
  <2>1. UNCHANGED schedVars
    BY <1>3 DEF Cloud, CoordinatorRuns, CoordinatorCrashes, CoordinatorReports,
                CoordinatorEnds, PodRemoved, HeartbeatLost
  <2> QED BY <1>1, <2>1
<1>4. ASSUME NEW t \in Task, Proceeds(t) \/ Suffers(t)
      PROVE  Single'
  BY <1>4, CoroutineSingle, RebootSingle DEF SInv
<1>5. CASE Next
  BY <1>0, <1>3, <1>4, <1>5, TakeJobSingle, HeartbeatSingle, RequestSingle, LossSingle,
     RebootSingle DEF Next, Restart, SInv
<1> QED BY <1>2, <1>5

\* A job of patient clients has one object in use, which its record mirrors.
THEOREM OneInUse ==
  ASSUME Patient
  PROVE  Spec => []SInv
<1>1. Init => Single
  BY PoolAssumption DEF Init, Single, OneObject, InUseMirrored, DeleteIsAlone, InUse, Queued, RunsOn,
                        NoRun, Blank, NewJob
<1>2. SInv /\ [Next]_vars => SInv'
  BY SingleNext
<1> QED BY <1>1, <1>2, Guard, PTL DEF Spec, SInv

\* Patient clients read of an active job what the scheduler goes by, whatever
\* fails and however often the scheduler restarts (job.py sets the state of the
\* object, and Scheduler.__update_to_db writes the record after it).
THEOREM RecordsMirror ==
  ASSUME Patient
  PROVE  Spec => []RecordMirrorsJob
<1>1. SInv => RecordMirrorsJob
  <2> SUFFICES ASSUME SInv, NEW k \in Key, active[k] # NoObj
               PROVE  db[k] = job[active[k]].state
    BY DEF RecordMirrorsJob
  <2>1. active[k] \in Obj /\ job[active[k]].key = k
    BY DEF SInv, IInv, TypeOK, Guarded, ActiveIsPersisted
  <2>2. InUse(active[k])
    BY DEF InUse
  <2> QED BY <2>1, <2>2 DEF SInv, Single, InUseMirrored
<1> QED BY <1>1, OneInUse, PTL

-----------------------------------------------------------------------------
(* What one step may do to the coroutines, to the pods and to the records.   *)

\* The steps that are neither a coroutine's nor a restart.
Else ==
  \/ TakeJob
  \/ \E k \in Key : Heartbeat(k) \/ Request(k) \/ Cloud(k)
  \/ \E o \in Obj : LossHeartbeat(o)

\* Those of the coroutines, unless they restart the process.
Work == \E t \in Task : Proceeds(t) \/ Suffers(t)

LEMMA WorkSteady ==
  ASSUME SInv, NEW t \in Task, Proceeds(t) \/ Suffers(t)
  PROVE  /\ task[t].op # "idle" /\ Steady(t)
         /\ Me(t) \in Obj /\ InUse(Me(t))
         /\ HasRecord(Mine(t).key) /\ db[Mine(t).key] = Mine(t).state
<1>1. task[t].op # "idle"
  BY DEF At, Proceeds, ReadPhase, StartStep, DeletionStep, StopStep, EndStep, Suffers,
         ClientsEnough, CheckAgain, RouteAdded, PodCreated, PodPolled, PollAgain,
         PodDeleted, PodGone, StartReleased, StopPolled, StopSent, StopWaited,
         StopEnds, DeleteEnds, ClientsScarce, ClientsUnknown, RetrySkipped,
         CreateRaises, StopGivesUp, StopAborts
<1>2. Me(t) \in Obj /\ InUse(Me(t))
  BY <1>1, TaskMoves DEF InUse, RunsOn, Me, SInv, IInv
<1>3. HasRecord(Mine(t).key) /\ db[Mine(t).key] = Mine(t).state
  BY <1>2, InUseRecorded DEF Mine
<1> QED BY <1>1, <1>2, <1>3, CoroutineSteady DEF SInv, IInv

LEMMA NextCases ==
  ASSUME [Next]_vars
  PROVE  UNCHANGED vars \/ Else \/ Work \/ (Restart /\ Reboot)
BY DEF Next, Else, Work, Restart

LEMMA CloudSteps ==
  ASSUME NEW k \in Key, Cloud(k)
  PROVE  UNCHANGED schedVars
BY DEF Cloud, CoordinatorRuns, CoordinatorCrashes, CoordinatorReports,
       CoordinatorEnds, PodRemoved, HeartbeatLost

\* New coroutines are started at their first yield; the others are not touched.
FirstPcs == [start |-> {"check"}, stop |-> {"await", "stat"}, delete |-> {"del"},
             heartbeat |-> {"del"}]

LEMMA NewRuns ==
  ASSUME Patient, SInv, Else
  PROVE  \A u \in Task :
           \/ task'[u] = task[u]
           \/ /\ task[u].op = "idle" /\ task'[u].seen = "UNREAD"
              /\ task'[u].op \in Op /\ task'[u].pc \in FirstPcs[task'[u].op]
<1> SUFFICES ASSUME NEW u \in Task, task'[u] # task[u]
             PROVE  /\ task[u].op = "idle" /\ task'[u].seen = "UNREAD"
                    /\ task'[u].op \in Op /\ task'[u].pc \in FirstPcs[task'[u].op]
  OBVIOUS
<1>0. TypeOK
  BY DEF SInv, IInv
<1>f. /\ FirstPcs["start"] = {"check"} /\ FirstPcs["stop"] = {"await", "stat"}
      /\ FirstPcs["delete"] = {"del"} /\ FirstPcs["heartbeat"] = {"del"}
  BY DEF FirstPcs
<1>r. ASSUME NEW op \in Op, NEW c, NEW pc \in FirstPcs[op], task'[u] = Run(op, c, pc)
      PROVE  /\ task'[u].seen = "UNREAD"
             /\ task'[u].op \in Op /\ task'[u].pc \in FirstPcs[task'[u].op]
  BY <1>r DEF Run
<1>b. ASSUME NEW c \in Obj, HasSpareTask, Begin(c, SpareTask)
      PROVE  task[u].op = "idle" /\ task'[u] = Run("start", c, "check")
  BY <1>0, <1>b, SpareTaskIsIdle DEF Begin, TypeOK
<1>1. CASE TakeJob
  <2>1. PICK c \in Obj : c = Head(queue)
    BY <1>0, <1>1 DEF TakeJob, TypeOK
  <2>2. HasSpareTask /\ Begin(c, SpareTask)
    BY <1>1, <2>1 DEF TakeJob
  <2>3. task[u].op = "idle" /\ task'[u] = Run("start", c, "check")
    BY <1>b, <2>2
  <2> QED BY <1>f, <2>3, <1>r DEF Op
<1>2. ASSUME NEW k \in Key, Heartbeat(k)
      PROVE  task[u].op = "idle" /\ \E c : task'[u] = Run("heartbeat", c, "del")
  BY <1>0, <1>2, SpareTaskIsIdle DEF Heartbeat, TypeOK
<1>3. ASSUME NEW k \in Key, CreateJob(k) \/ StartJob(k)
      PROVE  task[u].op = "idle" /\ \E c : task'[u] = Run("start", c, "check")
  <2>1. active[k] # NoObj /\ HasSpareTask /\ Begin(active[k], SpareTask)
    BY <1>3 DEF CreateJob, StartJob
  <2>2. active[k] \in Obj
    BY <1>0, <2>1 DEF TypeOK
  <2> QED BY <1>b, <2>1, <2>2
<1>4. ASSUME NEW k \in Key, StopJob(k) \/ DeleteJob(k)
      PROVE  /\ task[u].op = "idle"
             /\ \E c : task'[u] \in {Run("stop", c, "await"), Run("stop", c, "stat"),
                                     Run("delete", c, "del")}
  <2>1. Target(k) \in Obj /\ SpareTask \in Task
    BY <1>0, <1>4, CloseChoice
  <2> QED BY <1>4, <2>1, CloseObject
<1>5. \A k \in Key : ~Cloud(k)
  BY CloudSteps DEF schedVars
<1>6. \A c \in Obj : ~LossHeartbeat(c)
  BY DEF LossHeartbeat
<1>7. CASE \E k \in Key : Heartbeat(k)
  <2>1. task[u].op = "idle" /\ \E c : task'[u] = Run("heartbeat", c, "del")
    BY <1>2, <1>7
  <2> QED BY <1>f, <2>1, <1>r DEF Op
<1>8. CASE \E k \in Key : Request(k)
  <2>1. /\ task[u].op = "idle"
        /\ \E c : task'[u] \in {Run("start", c, "check"), Run("stop", c, "await"),
                                Run("stop", c, "stat"), Run("delete", c, "del")}
    BY <1>3, <1>4, <1>8 DEF Request
  <2> QED BY <1>f, <2>1, <1>r DEF Op
<1> QED BY <1>1, <1>5, <1>6, <1>7, <1>8 DEF Else

\* An object in use stays that of its job.
LEMMA InUseKeeps ==
  ASSUME Patient, SInv, Else \/ Work, NEW o \in Obj, InUse(o)
  PROVE  job'[o].key = job[o].key
<1>0. TypeOK
  BY DEF SInv, IInv
<1>b. ASSUME NEW c \in Obj, NEW t, Begin(c, t)
      PROVE  job'[o].key = job[o].key
  BY <1>0, <1>b DEF Begin, TypeOK, JobRecord
<1>1. CASE TakeJob
  <2>1. PICK c \in Obj : c = Head(queue)
    BY <1>0, <1>1 DEF TakeJob, TypeOK
  <2> QED BY <1>b, <1>1, <2>1 DEF TakeJob
<1>2. ASSUME NEW k \in Key, Heartbeat(k)
      PROVE  job'[o].key = job[o].key
  <2>1. CASE ~ UNCHANGED <<db, job, task>>
    <3>1. PICK c \in Obj : c = active[k]
      BY <1>0, <1>2, <2>1 DEF Heartbeat, TypeOK
    <3> QED BY <1>2, <2>1, <3>1, HeartbeatObject
  <2> QED BY <2>1
<1>3. ASSUME NEW k \in Key, CreateJob(k) \/ StartJob(k)
      PROVE  job'[o].key = job[o].key
  <2>1. CASE HasSpareObj /\ \E r : job' = [job EXCEPT ![SpareObj] = r]
    <3>1. SpareObj # o
      BY <2>1, SpareIsIdle
    <3> QED BY <1>0, <2>1, <3>1 DEF TypeOK
  <2>2. CASE active[k] # NoObj /\ Begin(active[k], SpareTask)
    BY <1>0, <1>b, <2>2 DEF TypeOK
  <2> QED BY <1>3, <2>1, <2>2 DEF CreateJob, StartJob
<1>4. ASSUME NEW k \in Key, StopJob(k) \/ DeleteJob(k)
      PROVE  job'[o].key = job[o].key
  <2>1. Target(k) \in Obj /\ SpareTask \in Task
    BY <1>0, <1>4, CloseChoice
  <2> QED BY <1>4, <2>1, CloseObject
<1>5. ASSUME NEW k \in Key, Cloud(k)
      PROVE  job'[o].key = job[o].key
  BY <1>5, CloudSteps DEF schedVars
<1>6. ASSUME NEW c \in Obj, LossHeartbeat(c)
      PROVE  job'[o].key = job[o].key
  BY <1>0, <1>6 DEF LossHeartbeat, TypeOK, JobRecord
<1>7. ASSUME NEW t \in Task, Proceeds(t) \/ Suffers(t)
      PROVE  job'[o].key = job[o].key
  BY <1>7, WorkSteady DEF Steady, Mine
<1> QED BY <1>1, <1>2, <1>3, <1>4, <1>5, <1>6, <1>7 DEF Else, Work, Request

\* Only a start() creates a pod; a coordinator that ended runs no more.
Dead(k) == coord[k] \in {"NONE", "EXITED", "CRASHED"}
Creates(t, k) == PodCreated(t) /\ task[t].op = "start" /\ task[t].pc = "create" /\ Mine(t).key = k

LEMMA CloudPods ==
  ASSUME TypeOK, NEW l \in Key, Cloud(l), NEW k \in Key
  PROVE  (coord[k] = "NONE" => coord'[k] = "NONE") /\ (Dead(k) => Dead(k)')
BY DEF Cloud, CoordinatorRuns, CoordinatorCrashes, CoordinatorReports,
       CoordinatorEnds, PodRemoved, HeartbeatLost, Dead, TypeOK

LEMMA PodSteps ==
  ASSUME TypeOK, [Next]_vars, NEW k \in Key, \A t \in Task : ~Creates(t, k)
  PROVE  /\ coord[k] = "NONE" => coord'[k] = "NONE"
         /\ Dead(k) => Dead(k)'
<1>1. ASSUME UNCHANGED coord
      PROVE  coord'[k] = coord[k]
  BY <1>1
<1>2. CASE UNCHANGED vars \/ TakeJob \/ (\E l \in Key : Heartbeat(l) \/ Request(l))
           \/ (\E o \in Obj : LossHeartbeat(o)) \/ Restart
  BY <1>1, <1>2 DEF vars, cloudVars, TakeJob, Heartbeat, Request, CreateJob, StartJob, StopJob,
                    DeleteJob, LossHeartbeat, Restart, Dead
<1>3. ASSUME NEW l \in Key, Cloud(l)
      PROVE  (coord[k] = "NONE" => coord'[k] = "NONE") /\ (Dead(k) => Dead(k)')
  BY <1>3, CloudPods
<1>4. ASSUME NEW t \in Task, Proceeds(t) \/ Suffers(t)
      PROVE  (coord[k] = "NONE" => coord'[k] = "NONE") /\ (Dead(k) => Dead(k)')
  <2>1. CASE PodCreated(t)
    <3>1. Mine(t).key # k
      BY <1>4, <2>1 DEF PodCreated, At, Creates
    <3> QED BY <2>1, <3>1 DEF PodCreated, TypeOK, Dead
  <2>2. CASE StopSent(t)
    BY <2>2 DEF StopSent, TypeOK, Dead
  <2>3. CASE ~PodCreated(t) /\ ~StopSent(t)
    <3>1. UNCHANGED coord
      BY <1>4, <2>3
         DEF Proceeds, ReadPhase, StartStep, DeletionStep, StopStep, EndStep, Suffers,
             ClientsEnough, CheckAgain, RouteAdded, PodPolled, PollAgain,
             PodDeleted, PodGone, StartReleased, StopPolled, StopWaited,
             StopEnds, DeleteEnds, ClientsScarce, ClientsUnknown, RetrySkipped,
             CreateRaises, StopGivesUp, StopAborts, cloudVars
    <3> QED BY <3>1 DEF Dead
  <2> QED BY <2>1, <2>2, <2>3
<1> QED BY <1>2, <1>3, <1>4 DEF Next

\* Only the end of a delete() removes a record.
LEMMA LosesRecord ==
  ASSUME SInv, [Next]_vars, NEW k \in Key, HasRecord(k), ~HasRecord(k)'
  PROVE  \E t \in Task : DeleteEnds(t) /\ Mine(t).key = k
<1>0. TypeOK
  BY DEF SInv, IInv
<1>1. db' # db /\ \A l \in Key, s \in State : db' # Record(l, s)
  BY <1>0, RecordKeeps DEF HasRecord
<1>2. \A c \in Obj : \A t : ~Begin(c, t)
  BY <1>0, <1>1 DEF Begin, State, TypeOK, JobRecord
<1>3. ~UNCHANGED vars /\ ~Restart /\ ~Reboot
  BY <1>1 DEF vars, schedVars, Restart, Reboot
<1>4. ~TakeJob
  <2>1. TakeJob => Head(queue) \in Obj
    BY <1>0 DEF TakeJob, TypeOK
  <2> QED BY <1>1, <1>2, <2>1 DEF TakeJob
<1>5. \A l \in Key : ~Heartbeat(l)
  BY <1>0, <1>1 DEF Heartbeat, TypeOK, Report, State
<1>6. \A l \in Key : ~Request(l)
  <2>1. \A l \in Key : ~CreateJob(l)
    BY <1>0 DEF CreateJob, HasRecord, TypeOK
  <2>2. \A l \in Key : ~StartJob(l)
    BY <1>0, <1>1, <1>2 DEF StartJob, TypeOK
  <2>3. \A l \in Key : ~StopJob(l) /\ ~DeleteJob(l)
    BY <1>1 DEF StopJob, DeleteJob, State
  <2> QED BY <2>1, <2>2, <2>3 DEF Request
<1>7. \A l \in Key : ~Cloud(l)
  BY <1>1, CloudSteps DEF schedVars
<1>8. \A o \in Obj : ~LossHeartbeat(o)
  BY <1>0, <1>1 DEF LossHeartbeat, TypeOK, JobRecord, State
<1>9. PICK t \in Task : Proceeds(t) \/ Suffers(t)
  BY <1>3, <1>4, <1>5, <1>6, <1>7, <1>8 DEF Next
<1>10. DeleteEnds(t)
  <2>1. SchedTypeOK' /\ task[t].op # "idle"
    BY <1>0, <1>3, <1>9, CoroutineSteady, CoroutineTypes
  <2>2. Me(t) \in Obj /\ Mine(t).key \in Key /\ job'[Me(t)].state \in State
    BY <1>0, <2>1, TaskMoves DEF SchedTypeOK, JobRecord
  <2> QED BY <1>0, <1>1, <1>3, <1>9, <2>2, CoroutineWrites DEF WritesState, Mine
<1>11. Mine(t).key = k
  BY <1>0, <1>10 DEF DeleteEnds, HasRecord, TypeOK
<1> QED BY <1>10, <1>11

\* How a coroutine gets to know that its pod is gone.
LEMMA GoneSteps ==
  ASSUME SInv, NEW t \in Task, Proceeds(t) \/ Suffers(t)
  PROVE  \/ task'[t] = NoRun
         \/ /\ task'[t].pc = "unroute" =>
                 /\ task[t].op \in {"stop", "delete"}
                 /\ \/ task[t].pc = "del" /\ coord[Mine(t).key] = "NONE"
                    \/ task[t].pc = "gone" /\ task[t].seen = "NONE"
            /\ task'[t].seen # "UNREAD" =>
                 task'[t].pc = task[t].pc /\ task'[t].seen = Phase(Mine(t).key)
<1> USE DEF At
<1>0. task[t].op # "idle" /\ TypeOK
  BY WorkSteady DEF SInv, IInv
<1>u. task \in [Task -> TaskRecord] /\ task[t] \in [op : Op, obj : Obj, pc : Pc, seen : Seen]
  BY <1>0 DEF TypeOK, TaskRecord, NoRun
<1>g. \A pc : task' = Goto(t, pc) => task'[t].pc = pc /\ task'[t].seen = "UNREAD"
  BY <1>u DEF Goto
<1>p. \A pc : Moves(t, pc) => task'[t].pc = pc /\ task'[t].seen = "UNREAD"
  BY <1>g DEF Moves
<1>e. Ends(t) => task'[t] = NoRun
  BY <1>u DEF Ends, Ended
<1>c. \A s : CreatePc(s) # "unroute"
  BY DEF CreatePc
<1>f. StartFails(t) => task'[t] = NoRun
  BY <1>e, WorkSteady DEF StartFails
<1>d. StopPodDone(t) => task'[t].pc = "del" /\ task'[t].seen = "UNREAD"
  BY <1>g DEF StopPodDone
<1>a. AfterDeleted(t) => \/ task'[t] = NoRun
                         \/ /\ task'[t].seen = "UNREAD"
                            /\ task'[t].pc = "unroute" => task[t].op \in {"stop", "delete"}
  BY <1>e, <1>p, <1>c DEF AfterDeleted
<1>1. CASE ReadPhase(t)
  <2>1. task'[t].pc = task[t].pc /\ task'[t].seen = Phase(Mine(t).key)
    BY <1>1, <1>u DEF ReadPhase
  <2>2. task[t].pc # "unroute"
    BY <1>1 DEF ReadPhase, Polling
  <2> QED BY <2>1, <2>2
<1>2. CASE ClientsEnough(t) \/ ClientsScarce(t)
  BY <1>2, <1>g, <1>p DEF ClientsEnough, ClientsScarce, LeavesPending
<1>3. CASE CheckAgain(t)
  BY <1>3, <1>g, <1>p DEF CheckAgain
<1>4. CASE RouteAdded(t) \/ RetrySkipped(t) \/ PodCreated(t) \/ ClientsUnknown(t)
  BY <1>4, <1>p, <1>c DEF RouteAdded, RetrySkipped, PodCreated, ClientsUnknown
<1>5. CASE PodPolled(t) \/ PollAgain(t)
  BY <1>5, <1>p, <1>e, <1>f DEF PodPolled, PollAgain, Releases, BecomesRunning
<1>6. CASE PodDeleted(t)
  BY <1>6, <1>p, <1>a DEF PodDeleted
<1>7. CASE PodGone(t)
  BY <1>7, <1>p, <1>a DEF PodGone
<1>8. CASE StartReleased(t) \/ StopPolled(t) \/ StopSent(t) \/ StopWaited(t) \/ StopGivesUp(t)
  BY <1>8, <1>p, <1>d DEF StartReleased, StopPolled, StopSent, StopWaited, StopGivesUp
<1>9. CASE StopEnds(t) \/ DeleteEnds(t) \/ StopAborts(t)
  BY <1>9, <1>e DEF StopEnds, DeleteEnds, StopAborts
<1>10. CASE CreateRaises(t)
  BY <1>10, <1>f DEF CreateRaises
<1> QED
  BY <1>1, <1>2, <1>3, <1>4, <1>5, <1>6, <1>7, <1>8, <1>9, <1>10
     DEF Proceeds, StartStep, DeletionStep, StopStep, EndStep, Suffers

-----------------------------------------------------------------------------
(* The pod of a deleted job. A delete() removes the record after it saw the  *)
(* pod gone. Nothing may create a pod in between: that would be a start() of *)
(* the job, and a delete() works alone.                                      *)

DeletedIsGone == \A k \in Key : ~HasRecord(k) => coord[k] = "NONE"

\* A delete() has learned that there is no pod.
Undone(t) == task[t].pc = "unroute" \/ (task[t].pc = "gone" /\ task[t].seen = "NONE")

DeleteUndone ==
  \A t \in Task : task[t].op = "delete" /\ Undone(t) => coord[Mine(t).key] = "NONE"

GInv == SInv /\ DeletedIsGone /\ DeleteUndone

\* Whoever creates a pod works on a job that has a record and is not being deleted.
LEMMA CreatesAlone ==
  ASSUME SInv, NEW u \in Task, NEW k \in Key, Creates(u, k)
  PROVE  HasRecord(k) /\ \A t \in Task : task[t].op = "delete" => Mine(t).key # k
<1>1. PICK m \in Obj : m = Me(u) /\ InUse(m) /\ job[m].key = k
  BY TaskMoves DEF Creates, InUse, RunsOn, Me, Mine, SInv, IInv
<1>2. HasRecord(k)
  BY <1>1, InUseRecorded
<1>3. ASSUME NEW t \in Task, task[t].op = "delete", Mine(t).key = k
      PROVE  FALSE
  <2>1. Me(t) \in Obj /\ InUse(Me(t))
    BY <1>3, TaskMoves DEF InUse, RunsOn, Me, SInv, IInv
  <2>2. Me(t) = m
    BY <1>1, <1>3, <2>1 DEF SInv, Single, OneObject, Mine
  <2>3. u = t
    BY <1>1, <1>3, <2>2 DEF SInv, Single, DeleteIsAlone, RunsOn, Me, Creates
  <2> QED BY <1>3, <2>3 DEF Creates
<1> QED BY <1>2, <1>3

LEMMA DeletedGoneNext ==
  ASSUME GInv, [Next]_vars
  PROVE  DeletedIsGone'
<1> SUFFICES ASSUME NEW k \in Key, ~HasRecord(k)'
             PROVE  coord'[k] = "NONE"
  BY DEF DeletedIsGone
<1>1. CASE HasRecord(k)
  <2>1. PICK t \in Task : DeleteEnds(t) /\ Mine(t).key = k
    BY <1>1, LosesRecord DEF GInv
  <2>2. coord[k] = "NONE"
    BY <2>1 DEF GInv, DeleteUndone, Undone, DeleteEnds, At
  <2> QED BY <2>1, <2>2 DEF DeleteEnds
<1>2. CASE ~HasRecord(k)
  <2>1. \A u \in Task : ~Creates(u, k)
    BY <1>2, CreatesAlone DEF GInv
  <2> QED BY <1>2, <2>1, PodSteps DEF GInv, SInv, IInv, DeletedIsGone
<1> QED BY <1>1, <1>2

\* The pod that a delete() saw gone stays away as long as the delete() is at work.
LEMMA UndoneStays ==
  ASSUME GInv, [Next]_vars, NEW t \in Task, task[t].op = "delete", Undone(t),
         Mine(t)'.key = Mine(t).key
  PROVE  coord'[Mine(t)'.key] = "NONE"
<1>1. PICK k \in Key : k = Mine(t).key
  BY TaskMoves DEF GInv, SInv, IInv, JobRecord
<1>2. coord[k] = "NONE"
  BY <1>1 DEF GInv, DeleteUndone
<1>3. \A u \in Task : ~Creates(u, k)
  BY <1>1, CreatesAlone DEF GInv
<1> QED BY <1>1, <1>2, <1>3, PodSteps DEF GInv, SInv, IInv

LEMMA DeleteUndoneNext ==
  ASSUME Patient, GInv, [Next]_vars
  PROVE  DeleteUndone'
<1> SUFFICES ASSUME NEW t \in Task, task'[t].op = "delete", Undone(t)'
             PROVE  coord'[Mine(t)'.key] = "NONE"
  BY DEF DeleteUndone
<1>0. SInv /\ TypeOK
  BY DEF GInv, SInv, IInv
<1>a. ASSUME task[t].op # "idle"
      PROVE  Me(t) \in Obj /\ InUse(Me(t))
  BY <1>0, <1>a, TaskMoves DEF InUse, RunsOn, Me
<1>1. CASE UNCHANGED vars
  BY <1>1, UndoneStays DEF vars, schedVars, Undone, Mine, Me
<1>2. CASE Else
  <2>1. task'[t] = task[t]
    BY <1>0, <1>2, NewRuns DEF Undone, FirstPcs
  <2>2. Mine(t)'.key = Mine(t).key
    BY <1>0, <1>2, <1>a, <2>1, InUseKeeps DEF Mine, Me
  <2>3. task[t].op = "delete" /\ Undone(t)
    BY <2>1 DEF Undone
  <2> QED BY <2>2, <2>3, UndoneStays
<1>3. CASE Work
  <2>1. PICK u \in Task : Proceeds(u) \/ Suffers(u)
    BY <1>3 DEF Work
  <2>2. Steady(u) /\ task[u].op # "idle"
    BY <1>0, <2>1, WorkSteady
  <2>3. task[t].op = "delete" /\ Me(t)' = Me(t)
    BY <2>2 DEF Steady, NoRun, Me
  <2>4. Mine(t)'.key = Mine(t).key
    BY <1>0, <1>3, <1>a, <2>3, InUseKeeps DEF Mine
  <2>5. CASE ~Undone(t)
    <3>1. u = t
      BY <2>2, <2>5 DEF Steady, Undone
    <3>2. task'[t] # NoRun
      BY DEF NoRun
    <3>3. UNCHANGED coord
      BY <2>1, <2>3, <3>1
         DEF Proceeds, ReadPhase, StartStep, DeletionStep, StopStep, EndStep, Suffers,
             ClientsEnough, CheckAgain, RouteAdded, PodCreated, PodPolled, PollAgain,
             PodDeleted, PodGone, StartReleased, StopPolled, StopSent, StopWaited,
             StopEnds, DeleteEnds, ClientsScarce, ClientsUnknown, RetrySkipped,
             CreateRaises, StopGivesUp, StopAborts, cloudVars, At
    <3>4. coord[Mine(t).key] = "NONE"
      <4>1. CASE task'[t].pc = "unroute"
        BY <1>0, <2>1, <2>5, <3>1, <3>2, <4>1, GoneSteps DEF Undone
      <4>2. CASE task'[t].pc = "gone" /\ task'[t].seen = "NONE"
        <5>1. Phase(Mine(t).key) = "NONE"
          BY <1>0, <2>1, <3>1, <3>2, <4>2, GoneSteps
        <5>2. coord[Mine(t).key] \in CoordState
          BY <1>0, <2>3, TaskMoves DEF TypeOK, JobRecord
        <5> QED BY <5>1, <5>2 DEF Phase, CoordState
      <4> QED BY <4>1, <4>2 DEF Undone
    <3> QED BY <2>4, <3>3, <3>4
  <2> QED BY <2>3, <2>4, <2>5, UndoneStays
<1>4. CASE Reboot
  <2>1. task'[t].pc = "del"
    <3>1. PICK l \in Key : task'[t] = RestoredRun(l) /\ db[l] \in {"DELETING", "STOPPING"}
      BY <1>4, RestoredTask
    <3> QED BY <3>1 DEF RestoredRun, Run
  <2> QED BY <2>1 DEF Undone
<1> QED BY <1>1, <1>2, <1>3, <1>4, NextCases

\* A deleted job of patient clients has no pod, whatever fails and however often
\* the scheduler restarts (Job.delete waits for the end of the pod before
\* Scheduler.__job_delete_callback removes the record).
THEOREM DeletedGone ==
  ASSUME Patient
  PROVE  Spec => []DeletedIsGone
<1>1. Init => DeletedIsGone /\ DeleteUndone
  BY DEF Init, DeletedIsGone, DeleteUndone, NoRun
<1>2. GInv /\ [Next]_vars => GInv'
  BY DeletedGoneNext, DeleteUndoneNext, SingleNext DEF GInv
<1> QED BY <1>1, <1>2, OneInUse, PTL DEF Spec, GInv

-----------------------------------------------------------------------------
(* No call fails: the steps of a coroutine.                                  *)

LEMMA NoFault ==
  ASSUME TypeOK, MaxFaults = 0
  PROVE  ~SpendFault
BY DEF SpendFault, TypeOK

\* A start() that has not created its pod yet.
Early == {"check", "backoff", "route", "create", "del", "gone"}

LEMMA PlainMoves ==
  ASSUME SInv, NEW t \in Task, task[t].op # "idle"
  PROVE  /\ \A pc : task' = Goto(t, pc) =>
              /\ task'[t].pc = pc /\ task'[t].seen = "UNREAD"
              /\ task'[t].op = task[t].op /\ task'[t].obj = task[t].obj
         /\ Ends(t) => task'[t] = NoRun
<1>1. task \in [Task -> TaskRecord] /\ task[t] \in [op : Op, obj : Obj, pc : Pc, seen : Seen]
  BY DEF TypeOK, TaskRecord, NoRun, SInv, IInv
<1> QED BY <1>1 DEF Goto, Ends, Ended

\* Where a coroutine goes.
LEMMA CoroutinePaths ==
  ASSUME SInv, MaxFaults = 0, NEW t \in Task, Proceeds(t) \/ Suffers(t), task'[t] # NoRun
  PROVE  /\ task'[t].pc = "check" =>
              At(t, "start", "backoff") /\ Mine(t).state \in Launching /\ job' = job
         /\ task[t].op = "start" /\ task'[t].pc \in Early => task[t].pc \in Early
         /\ task[t].op = "stop" => task'[t].pc # "await" /\ (task[t].pc = "await" => Mine(t).released)
         /\ job'[Me(t)].released = Mine(t).released \/ (task[t].op = "start" /\ task'[t].pc = "poll")
<1> USE DEF At
<1>0. /\ task[t].op # "idle" /\ TypeOK /\ ~SpendFault
      /\ Me(t) \in Obj /\ Mine(t) = job[Me(t)] /\ HasRecord(Mine(t).key)
  BY WorkSteady, NoFault DEF SInv, IInv, Mine
<1>g. \A pc : task' = Goto(t, pc) => task'[t].pc = pc
  BY <1>0, PlainMoves
<1>p. \A pc : Moves(t, pc) => task'[t].pc = pc /\ job' = job
  BY <1>g DEF Moves
<1>e. ~Ends(t)
  BY <1>0, PlainMoves
<1>f. ~StartFails(t)
  BY <1>0, <1>e DEF StartFails
<1>c. \A s : CreatePc(s) \in {"create", "poll"}
  BY DEF CreatePc
<1>d. StopPodDone(t) => task'[t].pc = "del" /\ job'[Me(t)].released = Mine(t).released
  BY <1>0, <1>g DEF StopPodDone, TypeOK, JobRecord
<1>a. AfterDeleted(t) => /\ job' = job
                         /\ \/ task[t].op = "start" /\ task'[t].pc \in {"create", "poll"}
                            \/ task[t].op \in {"stop", "delete"} /\ task'[t].pc = "unroute"
  BY <1>e, <1>p, <1>c DEF AfterDeleted
<1>1. CASE ReadPhase(t)
  <2>1. task'[t].pc = task[t].pc /\ task'[t].op = task[t].op /\ job' = job
    <3>1. task[t] \in [op : Op, obj : Obj, pc : Pc, seen : Seen]
      BY <1>0 DEF TypeOK, TaskRecord, NoRun
    <3> QED BY <1>0, <1>1, <3>1 DEF ReadPhase, TypeOK
  <2>2. task[t].pc \notin {"check", "await"}
    BY <1>1 DEF ReadPhase, Polling
  <2> QED BY <1>0, <2>1, <2>2
<1>2. CASE ClientsEnough(t) \/ ClientsScarce(t)
  <2>1. job'[Me(t)].released = Mine(t).released
    BY <1>0, <1>2 DEF ClientsEnough, ClientsScarce, LeavesPending, Moves, TypeOK, JobRecord
  <2> QED BY <1>0, <1>2, <1>g, <1>p, <2>1 DEF ClientsEnough, ClientsScarce, LeavesPending, Early
<1>3. CASE CheckAgain(t)
  BY <1>0, <1>3, <1>g, <1>p DEF CheckAgain, Early
<1>4. CASE RouteAdded(t) \/ RetrySkipped(t) \/ PodCreated(t)
  BY <1>0, <1>4, <1>p, <1>c DEF RouteAdded, RetrySkipped, PodCreated, Early
<1>5. CASE PodPolled(t) \/ PollAgain(t)
  BY <1>0, <1>5, <1>p, <1>e, <1>f DEF PodPolled, PollAgain, Releases, BecomesRunning, Early
<1>6. CASE PodDeleted(t)
  BY <1>0, <1>6, <1>p, <1>a DEF PodDeleted, Early
<1>7. CASE PodGone(t)
  BY <1>0, <1>7, <1>p, <1>a DEF PodGone, Early
<1>8. CASE StartReleased(t) \/ StopPolled(t) \/ StopSent(t) \/ StopWaited(t)
  BY <1>0, <1>8, <1>p, <1>d DEF StartReleased, StopPolled, StopSent, StopWaited
<1>9. ~StopEnds(t) /\ ~DeleteEnds(t) /\ ~StopAborts(t) /\ ~CreateRaises(t) /\ ~ClientsUnknown(t)
      /\ ~StopGivesUp(t)
  BY <1>0, <1>e DEF StopEnds, DeleteEnds, StopAborts, CreateRaises, ClientsUnknown, StopGivesUp
<1> QED
  BY <1>1, <1>2, <1>3, <1>4, <1>5, <1>6, <1>7, <1>8, <1>9
     DEF Proceeds, StartStep, DeletionStep, StopStep, EndStep, Suffers

\* What a coroutine makes of the state of its job.
Restates(t, s) ==
  LET old == Mine(t).state IN
  \/ s = old
  \/ At(t, "start", "check") /\ old = "PENDING" /\ s = "STARTING"
  \/ At(t, "start", "check") /\ Scarce /\ s = "PENDING"
  \/ At(t, "start", "poll") /\ old = "STARTING" /\ s = "RUNNING"
  \/ At(t, "start", "poll") /\ old = "STARTING" /\ s = "FAILED" /\ task[t].seen = "FAILED"
  \/ At(t, "stop", "unroute") /\ old \in {"STOPPING", "STOPPED"} /\ s = "STOPPED"

LEMMA CoroutineStates ==
  ASSUME SInv, MaxFaults = 0, NEW t \in Task, Proceeds(t) \/ Suffers(t)
  PROVE  LET new == job'[Me(t)] IN
         /\ new.first = Mine(t).first
         /\ Restates(t, new.state)
         /\ new.timer => Mine(t).timer \/ At(t, "start", "poll")
         /\ \/ active' = active
            \/ /\ active' = Finish(Mine(t).key)
               /\ \/ new.state \in {"STOPPED", "FAILED"}
                  \/ task[t].op = "delete" /\ DeleteEnds(t)
                  \/ task[t].op = "heartbeat" /\ Mine(t).state \notin Launching
<1> USE DEF At
<1>0. /\ task[t].op # "idle" /\ TypeOK /\ ~SpendFault
      /\ Me(t) \in Obj /\ Mine(t) = job[Me(t)] /\ HasRecord(Mine(t).key)
      /\ Mine(t) \in JobRecord /\ job \in [Obj -> JobRecord]
  BY WorkSteady, NoFault DEF SInv, IInv, Mine, TypeOK
<1>j. job' = job => /\ job'[Me(t)].first = Mine(t).first /\ Restates(t, job'[Me(t)].state)
                    /\ job'[Me(t)].timer => Mine(t).timer
  BY <1>0 DEF Restates
<1>p. \A pc : Moves(t, pc) => job' = job /\ active' = active
  BY DEF Moves
<1>d. StopPodDone(t) => /\ job'[Me(t)].first = Mine(t).first /\ job'[Me(t)].state = Mine(t).state
                        /\ ~job'[Me(t)].timer /\ active' = active
  BY <1>0 DEF StopPodDone, JobRecord
<1>f. ASSUME At(t, "start", "poll"), Mine(t).state = "STARTING", task[t].seen = "FAILED",
             StartFails(t)
      PROVE  /\ job'[Me(t)].first = Mine(t).first /\ job'[Me(t)].timer = Mine(t).timer
             /\ Restates(t, job'[Me(t)].state)
             /\ active' = Finish(Mine(t).key) /\ job'[Me(t)].state = "FAILED"
  BY <1>0, <1>f DEF StartFails, Restates, JobRecord
<1>r. BecomesRunning(t) => /\ job'[Me(t)].first = Mine(t).first /\ job'[Me(t)].state = "RUNNING"
                           /\ active' = active
  BY <1>0 DEF BecomesRunning, JobRecord
<1>l. Releases(t) => /\ job'[Me(t)].first = Mine(t).first /\ job'[Me(t)].state = Mine(t).state
                     /\ job'[Me(t)].timer = Mine(t).timer /\ active' = active
  BY <1>0 DEF Releases, JobRecord
<1>a. AfterDeleted(t) => /\ job' = job
                         /\ \/ active' = active
                            \/ /\ active' = Finish(Mine(t).key)
                               /\ task[t].op = "heartbeat" /\ Mine(t).state \notin Launching
  BY <1>p DEF AfterDeleted
<1>1. CASE ReadPhase(t) \/ RouteAdded(t) \/ RetrySkipped(t) \/ PodCreated(t) \/ StartReleased(t)
  BY <1>1, <1>j, <1>p DEF ReadPhase, RouteAdded, RetrySkipped, PodCreated, StartReleased
<1>2. CASE ClientsEnough(t)
  <2>1. CASE Mine(t).state = "PENDING" /\ LeavesPending(t, "route")
    BY <1>0, <1>2, <2>1 DEF ClientsEnough, LeavesPending, Restates, JobRecord
  <2>2. CASE Moves(t, "route") \/ Moves(t, "poll")
    BY <1>j, <1>p, <2>2
  <2> QED BY <1>2, <2>1, <2>2 DEF ClientsEnough
<1>3. CASE ClientsScarce(t)
  BY <1>0, <1>3 DEF ClientsScarce, Restates, JobRecord
<1>4. CASE CheckAgain(t)
  <2>1. CASE Moves(t, "check")
    BY <1>j, <1>p, <2>1
  <2>2. CASE job' = [job EXCEPT ![Me(t)].released = TRUE] /\ active' = active
    BY <1>0, <2>2 DEF Restates, JobRecord
  <2> QED BY <1>4, <2>1, <2>2 DEF CheckAgain
<1>5. CASE PodPolled(t)
  <2>1. CASE Mine(t).state = "STARTING" /\ BecomesRunning(t)
    BY <1>5, <1>r, <2>1 DEF PodPolled, Restates
  <2>2. CASE Mine(t).state = "STARTING" /\ task[t].seen = "FAILED" /\ StartFails(t)
    BY <1>5, <1>f, <2>2 DEF PodPolled
  <2>3. CASE Releases(t)
    BY <1>l, <2>3 DEF Restates
  <2>4. CASE Moves(t, "repoll") \/ Moves(t, "poll")
    BY <1>j, <1>p, <2>4
  <2> QED BY <1>0, <1>5, <2>1, <2>2, <2>3, <2>4 DEF PodPolled
<1>6. CASE PollAgain(t)
  BY <1>6, <1>j, <1>p, <1>l DEF PollAgain, Restates
<1>7. CASE PodDeleted(t) \/ PodGone(t)
  BY <1>7, <1>j, <1>p, <1>a DEF PodDeleted, PodGone
<1>8. CASE StopPolled(t) \/ StopSent(t) \/ StopWaited(t)
  <2>1. StopPodDone(t) \/ Moves(t, "send") \/ Moves(t, "halt") \/ Moves(t, "nap")
    BY <1>8 DEF StopPolled, StopSent, StopWaited
  <2> QED BY <1>d, <1>j, <1>p, <2>1 DEF Restates
<1>9. CASE StopEnds(t)
  BY <1>0, <1>9, <1>j DEF StopEnds, Restates, JobRecord
<1>10. CASE DeleteEnds(t)
  BY <1>10, <1>j DEF DeleteEnds
<1>11. ~StopAborts(t) /\ ~CreateRaises(t) /\ ~ClientsUnknown(t) /\ ~StopGivesUp(t)
  BY <1>0 DEF StopAborts, CreateRaises, ClientsUnknown, StopGivesUp
<1> QED
  BY <1>1, <1>2, <1>3, <1>4, <1>5, <1>6, <1>7, <1>8, <1>9, <1>10, <1>11
     DEF Proceeds, StartStep, DeletionStep, StopStep, EndStep, Suffers

\* How a coroutine comes to its end.
LEMMA CoroutineEnds ==
  ASSUME SInv, MaxFaults = 0, NEW t \in Task, Proceeds(t) \/ Suffers(t), task'[t] = NoRun
  PROVE  \/ task[t].op = "start" /\ task[t].pc \in {"poll", "repoll"}
         \/ StopEnds(t)
         \/ DeleteEnds(t)
         \/ /\ task[t].op = "heartbeat" /\ UNCHANGED <<job, db>>
            /\ \/ task[t].pc = "del" /\ coord[Mine(t).key] = "NONE"
               \/ task[t].pc = "gone" /\ task[t].seen = "NONE"
<1> USE DEF At
<1>0. task[t].op # "idle" /\ TypeOK /\ ~SpendFault
  BY WorkSteady, NoFault DEF SInv, IInv
<1>1. \A pc : task' # Goto(t, pc)
  BY <1>0, PlainMoves DEF NoRun
<1>2. \A pc : ~Moves(t, pc)
  BY <1>1 DEF Moves
<1>3. AfterDeleted(t) => task[t].op = "heartbeat" /\ UNCHANGED <<job, db>>
  BY <1>2 DEF AfterDeleted
<1>4. ~ReadPhase(t)
  <2>1. task[t] \in [op : Op, obj : Obj, pc : Pc, seen : Seen]
    BY <1>0 DEF TypeOK, TaskRecord, NoRun
  <2> QED BY <1>0, <2>1 DEF ReadPhase, TypeOK, NoRun
<1>5. /\ ~ClientsEnough(t) /\ ~ClientsScarce(t) /\ ~CheckAgain(t) /\ ~RouteAdded(t)
      /\ ~RetrySkipped(t) /\ ~PodCreated(t) /\ ~StartReleased(t) /\ ~StopPolled(t)
      /\ ~StopSent(t) /\ ~StopWaited(t)
  BY <1>1, <1>2 DEF ClientsEnough, LeavesPending, ClientsScarce, CheckAgain, RouteAdded, RetrySkipped,
                    PodCreated, StartReleased, StopPolled, StopSent, StopWaited, StopPodDone
<1>6. ~StopAborts(t) /\ ~CreateRaises(t) /\ ~ClientsUnknown(t) /\ ~StopGivesUp(t)
  BY <1>0 DEF StopAborts, CreateRaises, ClientsUnknown, StopGivesUp
<1> QED
  BY <1>2, <1>3, <1>4, <1>5, <1>6
     DEF Proceeds, StartStep, DeletionStep, StopStep, EndStep, Suffers, PodPolled, PollAgain,
         PodDeleted, PodGone

-----------------------------------------------------------------------------
(* Patient clients and calls that do not fail: what is asked for is being     *)
(* worked on, and the queue holds nothing that is at work.                    *)

QueuedOnce == \A i, j \in DOMAIN queue : queue[i] = queue[j] => i = j

QueuedApart ==
  \A t \in Task : task[t].op \in {"start", "stop", "delete"} => ~Queued(Me(t))

\* A start() beside it takes no job away from a stop().
StopStates ==
  \A t \in Task : task[t].op = "stop" => Mine(t).state \in {"STOPPING", "STOPPED", "FAILED"}

\* No stop is under way while the selector may turn a start() down.
CheckStates ==
  Scarce => \A t \in Task : At(t, "start", "check") =>
    /\ Mine(t).state \in {"STARTING", "PENDING", "RUNNING", "FAILED", "FINISHED"}
    /\ \A u \in Task : RunsOn(u, Me(t)) => task[u].op # "stop"

\* The coroutine that a record promises.
Promise == [STOPPING |-> "stop", DELETING |-> "delete"]
Kept(k) ==
  db[k] \in DOMAIN Promise =>
    \E t \in Task : task[t].op = Promise[db[k]] /\ Mine(t).key = k
PromisesKept == \A k \in Key : Kept(k)

Calm == QueuedOnce /\ QueuedApart /\ StopStates /\ CheckStates /\ PromisesKept

CInv == GInv /\ Calm

LEMMA PromiseValues ==
  /\ DOMAIN Promise = {"STOPPING", "DELETING"}
  /\ Promise["STOPPING"] = "stop" /\ Promise["DELETING"] = "delete"
BY DEF Promise

LEMMA TaskOps ==
  ASSUME TypeOK, NEW t \in Task, task[t].op # "idle"
  PROVE  Me(t) \in Obj /\ Mine(t) = job[Me(t)] /\ RunsOn(t, Me(t)) /\ InUse(Me(t)) /\ task[t].op \in Op
BY TaskMoves DEF InUse, RunsOn, Me, Mine, TypeOK, TaskRecord, NoRun

LEMMA WorkCalm ==
  ASSUME CInv, MaxFaults = 0, NEW t \in Task, Proceeds(t) \/ Suffers(t)
  PROVE  Calm'
<1>0. SInv /\ TypeOK
  BY DEF CInv, GInv, SInv, IInv
<1>1. PICK c \in Obj : c = Me(t)
  BY <1>0, WorkSteady
<1>2. /\ task[t].op # "idle" /\ Steady(t)
      /\ HasRecord(Mine(t).key) /\ db[Mine(t).key] = Mine(t).state
  BY <1>0, WorkSteady
<1>3. Restates(t, job'[c].state)
  BY <1>0, <1>1, CoroutineStates
<1>4. \A o \in Obj : o # c => job'[o] = job[o]
  BY <1>1, <1>2 DEF Steady
<1>5. \A o \in Obj, u \in Task : RunsOn(u, o)' => RunsOn(u, o) /\ task'[u].op = task[u].op
  BY <1>2, PoolAssumption DEF RunsOn, Steady, NoRun
<1>6. \A u \in Task : task'[u].op # "idle" => Me(u)' = Me(u) /\ task'[u].op = task[u].op
  BY <1>2 DEF Steady, NoRun, Me
<1>7. QueuedOnce' /\ QueuedApart'
  BY <1>2, <1>6 DEF CInv, Calm, QueuedOnce, QueuedApart, Queued, Steady
<1>8. StopStates'
  <2> SUFFICES ASSUME NEW u \in Task, task'[u].op = "stop"
               PROVE  job'[Me(u)].state \in {"STOPPING", "STOPPED", "FAILED"}
    BY <1>6 DEF StopStates, Mine, Me
  <2>1. /\ task[u].op = "stop" /\ Me(u) \in Obj /\ RunsOn(u, Me(u))
        /\ job[Me(u)].state \in {"STOPPING", "STOPPED", "FAILED"}
    BY <1>0, <1>6, TaskOps DEF CInv, Calm, StopStates, Mine
  <2>2. CASE Me(u) # c
    BY <1>4, <2>1, <2>2
  <2>3. CASE Me(u) = c
    <3>1. ~(Scarce /\ At(t, "start", "check"))
      BY <1>1, <2>1, <2>3 DEF CInv, Calm, CheckStates
    <3> QED BY <1>1, <1>3, <2>1, <2>3, <3>1 DEF Restates, Mine
  <2> QED BY <2>2, <2>3
<1>9. CheckStates'
  <2> SUFFICES ASSUME Scarce, NEW u \in Task, At(u, "start", "check")'
               PROVE  /\ job'[Me(u)].state \in {"STARTING", "PENDING", "RUNNING", "FAILED", "FINISHED"}
                      /\ \A v \in Task : RunsOn(v, Me(u))' => task'[v].op # "stop"
    BY <1>6 DEF CheckStates, Mine, Me, At, RunsOn
  <2>1. task[u].op = "start" /\ Me(u) \in Obj /\ task'[u] # NoRun
    BY <1>0, <1>6, TaskOps DEF At, NoRun
  <2>2. CASE u # t
    <3>1. At(u, "start", "check")
      BY <1>2, <2>2 DEF Steady, At
    <3>2. /\ job[Me(u)].state \in {"STARTING", "PENDING", "RUNNING", "FAILED", "FINISHED"}
          /\ \A v \in Task : RunsOn(v, Me(u)) => task[v].op # "stop"
      BY <3>1 DEF CInv, Calm, CheckStates, Mine
    <3>3. Me(u) = c => task[t].op # "stop"
      BY <1>1, <1>2, <3>2 DEF RunsOn, Me
    <3>4. job'[Me(u)].state \in {"STARTING", "PENDING", "RUNNING", "FAILED", "FINISHED"}
      BY <1>1, <1>3, <1>4, <2>1, <3>2, <3>3 DEF Restates, Mine, At
    <3>5. Me(u)' = Me(u)
      BY <1>6, <2>1 DEF At
    <3> QED BY <1>5, <2>1, <3>2, <3>4, <3>5 DEF RunsOn
  <2>3. CASE u = t
    <3>1. Mine(t).state \in Launching /\ job' = job
      BY <1>0, <2>1, <2>3, CoroutinePaths DEF At
    <3>2. ASSUME NEW v \in Task, RunsOn(v, c)'
          PROVE  task'[v].op # "stop"
      <4>1. RunsOn(v, c) /\ task'[v].op = task[v].op
        BY <1>5, <3>2
      <4> QED BY <1>1, <3>1, <4>1 DEF CInv, Calm, StopStates, RunsOn, Me, Mine, Launching
    <3>3. Me(u)' = c
      BY <1>1, <1>6, <2>3 DEF At
    <3> QED BY <1>1, <2>3, <3>1, <3>2, <3>3 DEF Launching, Mine, RunsOn
  <2> QED BY <2>2, <2>3
<1>10. PromisesKept'
  <2> SUFFICES ASSUME NEW k \in Key, db'[k] \in DOMAIN Promise
               PROVE  \E u \in Task : task'[u].op = Promise[db'[k]] /\ Mine(u)'.key = k
    BY DEF PromisesKept, Kept
  <2>s. db'[k] \in {"STOPPING", "DELETING"}
    BY PromiseValues
  <2>1. CASE k # Mine(t).key \/ db'[k] = db[k]
    <3>1. db'[k] = db[k]
      <4>1. CASE DeleteEnds(t)
        BY <1>0, <2>1, <4>1 DEF DeleteEnds, TypeOK
      <4>2. CASE ~DeleteEnds(t)
        BY <1>0, <1>2, <2>1, <4>2, CoroutineWrites DEF WritesState, Record, TypeOK, Mine
      <4> QED BY <4>1, <4>2
    <3>2. PICK u \in Task : task[u].op = Promise[db[k]] /\ Mine(u).key = k
      BY <3>1 DEF CInv, Calm, PromisesKept, Kept
    <3>3. task[u].op \in {"stop", "delete"} /\ Me(u) \in Obj
      BY <1>0, <2>s, <3>1, <3>2, TaskOps, PromiseValues
    <3>4. task'[u] # NoRun
      <4> SUFFICES ASSUME task'[u] = NoRun
                   PROVE  FALSE
        OBVIOUS
      <4>1. u = t
        BY <1>2, <3>3 DEF Steady, NoRun
      <4>2. StopEnds(t) \/ DeleteEnds(t)
        BY <1>0, <3>3, <4>1, CoroutineEnds
      <4>3. Mine(t).state \in {"STOPPING", "DELETING"} /\ Mine(t).key = k /\ k \in Key
        BY <1>2, <2>s, <3>1, <3>2, <4>1
      <4>4. CASE StopEnds(t)
        <5>1. Mine(t).state = "STOPPING"
          BY <3>2, <3>3, <4>1, <4>3, <4>4, <2>s, <3>1, <1>2, PromiseValues DEF StopEnds, At
        <5>2. db'[k] = "STOPPED"
          BY <1>0, <1>2, <4>3, <4>4, <5>1 DEF StopEnds, Record, TypeOK
        <5> QED BY <2>s, <5>2
      <4>5. CASE DeleteEnds(t)
        BY <1>0, <2>s, <4>3, <4>5 DEF DeleteEnds, TypeOK
      <4> QED BY <4>2, <4>4, <4>5
    <3>5. task'[u].op = task[u].op /\ Me(u)' = Me(u)
      BY <1>2, <3>4 DEF Steady, Me
    <3>6. job'[Me(u)].key = job[Me(u)].key
      BY <1>1, <1>2, <1>4, <3>3 DEF Steady, Mine
    <3> QED BY <3>1, <3>2, <3>5, <3>6 DEF Mine, Me
  <2>2. CASE k = Mine(t).key /\ db'[k] # db[k]
    <3>1. ~DeleteEnds(t)
      BY <1>0, <2>s, <2>2 DEF DeleteEnds, TypeOK
    <3>2. db'[k] = job'[c].state
      BY <1>0, <1>1, <1>2, <2>2, <3>1, CoroutineWrites DEF WritesState, Record, TypeOK, Mine
    <3> QED BY <1>2, <1>3, <2>s, <2>2, <3>2 DEF Restates
  <2> QED BY <2>1, <2>2
<1> QED BY <1>7, <1>8, <1>9, <1>10 DEF Calm

\* A coroutine in progress keeps its promise through the steps of others.
LEMMA PromiseStays ==
  ASSUME Patient, SInv, Else, NEW k \in Key, Kept(k), db'[k] = db[k]
  PROVE  Kept(k)'
<1> SUFFICES ASSUME db[k] \in DOMAIN Promise
             PROVE  \E t \in Task : task'[t].op = Promise[db[k]] /\ Mine(t)'.key = k
  BY DEF Kept
<1>1. PICK t \in Task : task[t].op = Promise[db[k]] /\ Mine(t).key = k
  BY DEF Kept
<1>2. task[t].op # "idle"
  BY <1>1, PromiseValues
<1>3. task'[t] = task[t]
  BY <1>2, NewRuns
<1>4. job'[Me(t)].key = job[Me(t)].key
  BY <1>2, TaskOps, InUseKeeps DEF SInv, IInv
<1> QED BY <1>1, <1>3, <1>4 DEF Mine, Me

\* A step that is not a coroutine's and that concerns one object.
LEMMA ElseCalm ==
  ASSUME Patient, CInv, Else, NEW c \in Obj, Concerns(c), QueuedOnce', SchedTypeOK',
         \A k \in Key : db'[k] = db[k] \/ Kept(k)',
         \A u \in Task : RunsOn(u, c)' /\ task'[u].op \in {"start", "stop", "delete"} => ~Queued(c)',
         \A u \in Task : RunsOn(u, c)' /\ task'[u].op = "stop" =>
           job'[c].state \in {"STOPPING", "STOPPED", "FAILED"},
         \A u \in Task : Scarce /\ RunsOn(u, c)' /\ At(u, "start", "check")' =>
           /\ job'[c].state \in {"STARTING", "PENDING", "RUNNING", "FAILED", "FINISHED"}
           /\ \A v \in Task : RunsOn(v, c)' => task'[v].op # "stop"
  PROVE  Calm'
<1>0. SInv /\ TypeOK
  BY DEF CInv, GInv, SInv, IInv
<1>1. \A u \in Task : task'[u].op # "idle" => \E o \in Obj : o = Me(u)' /\ RunsOn(u, o)'
  BY DEF SchedTypeOK, TaskRecord, NoRun, Me, RunsOn
<1>2. ASSUME NEW u \in Task, NEW o \in Obj, o # c, RunsOn(u, o)'
      PROVE  task'[u] = task[u] /\ RunsOn(u, o) /\ job'[o] = job[o] /\ (Queued(o)' => Queued(o))
  <2>1. RunsOn(u, o) /\ job'[o] = job[o] /\ (Queued(o)' => Queued(o))
    BY <1>2 DEF Concerns
  <2> QED BY <1>0, <2>1, NewRuns DEF RunsOn
<1>3. QueuedApart'
  <2> SUFFICES ASSUME NEW u \in Task, task'[u].op \in {"start", "stop", "delete"},
                      NEW o \in Obj, o = Me(u)', RunsOn(u, o)', o # c
               PROVE  ~Queued(o)'
    BY <1>1 DEF QueuedApart, Queued
  <2> QED BY <1>2 DEF CInv, Calm, QueuedApart, Me
<1>4. StopStates'
  <2> SUFFICES ASSUME NEW u \in Task, task'[u].op = "stop",
                      NEW o \in Obj, o = Me(u)', RunsOn(u, o)', o # c
               PROVE  job'[o].state \in {"STOPPING", "STOPPED", "FAILED"}
    BY <1>1 DEF StopStates, Mine, Me
  <2> QED BY <1>2 DEF CInv, Calm, StopStates, Me, Mine
<1>5. CheckStates'
  <2> SUFFICES ASSUME Scarce, NEW u \in Task, At(u, "start", "check")',
                      NEW o \in Obj, o = Me(u)', RunsOn(u, o)', o # c
               PROVE  /\ job'[o].state \in {"STARTING", "PENDING", "RUNNING", "FAILED", "FINISHED"}
                      /\ \A v \in Task : RunsOn(v, o)' => task'[v].op # "stop"
    BY <1>1 DEF CheckStates, Mine, Me, At, RunsOn
  <2>1. At(u, "start", "check") /\ Me(u) = o
    BY <1>2 DEF At, Me
  <2>2. /\ job[o].state \in {"STARTING", "PENDING", "RUNNING", "FAILED", "FINISHED"}
        /\ \A v \in Task : RunsOn(v, o) => task[v].op # "stop"
    BY <2>1 DEF CInv, Calm, CheckStates, Mine
  <2> QED BY <1>2, <2>2
<1>6. PromisesKept'
  BY <1>0, PromiseStays DEF CInv, Calm, PromisesKept
<1> QED BY <1>3, <1>4, <1>5, <1>6 DEF Calm

\* What the beginning of a start() does.
LEMMA BeginObject ==
  ASSUME TypeOK, NEW c \in Obj, NEW t \in Task, task[t].op = "idle", Begin(c, t)
  PROVE  /\ job[c].key \in Key /\ job'[c].key = job[c].key
         /\ \A o \in Obj : o # c => job'[o] = job[o]
         /\ ~job'[c].first /\ ~job'[c].timer
         /\ db' = Record(job[c].key, job'[c].state)
         /\ \/ job'[c].state = "STARTING" /\ task' = [task EXCEPT ![t] = Run("start", c, "check")]
               /\ active' = active
            \/ job'[c].state = "FAILED" /\ task' = task /\ active' = Finish(job[c].key)
BY DEF Begin, TypeOK, JobRecord

LEMMA BeginCalm ==
  ASSUME Patient, CInv, Else, SchedTypeOK', NEW c \in Obj, InUse(c), NEW t \in Task,
         task[t].op = "idle", Begin(c, t),
         \A u \in Task : RunsOn(u, c) => task[u].op = "heartbeat",
         QueuedOnce', ~Queued(c)', \A o \in Obj : Queued(o)' => Queued(o)
  PROVE  Calm'
<1>0. SInv /\ TypeOK
  BY DEF CInv, GInv, SInv, IInv
<1>1. /\ job[c].key \in Key /\ job'[c].key = job[c].key
      /\ \A o \in Obj : o # c => job'[o] = job[o]
      /\ db' = Record(job[c].key, job'[c].state)
      /\ \/ job'[c].state = "STARTING" /\ task' = [task EXCEPT ![t] = Run("start", c, "check")]
         \/ job'[c].state = "FAILED" /\ task' = task
      /\ \A k \in Key, o \in Obj : active'[k] = o => active[k] = o
  <2>1. active' = active \/ active' = Finish(job[c].key)
    BY <1>0, BeginObject
  <2>2. \A k \in Key, o \in Obj : active'[k] = o => active[k] = o
    <3>1. job[c].key \in Key
      BY <1>0, BeginObject
    <3> QED BY <1>0, <2>1, <3>1, FinishSteady, PoolAssumption
  <2> QED BY <1>0, <2>2, BeginObject
<1>2. \A u \in Task : RunsOn(u, c)' => task'[u].op \in {"heartbeat", "start"}
  BY <1>0, <1>1 DEF RunsOn, Run, TypeOK
<1>3. ASSUME NEW u \in Task, RunsOn(u, c)', task'[u].op = "start"
      PROVE  job'[c].state = "STARTING"
  BY <1>0, <1>1, <1>3 DEF RunsOn, Run, TypeOK
<1>4. \A o \in Obj, u \in Task : o # c /\ RunsOn(u, o)' => RunsOn(u, o) /\ task'[u].op = task[u].op
  BY <1>0, <1>1 DEF RunsOn, Run, TypeOK
<1>5. Concerns(c)
  BY <1>1, <1>4 DEF Concerns
<1>6. \A k \in Key : db'[k] = db[k] \/ Kept(k)'
  <2> SUFFICES ASSUME NEW k \in Key, db'[k] # db[k]
               PROVE  db'[k] \notin DOMAIN Promise
    BY DEF Kept
  <2>1. db'[k] = job'[c].state
    BY <1>0, <1>1 DEF Record, TypeOK
  <2> QED BY <1>1, <2>1, PromiseValues
<1> QED BY <1>2, <1>3, <1>5, <1>6, ElseCalm DEF At

\* A step that changes nothing but that objects may leave the queue.
LEMMA TailOnce ==
  ASSUME TypeOK, QueuedOnce, TakeJob, NEW c \in Obj, c = Head(queue)
  PROVE  QueuedOnce' /\ ~Queued(c)'
<1>1. queue \in Seq(Obj) /\ queue # <<>> /\ queue' = Tail(queue)
  BY DEF TypeOK, TakeJob
<1>2. \A i \in DOMAIN queue' : i + 1 \in DOMAIN queue /\ queue'[i] = queue[i + 1] /\ i \in Nat \ {0}
  BY <1>1
<1>3. 1 \in DOMAIN queue /\ queue[1] = c
  BY <1>1
<1>4. QueuedOnce'
  BY <1>2 DEF QueuedOnce
<1>5. ~Queued(c)'
  <2> SUFFICES ASSUME NEW i \in DOMAIN queue', queue'[i] = c
               PROVE  FALSE
    BY DEF Queued
  <2>1. i + 1 = 1
    BY <1>2, <1>3 DEF QueuedOnce
  <2> QED BY <1>2, <2>1
<1> QED BY <1>4, <1>5

LEMMA TakeJobCalm ==
  ASSUME Patient, CInv, TakeJob
  PROVE  Calm'
<1>0. SInv /\ TypeOK /\ SchedTypeOK' /\ QueuedOnce /\ Else
  BY TakeJobTypes DEF CInv, GInv, SInv, IInv, Calm, Else
<1>1. PICK c \in Obj : c = Head(queue)
  BY <1>0 DEF TakeJob, TypeOK
<1>2. Queued(c) /\ QueuedOnce' /\ ~Queued(c)' /\ \A o \in Obj : Queued(o)' => Queued(o)
  BY <1>0, <1>1, HeadOfQueue, TailOnce
<1>3. \A u \in Task : RunsOn(u, c) => task[u].op = "heartbeat"
  <2> SUFFICES ASSUME NEW u \in Task, RunsOn(u, c)
               PROVE  task[u].op = "heartbeat"
    OBVIOUS
  <2>1. task[u].op \in Op /\ Me(u) = c
    BY <1>0, TaskOps DEF RunsOn, Me
  <2> QED BY <1>2, <2>1 DEF CInv, Calm, QueuedApart, Op
<1>4. CASE active[job[c].key] = NoObj
  <2>1. UNCHANGED <<db, active, loop, job, task>>
    BY <1>1, <1>4 DEF TakeJob
  <2>2. Concerns(c)
    BY <1>2, <2>1 DEF Concerns, RunsOn
  <2> QED BY <1>0, <1>2, <1>3, <2>1, <2>2, ElseCalm DEF RunsOn, At
<1>5. CASE active[job[c].key] # NoObj
  <2>1. PICK t \in Task : t = SpareTask /\ task[t].op = "idle"
    BY <1>1, <1>5, SpareTaskIsIdle DEF TakeJob
  <2>2. Begin(c, t) /\ InUse(c)
    BY <1>1, <1>2, <1>5, <2>1 DEF TakeJob, InUse
  <2> QED BY <1>0, <1>2, <1>3, <2>1, <2>2, BeginCalm
<1> QED BY <1>4, <1>5

LEMMA LossCalm ==
  ASSUME Patient, CInv, NEW c \in Obj, LossHeartbeat(c)
  PROVE  Calm'
<1>0. SInv /\ TypeOK /\ SchedTypeOK' /\ Else /\ QueuedOnce
  BY HeartbeatTypes DEF CInv, GInv, SInv, IInv, Calm, Else
<1>1. /\ job[c].key \in Key
      /\ job'[c].state = "FAILED" /\ job'[c].key = job[c].key
      /\ \A o \in Obj : o # c => job'[o] = job[o]
  BY <1>0 DEF LossHeartbeat, TypeOK, JobRecord
<1>2. \A k \in Key, o \in Obj : active'[k] = o => active[k] = o
  BY <1>0, <1>1, FinishSteady, PoolAssumption DEF LossHeartbeat
<1>3. UNCHANGED <<queue, task>> /\ db' = Record(job[c].key, "FAILED")
  BY DEF LossHeartbeat
<1>4. Concerns(c) /\ QueuedOnce'
  BY <1>0, <1>1, <1>2, <1>3 DEF Concerns, Queued, RunsOn, QueuedOnce
<1>5. \A k \in Key : db'[k] = db[k] \/ Kept(k)'
  BY <1>0, <1>1, <1>3, PromiseValues DEF Record, TypeOK, Kept
<1>6. \A u \in Task : RunsOn(u, c)' => RunsOn(u, c) /\ Me(u) = c /\ task'[u] = task[u]
  BY <1>3 DEF RunsOn, Me
<1>7. \A u \in Task : RunsOn(u, c)' /\ task'[u].op \in {"start", "stop", "delete"} => ~Queued(c)'
  BY <1>3, <1>6 DEF CInv, Calm, QueuedApart, Queued
<1>8. \A u \in Task : Scarce /\ RunsOn(u, c)' /\ At(u, "start", "check")' =>
        \A v \in Task : RunsOn(v, c)' => task'[v].op # "stop"
  BY <1>6 DEF CInv, Calm, CheckStates, At
<1> QED BY <1>0, <1>1, <1>4, <1>5, <1>7, <1>8, ElseCalm

LEMMA HeartbeatCalm ==
  ASSUME Patient, CInv, NEW l \in Key, Heartbeat(l)
  PROVE  Calm'
<1>0. SInv /\ TypeOK /\ SchedTypeOK' /\ Else /\ QueuedOnce
  BY HeartbeatTypes DEF CInv, GInv, SInv, IInv, Calm, Else
<1>1. UNCHANGED <<active, queue>>
  BY DEF Heartbeat
<1>2. CASE UNCHANGED <<db, job, task>>
  BY <1>1, <1>2 DEF CInv, Calm, QueuedOnce, QueuedApart, StopStates, CheckStates, PromisesKept,
                    Kept, Queued, RunsOn, Me, Mine, At
<1>3. CASE ~ UNCHANGED <<db, job, task>>
  <2>1. PICK c \in Obj : c = active[l]
    BY <1>0, <1>3 DEF Heartbeat, TypeOK
  <2>2. /\ job[c].key = l /\ \A o \in Obj : o # c => job'[o] = job[o]
        /\ \/ db' = db /\ job'[c].state = job[c].state /\ task' = task
           \/ /\ Expects(job[c].state, mail[l])
              /\ db' = Record(l, mail[l]) /\ job'[c].state = mail[l]
              /\ \/ task' = task
                 \/ /\ task' = [task EXCEPT ![SpareTask] = Run("heartbeat", c, "del")]
                    /\ HasSpareTask
    BY <1>0, <1>3, <2>1, HeartbeatObject
  <2>3. \A u \in Task : RunsOn(u, c)' /\ task'[u].op # "heartbeat" => RunsOn(u, c) /\ task'[u] = task[u]
    BY <1>0, <2>2 DEF RunsOn, Run, TypeOK
  <2>4. \A o \in Obj, u \in Task : o # c /\ RunsOn(u, o)' => RunsOn(u, o) /\ task'[u].op = task[u].op
    BY <1>0, <2>2 DEF RunsOn, Run, TypeOK
  <2>5. Concerns(c) /\ QueuedOnce'
    BY <1>0, <1>1, <2>2, <2>4 DEF Concerns, Queued, QueuedOnce
  <2>6. \/ job'[c].state = job[c].state
        \/ /\ job[c].state \in {"RUNNING", "STARTING"}
           /\ job'[c].state \in {"RUNNING", "FINISHED", "FAILED"}
        \/ job[c].state = "STOPPING" /\ job'[c].state \in {"STOPPING", "STOPPED"}
    BY <2>2 DEF Expects, Expected
  <2>7. \A k \in Key : db'[k] = db[k] \/ Kept(k)'
    <3>1. db[l] = job[c].state
      BY <1>0, <2>1, <2>2, InUseRecorded DEF InUse
    <3>2. ASSUME NEW k \in Key, db'[k] # db[k]
          PROVE  db'[k] = job'[c].state /\ db[k] = job[c].state
      BY <1>0, <2>2, <3>1, <3>2 DEF Record, TypeOK
    <3> QED BY <2>6, <3>2, PromiseValues DEF Kept
  <2>8. \A u \in Task : RunsOn(u, c)' /\ task'[u].op \in {"start", "stop", "delete"} => ~Queued(c)'
    BY <1>1, <2>3 DEF CInv, Calm, QueuedApart, Queued, RunsOn, Me
  <2>9. \A u \in Task : RunsOn(u, c)' /\ task'[u].op = "stop" =>
          job'[c].state \in {"STOPPING", "STOPPED", "FAILED"}
    BY <2>3, <2>6 DEF CInv, Calm, StopStates, RunsOn, Me, Mine
  <2>10. ASSUME NEW u \in Task, Scarce, RunsOn(u, c)', At(u, "start", "check")'
         PROVE  /\ job'[c].state \in {"STARTING", "PENDING", "RUNNING", "FAILED", "FINISHED"}
                /\ \A v \in Task : RunsOn(v, c)' => task'[v].op # "stop"
    <3>1. At(u, "start", "check") /\ Me(u) = c
      BY <2>3, <2>10 DEF At, RunsOn, Me
    <3>2. /\ job[c].state \in {"STARTING", "PENDING", "RUNNING", "FAILED", "FINISHED"}
          /\ \A v \in Task : RunsOn(v, c) => task[v].op # "stop"
      BY <2>10, <3>1 DEF CInv, Calm, CheckStates, Mine
    <3> QED BY <2>3, <2>6, <3>2
  <2> QED BY <1>0, <2>5, <2>7, <2>8, <2>9, <2>10, ElseCalm
<1> QED BY <1>2, <1>3

\* An object that is not in use yet enters the queue.
LEMMA AppendOnce ==
  ASSUME TypeOK, QueuedOnce, NEW c \in Obj, ~Queued(c), queue' = Append(queue, c)
  PROVE  QueuedOnce' /\ \A o \in Obj : o # c /\ Queued(o)' => Queued(o)
<1>1. queue \in Seq(Obj)
  BY DEF TypeOK
<1>2. /\ DOMAIN queue' = 1 .. (Len(queue) + 1) /\ queue'[Len(queue) + 1] = c
      /\ DOMAIN queue = 1 .. Len(queue) /\ Len(queue) \in Nat
      /\ \A i \in DOMAIN queue : queue'[i] = queue[i]
  BY <1>1
<1>3. \A i \in DOMAIN queue' : i \in DOMAIN queue \/ i = Len(queue) + 1
  BY <1>2
<1>4. QueuedOnce'
  BY <1>2, <1>3 DEF QueuedOnce, Queued
<1>5. \A o \in Obj : o # c /\ Queued(o)' => Queued(o)
  BY <1>2, <1>3 DEF Queued
<1> QED BY <1>4, <1>5

LEMMA QueueCalm ==
  ASSUME Patient, CInv, Else, SchedTypeOK', NEW l \in Key, HasSpareObj, NEW s \in State,
         job' = [job EXCEPT ![SpareObj] = NewJob(l, s)],
         active' = [active EXCEPT ![l] = SpareObj],
         queue' = Append(queue, SpareObj),
         task' = task,
         \A k \in Key : db'[k] = db[k] \/ db'[k] = "QUEUING"
  PROVE  Calm'
<1>0. SInv /\ TypeOK /\ QueuedOnce
  BY DEF CInv, GInv, SInv, IInv, Calm
<1>1. PICK c \in Obj : c = SpareObj /\ ~InUse(c)
  BY SpareIsIdle
<1>2. \A o \in Obj : o # c => job'[o] = job[o]
  BY <1>0, <1>1 DEF TypeOK
<1>3. \A k \in Key, o \in Obj : o # c /\ active'[k] = o => active[k] = o
  BY <1>0, <1>1 DEF TypeOK
<1>4. QueuedOnce' /\ \A o \in Obj : o # c /\ Queued(o)' => Queued(o)
  BY <1>0, <1>1, AppendOnce DEF InUse
<1>5. Concerns(c)
  BY <1>2, <1>3, <1>4 DEF Concerns, RunsOn
<1>6. \A u \in Task : ~RunsOn(u, c)'
  BY <1>1 DEF InUse, RunsOn
<1>7. \A k \in Key : db'[k] = db[k] \/ Kept(k)'
  BY PromiseValues DEF Kept
<1> QED BY <1>0, <1>4, <1>5, <1>6, <1>7, ElseCalm

\* A quiet job has no coroutine.
LEMMA QuietActive ==
  ASSUME TypeOK, NEW k \in Key, AtRest(k), NEW c \in Obj, job[c].key = k
  PROVE  ~Queued(c) /\ \A u \in Task : ~RunsOn(u, c)
BY DEF AtRest

LEMMA CloseCalm ==
  ASSUME Patient, CInv, NEW l \in Key, StopJob(l) \/ DeleteJob(l)
  PROVE  Calm'
<1>0. SInv /\ TypeOK /\ SchedTypeOK' /\ Else /\ QueuedOnce
  BY RequestTypes DEF CInv, GInv, SInv, IInv, Calm, Else, Request
<1>1. PICK c \in Obj, t \in Task : c = Target(l) /\ t = SpareTask
  BY <1>0, CloseChoice
<1>2. /\ task[t].op = "idle" /\ HasRecord(l)
      /\ \A u \in Task : u # t => task'[u] = task[u]
      /\ UNCHANGED <<active, queue>>
      /\ \A o \in Obj : o # c => job'[o] = job[o]
      /\ job'[c].key = l
      /\ job[c].key = l \/ ~InUse(c)
      /\ \/ /\ StopJob(l) /\ job'[c].state = "STOPPING" /\ db' = Record(l, "STOPPING")
            /\ \E pc : task'[t] = Run("stop", c, pc)
         \/ /\ DeleteJob(l) /\ job'[c].state = "DELETING" /\ db' = Record(l, "DELETING")
            /\ \E pc : task'[t] = Run("delete", c, pc)
  BY <1>0, <1>1, CloseObject
<1>3. /\ task'[t].obj = c
      /\ \/ StopJob(l) /\ job'[c].state = "STOPPING" /\ task'[t].op = "stop"
         \/ DeleteJob(l) /\ job'[c].state = "DELETING" /\ task'[t].op = "delete"
  <2>1. \A op, pc : Run(op, c, pc).op = op /\ Run(op, c, pc).obj = c
    BY DEF Run
  <2> QED BY <1>2, <2>1
<1>4. ~Queued(c) /\ \A u \in Task : RunsOn(u, c) => Stoppable(u, c)
  <2>1. CASE ~InUse(c)
    BY <2>1 DEF InUse
  <2>2. CASE job[c].key = l
    <3>1. Quiet(l) \/ Launched(l)
      BY DEF StopJob, DeleteJob, MayIssue, MayStop
    <3> QED BY <2>2, <3>1 DEF Quiet, AtRest, Launched
  <2> QED BY <1>2, <2>1, <2>2
<1>5. DeleteJob(l) => \A u \in Task : ~RunsOn(u, c)
  <2>1. CASE ~InUse(c)
    BY <2>1 DEF InUse
  <2>2. CASE job[c].key = l
    BY <2>2 DEF DeleteJob, MayIssue, Quiet, AtRest
  <2> QED BY <1>2, <2>1, <2>2
<1>6. Concerns(c) /\ QueuedOnce' /\ ~Queued(c)'
  BY <1>0, <1>2, <1>3, <1>4 DEF Concerns, Queued, RunsOn, QueuedOnce
<1>7. \A k \in Key : db'[k] = db[k] \/ Kept(k)'
  <2> SUFFICES ASSUME NEW k \in Key, db'[k] # db[k]
               PROVE  Kept(k)'
    OBVIOUS
  <2>1. k = l /\ db'[k] = job'[c].state
    BY <1>0, <1>2 DEF Record, TypeOK
  <2>2. Mine(t)'.key = l
    BY <1>2, <1>3 DEF Mine, Me
  <2>3. task'[t].op = Promise[db'[k]]
    BY <1>2, <1>3, <2>1, PromiseValues
  <2> QED BY <2>1, <2>2, <2>3 DEF Kept
<1>8. \A u \in Task : RunsOn(u, c)' => u = t \/ (RunsOn(u, c) /\ task'[u] = task[u])
  BY <1>2 DEF RunsOn
<1>9. ASSUME NEW u \in Task, RunsOn(u, c)', task'[u].op = "stop"
      PROVE  job'[c].state = "STOPPING"
  BY <1>2, <1>3, <1>5, <1>8, <1>9
<1>10. ASSUME NEW u \in Task, Scarce, RunsOn(u, c)'
       PROVE  ~At(u, "start", "check")'
  BY <1>3, <1>4, <1>8, <1>10 DEF At, Stoppable
<1> QED BY <1>0, <1>6, <1>7, <1>9, <1>10, ElseCalm

LEMMA RequestCalm ==
  ASSUME Patient, CInv, NEW l \in Key, Request(l)
  PROVE  Calm'
<1>0. SInv /\ TypeOK /\ SchedTypeOK' /\ Else /\ QueuedOnce
  BY RequestTypes DEF CInv, GInv, SInv, IInv, Calm, Else
<1>1. CASE CreateJob(l)
  <2>1. \A k \in Key : db'[k] = db[k] \/ db'[k] = "QUEUING"
    BY <1>0, <1>1 DEF CreateJob, TypeOK
  <2> QED BY <1>0, <1>1, <2>1, QueueCalm DEF CreateJob, State
<1>2. CASE StartJob(l) /\ active[l] # NoObj
  <2>1. PICK c \in Obj : c = active[l] /\ job[c].key = l
    BY <1>0, <1>2 DEF TypeOK, SInv, IInv, Guarded, ActiveIsPersisted
  <2>2. PICK t \in Task : t = SpareTask /\ task[t].op = "idle"
    BY <1>2, SpareTaskIsIdle DEF StartJob
  <2>3. Begin(c, t) /\ queue' = queue /\ AtRest(l)
    BY <1>2, <2>1, <2>2 DEF StartJob, MayIssue, Quiet
  <2>4. ~Queued(c)' /\ (\A u \in Task : ~RunsOn(u, c)) /\ (\A o \in Obj : Queued(o)' => Queued(o))
    BY <1>0, <2>1, <2>3, QuietActive DEF Queued
  <2>5. InUse(c) /\ QueuedOnce'
    BY <1>0, <2>1, <2>3 DEF InUse, QueuedOnce
  <2> QED BY <1>0, <2>2, <2>3, <2>4, <2>5, BeginCalm
<1>3. CASE StartJob(l) /\ active[l] = NoObj
  <2>1. /\ HasSpareObj /\ job' = [job EXCEPT ![SpareObj] = NewJob(l, db[l])]
        /\ active' = [active EXCEPT ![l] = SpareObj]
        /\ queue' = Append(queue, SpareObj) /\ task' = task /\ db' = db
    BY <1>3 DEF StartJob
  <2>2. db[l] \in State
    BY <1>0, <1>3 DEF StartJob, HasRecord, TypeOK, Recordable
  <2> QED BY <1>0, <2>1, <2>2, QueueCalm
<1>4. CASE StopJob(l) \/ DeleteJob(l)
  BY <1>4, CloseCalm
<1> QED BY <1>1, <1>2, <1>3, <1>4 DEF Request

\* A restart queues every job once.
LEMMA OrdersOnce ==
  ASSUME NEW q \in Orders(Requeued)
  PROVE  \A i, j \in DOMAIN q : q[i] = q[j] => i = j
<1> DEFINE n == Cardinality(Requeued)
<1>1. IsFiniteSet(Requeued)
  <2>1. Requeued \subseteq Obj
    BY RestoredApart DEF Requeued
  <2> QED BY <2>1, PoolAssumption, FS_Subset
<1>2. n \in Nat /\ IsFiniteSet(1 .. n) /\ Cardinality(1 .. n) = n
  <2>1. n \in Nat
    BY <1>1, FS_CardinalityType
  <2> QED BY <2>1, FS_Interval
<1>3. q \in [1 .. n -> Requeued] /\ \A x \in Requeued : \E i \in DOMAIN q : q[i] = x
  BY DEF Orders
<1>4. q \in Surjection(1 .. n, Requeued)
  BY <1>3 DEF Surjection
<1>5. q \in Injection(1 .. n, Requeued)
  BY <1>2, <1>4, FS_Surjection
<1> QED BY <1>3, <1>5 DEF Injection, IsInjective

LEMMA RebootCalm ==
  ASSUME TypeOK, Reboot
  PROVE  Calm'
<1>1. QueuedOnce'
  BY OrdersOnce DEF Reboot, QueuedOnce
<1>r. ASSUME NEW u \in Task, task'[u].op # "idle"
      PROVE  \E l \in Key :
               /\ db[l] \in DOMAIN Promise /\ HasRecord(l)
               /\ task'[u].op = Promise[db[l]] /\ task'[u].obj = ObjFor[l]
               /\ job'[ObjFor[l]].state = db[l]
  <2>1. PICK l \in Key : /\ HasRecord(l) /\ db[l] \in {"DELETING", "STOPPING"}
                         /\ task'[u] = RestoredRun(l) /\ task'[u].obj = ObjFor[l]
    BY <1>r, RestoredTask
  <2>2. task'[u].op = Promise[db[l]]
    BY <2>1, PromiseValues DEF RestoredRun, Run
  <2> QED BY <2>1, <2>2, Restored, PromiseValues
<1>2. QueuedApart'
  <2> SUFFICES ASSUME NEW u \in Task, task'[u].op # "idle", NEW i \in DOMAIN queue',
                      queue'[i] = task'[u].obj
               PROVE  FALSE
    BY DEF QueuedApart, Queued, Me
  <2>1. PICK l \in Key : db[l] \in {"DELETING", "STOPPING"} /\ task'[u].obj = ObjFor[l]
    BY <1>r, PromiseValues
  <2>2. queue'[i] \in Requeued
    BY DEF Reboot, Orders
  <2>3. PICK k \in Key : db[k] \in {"QUEUING", "STARTING", "PENDING"} /\ queue'[i] = ObjFor[k]
    BY <2>2 DEF Requeued
  <2> QED BY <2>1, <2>3, RestoredApart
<1>3. StopStates'
  BY <1>r, PromiseValues DEF StopStates, Mine, Me
<1>4. CheckStates'
  BY <1>r, PromiseValues DEF CheckStates, At
<1>5. PromisesKept'
  <2> SUFFICES ASSUME NEW k \in Key, db[k] \in DOMAIN Promise
               PROVE  \E u \in Task : task'[u].op = Promise[db[k]] /\ Mine(u)'.key = k
    BY DEF PromisesKept, Kept, Reboot
  <2>1. TaskFor[k] \in Task /\ HasRecord(k)
    BY RestoredApart, PromiseValues DEF HasRecord
  <2>2. task'[TaskFor[k]] = RestoredRun(k)
    <3>1. k = CHOOSE l \in Key : TaskFor[l] = TaskFor[k]
      BY RestoredApart
    <3> QED BY <2>1, <3>1 DEF Reboot
  <2>3. task'[TaskFor[k]].op = Promise[db[k]] /\ task'[TaskFor[k]].obj = ObjFor[k]
    BY <2>2, PromiseValues DEF RestoredRun, Run
  <2>4. job'[ObjFor[k]].key = k
    BY <2>1, Restored
  <2> QED BY <2>1, <2>3, <2>4 DEF Mine, Me
<1> QED BY <1>1, <1>2, <1>3, <1>4, <1>5 DEF Calm

LEMMA CalmNext ==
  ASSUME Patient, MaxFaults = 0, CInv, [Next]_vars
  PROVE  CInv'
<1>0. TypeOK
  BY DEF CInv, GInv, SInv, IInv
<1>1. GInv'
  BY DeletedGoneNext, DeleteUndoneNext, SingleNext DEF CInv, GInv
<1>2. ASSUME UNCHANGED schedVars
      PROVE  Calm'
  BY <1>2 DEF schedVars, CInv, Calm, QueuedOnce, QueuedApart, StopStates, CheckStates,
              PromisesKept, Kept, Queued, RunsOn, Me, Mine, At
<1>3. ASSUME UNCHANGED vars
      PROVE  Calm'
  BY <1>2, <1>3 DEF vars
<1>4. ASSUME Else
      PROVE  Calm'
  BY <1>2, <1>4, TakeJobCalm, HeartbeatCalm, RequestCalm, LossCalm, CloudSteps DEF Else
<1>5. ASSUME Work
      PROVE  Calm'
  BY <1>5, WorkCalm DEF Work
<1>6. ASSUME Reboot
      PROVE  Calm'
  BY <1>0, <1>6, RebootCalm
<1>7. Calm'
  BY <1>3, <1>4, <1>5, <1>6, NextCases
<1> QED BY <1>1, <1>7 DEF CInv

LEMMA CalmInit == Init => CInv
<1> SUFFICES ASSUME Init
             PROVE  CInv
  OBVIOUS
<1>1. SInv
  BY TypeInit, PoolAssumption
     DEF Init, SInv, IInv, Guarded, ActiveIsPersisted, AllCovered, CloseClosing, Single, OneObject,
         InUseMirrored, DeleteIsAlone, InUse, Queued, RunsOn, NoRun, Blank, NewJob
<1>2. GInv
  BY <1>1 DEF GInv, Init, DeletedIsGone, DeleteUndone, NoRun
<1>3. Calm
  BY PromiseValues DEF Init, Calm, QueuedOnce, QueuedApart, StopStates, CheckStates, PromisesKept,
         Kept, NoRun, At
<1> QED BY <1>2, <1>3 DEF CInv

-----------------------------------------------------------------------------
(* The pods as long as the scheduler was not restarted. A start() that has   *)
(* not created its pod is alone with the job and finds the last pod dead;    *)
(* what a job is recorded to have come to is known of its pod.               *)

EarlyStart(t) == task[t].op = "start" /\ task[t].pc \in Early
Resting == {"QUEUING", "STOPPED", "FINISHED", "FAILED"}
Final == {"FINISHED", "FAILED", "STOPPED"}
WorksFor(t, k, ops) == task[t].op \in ops /\ Mine(t).key = k

QueuedRest ==
  \A o \in Obj : Queued(o) => job[o].state \in Resting /\ \A u \in Task : ~RunsOn(u, o)

\* Beside an early start() there is at most a stop() that waits for it, and it
\* hears nothing of an earlier pod.
Alone(t) ==
  /\ \A u \in Task : RunsOn(u, Me(t)) /\ u # t => At(u, "stop", "await") /\ ~Mine(t).released
  /\ Mine(t).state \in {"STARTING", "PENDING", "STOPPING"}
  /\ ~Mine(t).timer
  /\ Dead(Mine(t).key)
  /\ Mine(t).first => mail[Mine(t).key] = "NONE"
StartsAlone == \A t \in Task : EarlyStart(t) => Alone(t)

RestIsDead == \A k \in Key : db[k] \in Resting => Dead(k)

\* Whoever is to remove the pod of a job that came to an end is at work.
Held(k) ==
  /\ db[k] = "FINISHED" => coord[k] = "NONE" \/ \E t \in Task : WorksFor(t, k, {"heartbeat"})
  /\ db[k] = "STOPPED" => coord[k] = "NONE" \/ \E t \in Task : WorksFor(t, k, {"stop"})
  /\ active[k] = NoObj =>
       \/ db[k] \in {"ABSENT"} \cup Final
       \/ \E t \in Task : WorksFor(t, k, {"stop", "delete"})
EndsHeld == \A k \in Key : Held(k)

\* What a coroutine was told of its pod is still true.
Told(t) ==
  /\ Undone(t) => coord[Mine(t).key] = "NONE"
  /\ At(t, "start", "poll") /\ task[t].seen = "FAILED" => Dead(Mine(t).key)
ToldTrue == \A t \in Task : task[t].op # "idle" => Told(t)

LastReport ==
  \A k \in Key : active[k] # NoObj /\ mail[k] \in Final /\ job[active[k]].first => Dead(k)

EndStates == \A t \in Task : task[t].op = "heartbeat" => Mine(t).state \in {"FINISHED", "FAILED"}

Orderly ==
  QueuedRest /\ StartsAlone /\ RestIsDead /\ EndsHeld /\ ToldTrue /\ LastReport /\ EndStates

OInv == CInv /\ Orderly

LEMMA ParentInv ==
  ASSUME OInv
  PROVE  CInv /\ GInv /\ SInv /\ IInv /\ TypeOK /\ Calm /\ Orderly
BY DEF OInv, CInv, GInv, SInv, IInv

\* Objects in use of the same job are the same.
LEMMA SameJob ==
  ASSUME SInv, NEW t \in Task, NEW u \in Task, task[t].op # "idle", task[u].op # "idle",
         Mine(t).key = Mine(u).key
  PROVE  Me(t) = Me(u)
BY TaskOps DEF SInv, IInv, Single, OneObject

LEMMA ActiveObject ==
  ASSUME SInv, NEW k \in Key, active[k] # NoObj
  PROVE  active[k] \in Obj /\ InUse(active[k]) /\ job[active[k]].key = k
BY DEF SInv, IInv, TypeOK, Guarded, ActiveIsPersisted, InUse

LEMMA CloudMails ==
  ASSUME TypeOK, NEW l \in Key, Cloud(l), NEW k \in Key, mail'[k] \notin {mail[k], "NONE"}
  PROVE  ~Dead(k) /\ (mail'[k] \in Final => Dead(k)')
BY DEF Cloud, CoordinatorRuns, CoordinatorCrashes, CoordinatorReports,
       CoordinatorEnds, PodRemoved, HeartbeatLost, Dead, TypeOK, Final

LEMMA CloudOrderly ==
  ASSUME OInv, NEW l \in Key, Cloud(l)
  PROVE  Orderly'
<1>0. TypeOK /\ SInv
  BY ParentInv
<1>1. UNCHANGED schedVars
  BY CloudSteps
<1>2. \A k \in Key : (coord[k] = "NONE" => coord'[k] = "NONE") /\ (Dead(k) => Dead(k)')
  BY <1>0, CloudPods
<1>3. \A k \in Key : \/ mail'[k] \in {mail[k], "NONE"}
                     \/ ~Dead(k) /\ (mail'[k] \in Final => Dead(k)')
  BY <1>0, CloudMails
<1>k. \A t \in Task : task[t].op # "idle" => Mine(t).key \in Key
  BY <1>0, TaskMoves DEF JobRecord
<1>4. QueuedRest'
  BY <1>1 DEF OInv, Orderly, QueuedRest, schedVars, Queued, RunsOn
<1>5. StartsAlone'
  <2> SUFFICES ASSUME NEW t \in Task, EarlyStart(t)
               PROVE  Alone(t)'
    BY <1>1 DEF StartsAlone, EarlyStart, schedVars
  <2>1. Alone(t) /\ Mine(t).key \in Key
    BY <1>k DEF OInv, Orderly, StartsAlone, EarlyStart
  <2>2. Dead(Mine(t).key)'
    BY <1>1, <1>2, <2>1 DEF Alone, Mine, Me, schedVars
  <2>3. Mine(t).first => mail'[Mine(t).key] = "NONE"
    BY <1>3, <2>1 DEF Alone
  <2> QED BY <1>1, <2>1, <2>2, <2>3 DEF Alone, Mine, Me, schedVars, RunsOn, At
<1>6. RestIsDead'
  BY <1>1, <1>2 DEF OInv, Orderly, RestIsDead, schedVars
<1>7. EndsHeld'
  BY <1>1, <1>2 DEF OInv, Orderly, EndsHeld, Held, WorksFor, Mine, Me, schedVars
<1>8. ToldTrue'
  BY <1>1, <1>2, <1>k DEF OInv, Orderly, ToldTrue, Told, Undone, At, Mine, Me, schedVars
<1>9. LastReport'
  BY <1>1, <1>2, <1>3, PoolAssumption DEF OInv, Orderly, LastReport, schedVars, Final
<1>10. EndStates'
  BY <1>1 DEF OInv, Orderly, EndStates, Mine, Me, schedVars
<1> QED BY <1>4, <1>5, <1>6, <1>7, <1>8, <1>9, <1>10 DEF Orderly

-----------------------------------------------------------------------------
(* The coroutines.                                                           *)

\* What a coroutine does to pods: it creates one, or tells one to stop.
LEMMA WorkPods ==
  ASSUME TypeOK, NEW t \in Task, Proceeds(t) \/ Suffers(t), NEW k \in Key
  PROVE  /\ mail' = mail
         /\ \/ Creates(t, k) /\ coord[k] = "NONE" /\ Moves(t, "poll")
            \/ (coord[k] = "NONE" => coord'[k] = "NONE") /\ (Dead(k) => Dead(k)')
<1>1. CASE PodCreated(t) /\ Mine(t).key = k /\ coord[k] = "NONE"
  BY <1>1 DEF PodCreated, Creates, At
<1>2. CASE PodCreated(t) /\ ~(Mine(t).key = k /\ coord[k] = "NONE")
  BY <1>2 DEF PodCreated, TypeOK, Dead
<1>3. CASE StopSent(t)
  BY <1>3 DEF StopSent, TypeOK, Dead
<1>4. CASE ~PodCreated(t) /\ ~StopSent(t)
  <2>1. UNCHANGED <<coord, mail>>
    BY <1>4
       DEF Proceeds, ReadPhase, StartStep, DeletionStep, StopStep, EndStep, Suffers,
           ClientsEnough, CheckAgain, RouteAdded, PodPolled, PollAgain,
           PodDeleted, PodGone, StartReleased, StopPolled, StopWaited,
           StopEnds, DeleteEnds, ClientsScarce, ClientsUnknown, RetrySkipped,
           CreateRaises, StopGivesUp, StopAborts, cloudVars
  <2> QED BY <2>1 DEF Dead
<1> QED BY <1>1, <1>2, <1>3, <1>4

\* The creation of a pod.
LEMMA CreationOrderly ==
  ASSUME OInv, NEW t \in Task, Proceeds(t) \/ Suffers(t), NEW k \in Key,
         Creates(t, k), Moves(t, "poll")
  PROVE  Orderly'
<1>0. TypeOK /\ SInv /\ GInv
  BY ParentInv
<1>1. task[t].op = "start" /\ EarlyStart(t) /\ Mine(t).key = k
  BY DEF Creates, EarlyStart, Early
<1>2. PICK c \in Obj : c = Me(t) /\ Mine(t) = job[c] /\ RunsOn(t, c) /\ InUse(c)
  BY <1>0, <1>1, TaskOps
<1>3. Alone(t)
  BY <1>1 DEF OInv, Orderly, StartsAlone
<1>4. /\ UNCHANGED <<db, active, queue, job>> /\ mail' = mail
      /\ \A u \in Task : u # t => task'[u] = task[u]
      /\ task'[t].op = "start" /\ task'[t].pc = "poll" /\ task'[t].seen = "UNREAD" /\ Me(t)' = c
  <2>1. task' = Goto(t, "poll")
    BY DEF Moves
  <2>2. \A u \in Task : u # t => task'[u] = task[u]
    BY <1>0, <2>1 DEF Goto, TypeOK
  <2>3. /\ task'[t].op = task[t].op /\ task'[t].obj = task[t].obj
        /\ task'[t].pc = "poll" /\ task'[t].seen = "UNREAD"
    BY <1>0, <1>2, <2>1, PlainMoves DEF RunsOn
  <2> QED BY <1>0, <1>1, <1>2, <2>2, <2>3, WorkPods DEF Moves, Me
<1>5. \A l \in Key : l # k => (coord[l] = "NONE" => coord'[l] = "NONE") /\ (Dead(l) => Dead(l)')
  BY <1>0, <1>1, WorkPods DEF Creates
<1>6. ASSUME NEW u \in Task, u # t, task'[u].op # "idle", Mine(u)'.key = k
      PROVE  At(u, "stop", "await")
  <2>1. task[u].op # "idle" /\ Mine(u).key = k
    BY <1>4, <1>6 DEF Mine, Me
  <2>2. RunsOn(u, Me(t))
    BY <1>0, <1>1, <2>1, SameJob DEF RunsOn, Me
  <2> QED BY <1>3, <1>6, <2>2 DEF Alone
<1>7. \A u \in Task : task'[u].op # "idle" => /\ Mine(u)'.key \in Key /\ Mine(u)' = Mine(u)
                                              /\ task[u].op # "idle"
  <2>1. \A u \in Task : task'[u].op # "idle" => Me(u)' = Me(u) /\ task[u].op # "idle"
    BY <1>1, <1>2, <1>4 DEF Me
  <2>2. \A u \in Task : task'[u].op # "idle" => Mine(u)' = Mine(u)
    BY <1>4, <2>1 DEF Mine
  <2> QED BY <1>0, <2>1, <2>2, TaskMoves DEF JobRecord
<1>8. RunsOn(t, c)' /\ \A u \in Task, o \in Obj : RunsOn(u, o)' <=> RunsOn(u, o)
  BY <1>1, <1>2, <1>4 DEF RunsOn, Me
<1>9. QueuedRest'
  BY <1>4, <1>8 DEF OInv, Orderly, QueuedRest, Queued
<1>10. StartsAlone'
  <2> SUFFICES ASSUME NEW u \in Task, EarlyStart(u)'
               PROVE  Alone(u)'
    BY DEF StartsAlone
  <2>1. u # t
    BY <1>4 DEF EarlyStart, Early
  <2>2. task'[u] = task[u] /\ EarlyStart(u) /\ task'[u].op # "idle" /\ Alone(u)
    BY <1>4, <2>1 DEF EarlyStart, OInv, Orderly, StartsAlone
  <2>3. Mine(u)'.key # k
    BY <1>6, <2>1, <2>2 DEF EarlyStart, At
  <2>4. Mine(u)' = Mine(u) /\ Me(u)' = Me(u) /\ Mine(u).key \in Key /\ Mine(u).key # k
    BY <1>7, <2>2, <2>3 DEF Me
  <2>5. \A v \in Task : RunsOn(v, Me(u))' => v # t /\ task'[v] = task[v] /\ RunsOn(v, Me(u))
    <3>1. Me(u) # c
      BY <1>1, <1>2, <2>4 DEF Mine
    <3> QED BY <1>1, <1>2, <1>4, <3>1, <2>4 DEF RunsOn, Me
  <2> QED BY <1>4, <1>5, <2>2, <2>4, <2>5 DEF Alone, At
<1>11. RestIsDead'
  <2>1. db[k] \notin Resting
    BY <1>0, <1>1, <1>3, WorkSteady DEF Alone, Resting
  <2> QED BY <1>4, <1>5, <2>1 DEF OInv, Orderly, RestIsDead
<1>12. EndsHeld'
  <2>1. db[k] \notin {"FINISHED", "STOPPED"}
    BY <1>0, <1>1, <1>3, WorkSteady DEF Alone
  <2>2. \A u \in Task, l \in Key : WorksFor(u, l, {"heartbeat"}) => WorksFor(u, l, {"heartbeat"})'
    BY <1>1, <1>4 DEF WorksFor, Mine, Me
  <2>3. \A u \in Task, l \in Key : WorksFor(u, l, {"stop"}) => WorksFor(u, l, {"stop"})'
    BY <1>1, <1>4 DEF WorksFor, Mine, Me
  <2>4. \A u \in Task, l \in Key : WorksFor(u, l, {"stop", "delete"}) => WorksFor(u, l, {"stop", "delete"})'
    BY <1>1, <1>4 DEF WorksFor, Mine, Me
  <2> QED BY <1>4, <1>5, <2>1, <2>2, <2>3, <2>4 DEF OInv, Orderly, EndsHeld, Held
<1>13. ToldTrue'
  <2> SUFFICES ASSUME NEW u \in Task, task'[u].op # "idle"
               PROVE  Told(u)'
    BY DEF ToldTrue
  <2>1. CASE u = t
    BY <1>4, <2>1 DEF Told, Undone, At
  <2>2. CASE u # t /\ Mine(u)'.key = k
    BY <1>4, <1>6, <2>2 DEF Told, Undone, At
  <2>3. CASE u # t /\ Mine(u)'.key # k
    <3>1. Told(u) /\ task'[u] = task[u] /\ Mine(u)' = Mine(u) /\ Mine(u).key \in Key
      BY <1>4, <1>7, <2>3 DEF OInv, Orderly, ToldTrue
    <3> QED BY <1>5, <2>3, <3>1 DEF Told, Undone, At
  <2> QED BY <2>1, <2>2, <2>3
<1>14. LastReport'
  <2>1. active[k] # NoObj /\ job[active[k]].first => mail[k] = "NONE"
    <3> SUFFICES ASSUME active[k] # NoObj, job[active[k]].first
                 PROVE  mail[k] = "NONE"
      OBVIOUS
    <3>1. active[k] = c
      BY <1>0, <1>1, <1>2, ActiveObject DEF SInv, Single, OneObject
    <3> QED BY <1>1, <1>2, <1>3, <3>1 DEF Alone
  <2> QED BY <1>4, <1>5, <2>1 DEF OInv, Orderly, LastReport, Final
<1>15. EndStates'
  BY <1>4, <1>7 DEF OInv, Orderly, EndStates
<1> QED BY <1>9, <1>10, <1>11, <1>12, <1>13, <1>14, <1>15 DEF Orderly

\* Everything else a coroutine does leaves dead what is dead.
LEMMA WorkOrderly ==
  ASSUME MaxFaults = 0, OInv, NEW t \in Task, Proceeds(t) \/ Suffers(t),
         \A k \in Key : (coord[k] = "NONE" => coord'[k] = "NONE") /\ (Dead(k) => Dead(k)')
  PROVE  Orderly'
<1>0. TypeOK /\ SInv /\ GInv /\ CInv /\ Calm /\ Orderly
  BY ParentInv
<1>1. PICK c \in Obj : c = Me(t)
  BY <1>0, WorkSteady
<1>2. /\ task[t].op # "idle" /\ Steady(t) /\ Mine(t) = job[c] /\ InUse(c) /\ RunsOn(t, c)
      /\ HasRecord(Mine(t).key) /\ db[Mine(t).key] = Mine(t).state
      /\ Mine(t).key \in Key /\ task[t].op \in Op
  BY <1>0, <1>1, WorkSteady, TaskOps, InUseRecorded
<1>3. /\ Restates(t, job'[c].state) /\ job'[c].first = job[c].first
      /\ job'[c].timer => job[c].timer \/ At(t, "start", "poll")
  BY <1>0, <1>1, <1>2, CoroutineStates
<1>4. /\ mail' = mail /\ queue' = queue
      /\ \A o \in Obj : job'[o].key = job[o].key /\ job'[o].first = job[o].first
      /\ \A o \in Obj : o # c => job'[o] = job[o]
  BY <1>0, <1>1, <1>2, <1>3, WorkPods DEF Steady
<1>5. \A u \in Task : u # t => task'[u] = task[u]
  BY <1>2 DEF Steady
<1>6. \A u \in Task : task'[u].op # "idle" =>
        /\ task[u].op = task'[u].op /\ Me(u)' = Me(u) /\ Me(u) \in Obj
        /\ Mine(u)'.key = Mine(u).key /\ Mine(u).key \in Key
        /\ task'[u] # NoRun
  <2>1. \A u \in Task : task'[u].op # "idle" => task[u].op = task'[u].op /\ Me(u)' = Me(u)
    BY <1>2 DEF Steady, NoRun, Me
  <2>2. \A u \in Task : task[u].op # "idle" => Me(u) \in Obj /\ Mine(u).key \in Key
    BY <1>0, TaskMoves DEF JobRecord
  <2> QED BY <1>4, <2>1, <2>2 DEF NoRun, Mine, Me
<1>7. \A o \in Obj, u \in Task : RunsOn(u, o)' => RunsOn(u, o)
  BY <1>6 DEF RunsOn, Me

\* The record of the job.
<1>8. \A k \in Key : \/ db'[k] = db[k]
                     \/ k = Mine(t).key /\ DeleteEnds(t) /\ db'[k] = "ABSENT"
                     \/ k = Mine(t).key /\ db'[k] = job'[c].state /\ db[k] = job[c].state /\ ~DeleteEnds(t)
  <2>1. CASE DeleteEnds(t)
    BY <1>0, <2>1 DEF DeleteEnds, TypeOK
  <2>2. CASE ~DeleteEnds(t)
    BY <1>0, <1>1, <1>2, <2>2, CoroutineWrites DEF WritesState, Record, TypeOK, Mine
  <2> QED BY <2>1, <2>2
<1>9. QueuedRest'
  <2>1. ~Queued(c)
    BY <1>0, <1>2 DEF Orderly, QueuedRest
  <2> QED BY <1>0, <1>4, <1>7, <2>1 DEF Orderly, QueuedRest, Queued
<1>10. StartsAlone'
  <2> SUFFICES ASSUME NEW u \in Task, EarlyStart(u)'
               PROVE  Alone(u)'
    BY DEF StartsAlone
  <2>1. /\ task[u].op = "start" /\ Me(u)' = Me(u) /\ Me(u) \in Obj
        /\ Mine(u).key \in Key /\ Mine(u)'.key = Mine(u).key /\ task'[u] # NoRun
    BY <1>6 DEF EarlyStart
  <2>2. EarlyStart(u)
    <3>1. CASE u = t
      BY <1>0, <2>1, <3>1, CoroutinePaths DEF EarlyStart
    <3>2. CASE u # t
      BY <1>5, <3>2 DEF EarlyStart
    <3> QED BY <3>1, <3>2
  <2>3. Alone(u)
    BY <1>0, <2>2 DEF Orderly, StartsAlone
  <2>4. Me(u) = c => u = t
    <3> SUFFICES ASSUME Me(u) = c, u # t
                 PROVE  FALSE
      OBVIOUS
    <3>1. At(t, "stop", "await") /\ ~job[c].released
      BY <1>2, <2>3 DEF Alone, Mine
    <3>2. task'[t] # NoRun
      BY <1>0, <3>1, CoroutineEnds DEF At, StopEnds, DeleteEnds
    <3> QED BY <1>0, <1>2, <3>1, <3>2, CoroutinePaths DEF At
  <2>5. CASE u # t
    <3>1. job'[Me(u)] = job[Me(u)]
      BY <1>4, <2>1, <2>4, <2>5
    <3>2. \A v \in Task : RunsOn(v, Me(u))' => v # t /\ task'[v] = task[v] /\ RunsOn(v, Me(u))
      BY <1>1, <1>5, <1>7, <2>1, <2>4, <2>5 DEF RunsOn, Me
    <3> QED BY <1>4, <2>1, <2>3, <3>1, <3>2 DEF Alone, Mine, At
  <2>6. CASE u = t
    <3>1. task[t].pc \in Early /\ task'[t].pc # "poll"
      BY <2>2, <2>6 DEF EarlyStart, Early
    <3>2. job'[c].released = job[c].released
      BY <1>0, <1>1, <1>2, <2>1, <2>6, <3>1, CoroutinePaths
    <3>3. job'[c].state \in {"STARTING", "PENDING", "STOPPING"} /\ ~job'[c].timer
      <4>1. task[t].pc # "poll" /\ task[t].op = "start"
        BY <2>1, <2>6, <3>1 DEF Early
      <4> QED BY <1>2, <1>3, <2>3, <2>6, <4>1 DEF Alone, Restates, At
    <3>4. \A v \in Task : RunsOn(v, c)' /\ v # t => At(v, "stop", "await")' /\ ~job'[c].released
      BY <1>1, <1>2, <1>5, <1>7, <2>3, <2>6, <3>2 DEF Alone, At
    <3>5. Mine(t)' = job'[c] /\ Me(t)' = c
      BY <1>1, <2>1, <2>6 DEF Mine, Me
    <3> QED BY <1>2, <1>4, <2>1, <2>3, <2>6, <3>3, <3>4, <3>5 DEF Alone
  <2> QED BY <2>5, <2>6
<1>11. RestIsDead'
  <2> SUFFICES ASSUME NEW k \in Key, db'[k] \in Resting, db'[k] # db[k]
               PROVE  Dead(k)
    BY <1>0 DEF Orderly, RestIsDead
  <2>1. k = Mine(t).key /\ db'[k] = job'[c].state /\ job'[c].state # job[c].state
    BY <1>8 DEF Resting
  <2>2. Told(t)
    BY <1>0, <1>2 DEF Orderly, ToldTrue
  <2> QED BY <1>2, <1>3, <2>1, <2>2 DEF Restates, Resting, Told, Undone, At, Dead
<1>12. EndsHeld'
  <2> SUFFICES ASSUME NEW k \in Key
               PROVE  Held(k)'
    BY DEF EndsHeld
  <2>1. Held(k) /\ Told(t)
    BY <1>0, <1>2 DEF Orderly, EndsHeld, ToldTrue
  <2>2. ASSUME db'[k] = "FINISHED"
        PROVE  coord'[k] = "NONE" \/ \E u \in Task : WorksFor(u, k, {"heartbeat"})'
    <3>1. db[k] = "FINISHED"
      BY <1>2, <1>3, <1>8, <2>2 DEF Restates
    <3>2. CASE coord[k] = "NONE"
      BY <3>2
    <3>3. CASE \E u \in Task : WorksFor(u, k, {"heartbeat"})
      <4>1. PICK u \in Task : task[u].op = "heartbeat" /\ Mine(u).key = k
        BY <3>3 DEF WorksFor
      <4>2. CASE task'[u].op = "heartbeat"
        BY <1>6, <4>1, <4>2 DEF WorksFor
      <4>3. CASE task'[u].op # "heartbeat"
        <5>1. u = t /\ task'[t] = NoRun
          BY <1>2, <1>5, <4>1, <4>3 DEF Steady
        <5>2. coord[k] = "NONE"
          BY <1>0, <2>1, <4>1, <5>1, CoroutineEnds DEF StopEnds, DeleteEnds, At, Told, Undone
        <5> QED BY <5>2
      <4> QED BY <4>2, <4>3
    <3> QED BY <2>1, <3>1, <3>2, <3>3 DEF Held
  <2>3. ASSUME db'[k] = "STOPPED"
        PROVE  coord'[k] = "NONE" \/ \E u \in Task : WorksFor(u, k, {"stop"})'
    <3>1. CASE db[k] # "STOPPED"
      <4>1. k = Mine(t).key /\ task[t].pc = "unroute"
        BY <1>2, <1>3, <1>8, <2>3, <3>1 DEF Restates, At
      <4> QED BY <2>1, <4>1 DEF Told, Undone
    <3>2. CASE coord[k] = "NONE"
      BY <3>2
    <3>3. CASE \E u \in Task : WorksFor(u, k, {"stop"})
      <4>1. PICK u \in Task : task[u].op = "stop" /\ Mine(u).key = k
        BY <3>3 DEF WorksFor
      <4>2. CASE task'[u].op = "stop"
        BY <1>6, <4>1, <4>2 DEF WorksFor
      <4>3. CASE task'[u].op # "stop"
        <5>1. u = t /\ task'[t] = NoRun
          BY <1>2, <1>5, <4>1, <4>3 DEF Steady
        <5>2. coord[k] = "NONE"
          BY <1>0, <2>1, <4>1, <5>1, CoroutineEnds DEF StopEnds, DeleteEnds, At, Told, Undone
        <5> QED BY <5>2
      <4> QED BY <4>2, <4>3
    <3> QED BY <2>1, <3>1, <3>2, <3>3 DEF Held
  <2>4. ASSUME active'[k] = NoObj
        PROVE  \/ db'[k] \in {"ABSENT"} \cup Final
               \/ \E u \in Task : WorksFor(u, k, {"stop", "delete"})'
    <3> SUFFICES ASSUME db'[k] \notin {"ABSENT"} \cup Final
                 PROVE  \E u \in Task : WorksFor(u, k, {"stop", "delete"})'
      OBVIOUS
    <3>d. ~(DeleteEnds(t) /\ k = Mine(t).key)
      BY <1>0 DEF DeleteEnds, TypeOK
    <3>s. k = Mine(t).key => db'[k] = job'[c].state
      BY <1>0, <1>1, <1>2, <3>d, CoroutineWrites DEF WritesState, Record, TypeOK, Mine
    <3>1. active[k] = NoObj
      <4> SUFFICES ASSUME active[k] # NoObj
                   PROVE  FALSE
        OBVIOUS
      <4>1. /\ active' = Finish(Mine(t).key)
            /\ \/ job'[c].state \in {"STOPPED", "FAILED"}
               \/ task[t].op = "delete" /\ DeleteEnds(t)
               \/ task[t].op = "heartbeat"
        BY <1>0, <1>1, <2>4, CoroutineStates
      <4>2. k = Mine(t).key
        BY <1>0, <1>2, <2>4, <4>1, FinishSteady
      <4>3. task[t].op = "heartbeat"
        BY <3>d, <3>s, <4>1, <4>2 DEF Final
      <4>4. job[c].state \in {"FINISHED", "FAILED"}
        BY <1>0, <1>2, <4>3 DEF Orderly, EndStates
      <4>5. job'[c].state = job[c].state
        BY <1>3, <1>2, <4>3 DEF Restates, At
      <4> QED BY <3>s, <4>2, <4>4, <4>5 DEF Final
    <3>2. CASE db[k] \in {"ABSENT"} \cup Final
      <4>1. db'[k] # db[k] /\ k = Mine(t).key
        BY <1>8, <3>2
      <4>2. job'[c].state # job[c].state /\ job[c].state \in Final
        BY <1>2, <3>2, <3>s, <4>1 DEF HasRecord
      <4>3. At(t, "start", "check")
        BY <1>2, <1>3, <3>s, <4>1, <4>2 DEF Restates, Final
      <4>4. Alone(t)
        BY <1>0, <4>3 DEF Orderly, StartsAlone, EarlyStart, Early, At
      <4> QED BY <1>2, <4>2, <4>4 DEF Alone, Final
    <3>3. CASE \E u \in Task : WorksFor(u, k, {"stop", "delete"})
      <4>1. PICK u \in Task : task[u].op \in {"stop", "delete"} /\ Mine(u).key = k
        BY <3>3 DEF WorksFor
      <4>2. CASE task'[u] = NoRun
        <5>1. u = t
          BY <1>5, <4>1, <4>2 DEF NoRun
        <5>2. StopEnds(t)
          BY <1>0, <3>d, <4>1, <4>2, <5>1, CoroutineEnds
        <5>3. job[c].state \in {"STOPPING", "STOPPED", "FAILED"}
          BY <1>0, <1>2, <5>2 DEF Calm, StopStates, StopEnds, At
        <5>4. job'[c].state \in {"STOPPED", "FAILED"}
          BY <1>0, <1>1, <1>2, <5>2, <5>3 DEF StopEnds, TypeOK, JobRecord
        <5> QED BY <3>s, <4>1, <5>1, <5>4 DEF Final
      <4>3. CASE task'[u] # NoRun
        <5>1. task'[u].op = task[u].op
          BY <1>2, <1>5, <4>3 DEF Steady
        <5> QED BY <1>6, <4>1, <5>1 DEF WorksFor
      <4> QED BY <4>2, <4>3
    <3> QED BY <2>1, <3>1, <3>2, <3>3 DEF Held
  <2> QED BY <2>2, <2>3, <2>4 DEF Held
<1>13. ToldTrue'
  <2> SUFFICES ASSUME NEW u \in Task, task'[u].op # "idle"
               PROVE  Told(u)'
    BY DEF ToldTrue
  <2>1. task[u].op # "idle" /\ Told(u) /\ Mine(u)'.key = Mine(u).key /\ Mine(u).key \in Key
    BY <1>0, <1>6 DEF Orderly, ToldTrue
  <2>2. CASE u # t
    BY <1>5, <2>1, <2>2 DEF Told, Undone, At
  <2>3. CASE u = t
    <3>1. /\ task'[t].pc = "unroute" =>
               \/ task[t].pc = "del" /\ coord[Mine(t).key] = "NONE"
               \/ task[t].pc = "gone" /\ task[t].seen = "NONE"
          /\ task'[t].seen # "UNREAD" => task'[t].seen = Phase(Mine(t).key)
      BY <1>0, <1>6, <2>3, GoneSteps
    <3>2. /\ Phase(Mine(t).key) = "NONE" => coord[Mine(t).key] = "NONE"
          /\ Phase(Mine(t).key) = "FAILED" => Dead(Mine(t).key)
      <4>1. coord[Mine(t).key] \in CoordState
        BY <1>0, <1>2 DEF TypeOK
      <4> QED BY <4>1 DEF Phase, CoordState, Dead
    <3>3. Undone(t)' => coord'[Mine(t).key] = "NONE"
      BY <1>2, <2>1, <2>3, <3>1, <3>2 DEF Undone, Told
    <3>4. At(t, "start", "poll")' /\ task'[t].seen = "FAILED" =>
            coord'[Mine(t).key] \in {"NONE", "EXITED", "CRASHED"}
      BY <1>2, <3>1, <3>2 DEF Dead, At
    <3>5. Mine(t)'.key = Mine(t).key
      BY <2>1, <2>3
    <3> QED BY <2>3, <3>3, <3>4, <3>5 DEF Told, Dead
  <2> QED BY <2>2, <2>3
<1>14. LastReport'
  <2> SUFFICES ASSUME NEW k \in Key, active'[k] # NoObj, mail'[k] \in Final,
                      job'[active'[k]].first
               PROVE  Dead(k)'
    BY DEF LastReport
  <2>1. active'[k] = active[k] /\ active[k] \in Obj
    BY <1>0, <1>2 DEF Steady, TypeOK
  <2> QED BY <1>0, <1>4, <2>1 DEF Orderly, LastReport
<1>15. EndStates'
  <2> SUFFICES ASSUME NEW u \in Task, task'[u].op = "heartbeat"
               PROVE  job'[Me(u)].state \in {"FINISHED", "FAILED"}
    BY <1>6 DEF EndStates, Mine, Me
  <2>1. /\ task[u].op = "heartbeat" /\ Me(u) \in Obj /\ RunsOn(u, Me(u))
        /\ job[Me(u)].state \in {"FINISHED", "FAILED"}
    BY <1>0, <1>6 DEF Orderly, EndStates, Mine, RunsOn, Me
  <2>2. CASE Me(u) = c
    <3>1. ~At(t, "start", "check")
      <4> SUFFICES ASSUME At(t, "start", "check")
                   PROVE  FALSE
        OBVIOUS
      <4>1. Alone(t)
        BY <1>0 DEF Orderly, StartsAlone, EarlyStart, Early, At
      <4> QED BY <1>2, <2>1, <2>2, <4>1 DEF Alone
    <3> QED BY <1>2, <1>3, <2>1, <2>2, <3>1 DEF Restates
  <2> QED BY <1>4, <2>1, <2>2
<1> QED BY <1>9, <1>10, <1>11, <1>12, <1>13, <1>14, <1>15 DEF Orderly

-----------------------------------------------------------------------------
(* The steps that are neither a coroutine's nor the cloud's leave the pods   *)
(* alone, and of the mail they take at most what is delivered.               *)

LEMMA HeldStays ==
  ASSUME Patient, SInv, Else, NEW k \in Key, Held(k),
         coord' = coord, db'[k] = db[k], active'[k] # NoObj \/ active[k] = NoObj
  PROVE  Held(k)'
<1>1. ASSUME NEW ops, NEW t \in Task, ops \subseteq Op, WorksFor(t, k, ops)
      PROVE  task'[t].op \in ops /\ Mine(t)'.key = k
  <2>1. task[t].op \in ops /\ task[t].op # "idle" /\ Mine(t).key = k
    BY <1>1 DEF WorksFor, Op
  <2>2. task'[t] = task[t]
    BY <2>1, NewRuns
  <2>3. job'[Me(t)].key = job[Me(t)].key
    BY <2>1, TaskOps, InUseKeeps DEF SInv, IInv
  <2> QED BY <2>1, <2>2, <2>3 DEF Mine, Me
<1>2. (\E t \in Task : WorksFor(t, k, {"heartbeat"})) => \E t \in Task : WorksFor(t, k, {"heartbeat"})'
  BY <1>1 DEF WorksFor, Op
<1>3. (\E t \in Task : WorksFor(t, k, {"stop"})) => \E t \in Task : WorksFor(t, k, {"stop"})'
  BY <1>1 DEF WorksFor, Op
<1>4. (\E t \in Task : WorksFor(t, k, {"stop", "delete"})) =>
        \E t \in Task : WorksFor(t, k, {"stop", "delete"})'
  BY <1>1 DEF WorksFor, Op
<1> QED BY <1>2, <1>3, <1>4 DEF Held

LEMMA ElseOrderly ==
  ASSUME Patient, OInv, Else, coord' = coord, \A k \in Key : mail'[k] \in {mail[k], "NONE"},
         SchedTypeOK', ActiveIsPersisted', NEW c \in Obj, Concerns(c),
         Queued(c)' => job'[c].state \in Resting /\ \A u \in Task : ~RunsOn(u, c)',
         \A u \in Task : EarlyStart(u)' /\ RunsOn(u, c)' => Alone(u)',
         \A k \in Key : db'[k] = db[k] \/ (db'[k] \in Resting => Dead(k)),
         \A k \in Key : \/ db'[k] = db[k] /\ (active'[k] # NoObj \/ active[k] = NoObj)
                        \/ Held(k)',
         \A k \in Key : active'[k] = c /\ mail'[k] \in Final /\ job'[c].first => Dead(k),
         \A u \in Task : task'[u].op = "heartbeat" /\ RunsOn(u, c)' =>
           job'[c].state \in {"FINISHED", "FAILED"}
  PROVE  Orderly'
<1>0. TypeOK /\ SInv /\ Orderly
  BY ParentInv
<1>1. \A u \in Task : task'[u].op # "idle" => \E o \in Obj : o = Me(u)' /\ RunsOn(u, o)'
  BY DEF SchedTypeOK, TaskRecord, NoRun, Me, RunsOn
<1>2. ASSUME NEW u \in Task, NEW o \in Obj, o # c, RunsOn(u, o)'
      PROVE  task'[u] = task[u] /\ RunsOn(u, o) /\ job'[o] = job[o] /\ job[o].key \in Key
  <2>1. RunsOn(u, o) /\ job'[o] = job[o]
    BY <1>2 DEF Concerns
  <2> QED BY <1>0, <2>1, NewRuns DEF RunsOn, TypeOK, JobRecord
<1>3. QueuedRest'
  <2> SUFFICES ASSUME NEW o \in Obj, o # c, Queued(o)'
               PROVE  job'[o].state \in Resting /\ \A u \in Task : ~RunsOn(u, o)'
    BY DEF QueuedRest
  <2>1. Queued(o) /\ job'[o] = job[o]
    BY DEF Concerns
  <2> QED BY <1>0, <1>2, <2>1 DEF Orderly, QueuedRest
<1>4. StartsAlone'
  <2> SUFFICES ASSUME NEW u \in Task, EarlyStart(u)', NEW o \in Obj, o = Me(u)', RunsOn(u, o)', o # c
               PROVE  Alone(u)'
    BY <1>1 DEF StartsAlone, EarlyStart
  <2>1. task'[u] = task[u] /\ job'[o] = job[o] /\ Me(u) = o /\ job[o].key \in Key
    BY <1>2 DEF Me
  <2>2. Alone(u)
    BY <1>0, <2>1 DEF Orderly, StartsAlone, EarlyStart
  <2>3. \A v \in Task : RunsOn(v, o)' => RunsOn(v, o) /\ task'[v] = task[v]
    BY <1>2
  <2> QED BY <2>1, <2>2, <2>3 DEF Alone, Mine, Me, At, Dead
<1>5. RestIsDead'
  BY <1>0 DEF Orderly, RestIsDead, Dead
<1>6. EndsHeld'
  BY <1>0, HeldStays DEF Orderly, EndsHeld
<1>7. ToldTrue'
  <2> SUFFICES ASSUME NEW u \in Task, task'[u].op # "idle"
               PROVE  Told(u)'
    BY DEF ToldTrue
  <2>1. CASE task'[u] # task[u]
    <3>1. task'[u].op \in Op /\ task'[u].pc \in FirstPcs[task'[u].op] /\ task'[u].seen = "UNREAD"
      BY <1>0, <2>1, NewRuns
    <3> QED BY <3>1 DEF Told, Undone, At, FirstPcs, Op
  <2>2. CASE task'[u] = task[u]
    <3>1. Told(u) /\ Me(u)' = Me(u) /\ Me(u) \in Obj /\ InUse(Me(u))
      BY <1>0, <2>2, TaskOps DEF Orderly, ToldTrue, Me
    <3>2. Mine(u)'.key = Mine(u).key
      BY <1>0, <3>1, InUseKeeps DEF Mine
    <3> QED BY <2>2, <3>1, <3>2 DEF Told, Undone, At, Dead
  <2> QED BY <2>1, <2>2
<1>8. LastReport'
  <2> SUFFICES ASSUME NEW k \in Key, active'[k] # NoObj, active'[k] # c, mail'[k] \in Final,
                      job'[active'[k]].first
               PROVE  Dead(k)
    BY DEF LastReport, Dead
  <2>1. active'[k] \in Obj
    BY DEF SchedTypeOK
  <2>2. active[k] = active'[k] /\ job'[active[k]] = job[active[k]]
    BY <2>1 DEF Concerns
  <2>3. mail'[k] = mail[k]
    BY DEF Final
  <2> QED BY <1>0, <2>2, <2>3 DEF Orderly, LastReport
<1>9. EndStates'
  <2> SUFFICES ASSUME NEW u \in Task, task'[u].op = "heartbeat",
                      NEW o \in Obj, o = Me(u)', RunsOn(u, o)', o # c
               PROVE  job'[o].state \in {"FINISHED", "FAILED"}
    BY <1>1 DEF EndStates, Mine, Me
  <2> QED BY <1>0, <1>2 DEF Orderly, EndStates, Me, Mine
<1> QED BY <1>3, <1>4, <1>5, <1>6, <1>7, <1>8, <1>9 DEF Orderly

LEMMA BeginOrderly ==
  ASSUME Patient, OInv, Else, coord' = coord, mail' = mail, SchedTypeOK', ActiveIsPersisted',
         NEW c \in Obj, InUse(c), NEW t \in Task, task[t].op = "idle", Begin(c, t),
         \A u \in Task : ~RunsOn(u, c), Dead(job[c].key), active[job[c].key] # NoObj,
         ~Queued(c)', \A o \in Obj : Queued(o)' => Queued(o)
  PROVE  Orderly'
<1>0. SInv /\ TypeOK /\ Orderly
  BY ParentInv
<1>k. PICK k \in Key : k = job[c].key
  BY <1>0, BeginObject
<1>1. /\ job'[c].key = k
      /\ \A o \in Obj : o # c => job'[o] = job[o]
      /\ ~job'[c].first /\ ~job'[c].timer
      /\ db' = Record(k, job'[c].state)
      /\ \/ /\ job'[c].state = "STARTING" /\ task' = [task EXCEPT ![t] = Run("start", c, "check")]
            /\ active' = active
         \/ job'[c].state = "FAILED" /\ task' = task /\ active' = Finish(k)
  BY <1>0, <1>k, BeginObject
<1>2. \A l \in Key, o \in Obj : active'[l] = o => active[l] = o
  BY <1>0, <1>1, FinishSteady, PoolAssumption
<1>3. \A u \in Task : RunsOn(u, c)' => u = t /\ task'[t] = Run("start", c, "check") /\ job'[c].state = "STARTING"
  BY <1>0, <1>1 DEF RunsOn, TypeOK
<1>4. \A o \in Obj, u \in Task : o # c /\ RunsOn(u, o)' => RunsOn(u, o) /\ task'[u].op = task[u].op
  BY <1>0, <1>1 DEF RunsOn, Run, TypeOK
<1>5. Concerns(c)
  BY <1>1, <1>2, <1>4 DEF Concerns
<1>6. \A l \in Key : db'[l] = IF l = k THEN job'[c].state ELSE db[l]
  <2>1. HasRecord(k)
    BY <1>0, <1>k, InUseRecorded
  <2> QED BY <1>0, <1>1, <2>1 DEF Record, TypeOK
<1>7. \A l \in Key : l # k => active'[l] = active[l]
  BY <1>0, <1>1, FinishSteady
<1>8. Held(k)'
  BY <1>1, <1>6, <1>k DEF Held, Final
<1>9. ASSUME NEW u \in Task, EarlyStart(u)', RunsOn(u, c)'
      PROVE  Alone(u)'
  <2>1. Me(u)' = c /\ u = t
    BY <1>3, <1>9 DEF Me, Run
  <2>2. Mine(u)' = job'[c] /\ Mine(u)'.key = k
    BY <1>1, <2>1 DEF Mine, Me
  <2>3. \A v \in Task : RunsOn(v, c)' => v = t
    BY <1>3
  <2> QED BY <1>1, <1>3, <1>9, <1>k, <2>1, <2>2, <2>3 DEF Alone, Dead
<1>10. \A u \in Task : RunsOn(u, c)' => task'[u].op = "start"
  BY <1>3 DEF Run
<1> QED BY <1>1, <1>5, <1>6, <1>7, <1>8, <1>9, <1>10, <1>k, ElseOrderly

\* What a job that may be started, or is queued, says of its pod.
LEMMA RestDead ==
  ASSUME OInv, NEW c \in Obj, InUse(c), job[c].state \in Resting
  PROVE  Dead(job[c].key)
BY ParentInv, InUseRecorded DEF Orderly, RestIsDead

LEMMA TakeJobOrderly ==
  ASSUME Patient, OInv, TakeJob, ActiveIsPersisted'
  PROVE  Orderly'
<1>0. SInv /\ TypeOK /\ SchedTypeOK' /\ Else /\ Calm /\ Orderly /\ coord' = coord /\ mail' = mail
  BY TakeJobTypes, ParentInv DEF Else, TakeJob, cloudVars
<1>1. PICK c \in Obj : c = Head(queue)
  BY <1>0 DEF TakeJob, TypeOK
<1>2. Queued(c) /\ ~Queued(c)' /\ \A o \in Obj : Queued(o)' => Queued(o)
  BY <1>0, <1>1, HeadOfQueue, TailOnce DEF Calm
<1>3. job[c].state \in Resting /\ \A u \in Task : ~RunsOn(u, c)
  BY <1>0, <1>2 DEF Orderly, QueuedRest
<1>4. CASE active[job[c].key] = NoObj
  <2>1. UNCHANGED <<db, active, loop, job, task>>
    BY <1>1, <1>4 DEF TakeJob
  <2>2. Concerns(c)
    BY <1>2, <2>1 DEF Concerns, RunsOn
  <2>3. \A k \in Key : active'[k] = c /\ mail'[k] \in Final /\ job'[c].first => Dead(k)
    BY <1>0, <2>1, PoolAssumption DEF Orderly, LastReport
  <2> QED BY <1>0, <1>2, <1>3, <2>1, <2>2, <2>3, ElseOrderly DEF RunsOn
<1>5. CASE active[job[c].key] # NoObj
  <2>1. PICK t \in Task : t = SpareTask /\ task[t].op = "idle"
    BY <1>1, <1>5, SpareTaskIsIdle DEF TakeJob
  <2>2. Begin(c, t) /\ InUse(c)
    BY <1>1, <1>2, <1>5, <2>1 DEF TakeJob, InUse
  <2>3. Dead(job[c].key)
    BY <1>3, <2>2, RestDead
  <2> QED BY <1>0, <1>2, <1>3, <1>5, <2>1, <2>2, <2>3, BeginOrderly
<1> QED BY <1>4, <1>5

LEMMA LossOrderly ==
  ASSUME Patient, MaxFaults = 0, OInv, NEW c \in Obj, LossHeartbeat(c), ActiveIsPersisted'
  PROVE  Orderly'
<1>0. SInv /\ TypeOK /\ SchedTypeOK' /\ Else /\ Orderly /\ coord' = coord /\ mail' = mail
  BY HeartbeatTypes, ParentInv DEF Else, LossHeartbeat, cloudVars
<1>1. PICK k \in Key : k = job[c].key
  BY <1>0 DEF TypeOK, JobRecord
<1>2. /\ job'[c].state = "FAILED" /\ job'[c].key = k /\ job'[c].first = job[c].first
      /\ \A o \in Obj : o # c => job'[o] = job[o]
      /\ job[c].timer /\ Silent(k) /\ InUse(c)
  BY <1>0, <1>1, NoFault DEF LossHeartbeat, TypeOK, JobRecord, InUse
<1>3. UNCHANGED <<queue, task>> /\ db' = Record(k, "FAILED") /\ HasRecord(k)
  BY <1>0, <1>1, <1>2, InUseRecorded DEF LossHeartbeat
<1>4. active' = Finish(k)
  BY <1>1, <1>3 DEF LossHeartbeat
<1>5. \A l \in Key, o \in Obj : active'[l] = o => active[l] = o
  BY <1>0, <1>4, FinishSteady, PoolAssumption
<1>6. Concerns(c)
  BY <1>2, <1>3, <1>5 DEF Concerns, Queued, RunsOn
<1>7. Dead(k)
  BY <1>0, <1>2 DEF Silent, Dead, TypeOK, CoordState
<1>8. \A l \in Key : db'[l] = IF l = k THEN "FAILED" ELSE db[l]
  BY <1>0, <1>3 DEF Record, TypeOK
<1>9. \A l \in Key : l # k => active'[l] = active[l]
  BY <1>0, <1>4, FinishSteady
<1>10. Held(k)'
  BY <1>8 DEF Held, Final
<1>11. \A u \in Task : ~(EarlyStart(u)' /\ RunsOn(u, c)')
  BY <1>0, <1>2, <1>3 DEF Orderly, StartsAlone, Alone, EarlyStart, RunsOn, Me, Mine
<1>12. Queued(c)' => \A u \in Task : ~RunsOn(u, c)'
  BY <1>0, <1>3 DEF Orderly, QueuedRest, Queued, RunsOn
<1>13. \A l \in Key : active'[l] = c /\ mail'[l] \in Final /\ job'[c].first => Dead(l)
  BY <1>0, <1>2, <1>5, PoolAssumption DEF Orderly, LastReport
<1> QED BY <1>0, <1>2, <1>6, <1>7, <1>8, <1>9, <1>10, <1>11, <1>12, <1>13, ElseOrderly DEF Resting

\* A heartbeat that is not acted on only leaves the mail.
LEMMA MailTaken ==
  ASSUME OInv, UNCHANGED <<schedVars, coord>>, \A k \in Key : mail'[k] \in {mail[k], "NONE"}
  PROVE  Orderly'
<1>0. TypeOK /\ Orderly
  BY ParentInv
<1>k. \A t \in Task : task[t].op # "idle" => Mine(t).key \in Key
  BY <1>0, TaskMoves DEF JobRecord
<1>1. QueuedRest'
  BY <1>0 DEF Orderly, QueuedRest, schedVars, Queued, RunsOn
<1>2. StartsAlone'
  <2> SUFFICES ASSUME NEW t \in Task, EarlyStart(t)
               PROVE  Alone(t)'
    BY DEF StartsAlone, EarlyStart, schedVars
  <2>1. Alone(t) /\ Mine(t).key \in Key
    BY <1>0, <1>k DEF Orderly, StartsAlone, EarlyStart
  <2> QED BY <2>1 DEF Alone, Mine, Me, schedVars, RunsOn, At, Dead
<1>3. RestIsDead'
  BY <1>0 DEF Orderly, RestIsDead, schedVars, Dead
<1>4. EndsHeld'
  BY <1>0 DEF Orderly, EndsHeld, Held, WorksFor, Mine, Me, schedVars
<1>5. ToldTrue'
  BY <1>0 DEF Orderly, ToldTrue, Told, Undone, At, Mine, Me, schedVars, Dead
<1>6. LastReport'
  BY <1>0 DEF Orderly, LastReport, schedVars, Final, Dead
<1>7. EndStates'
  BY <1>0 DEF Orderly, EndStates, Mine, Me, schedVars
<1> QED BY <1>1, <1>2, <1>3, <1>4, <1>5, <1>6, <1>7 DEF Orderly

LEMMA HeartbeatOrderly ==
  ASSUME Patient, OInv, NEW l \in Key, Heartbeat(l), ActiveIsPersisted'
  PROVE  Orderly'
<1>0. SInv /\ TypeOK /\ SchedTypeOK' /\ Else /\ Calm /\ Orderly /\ coord' = coord
  BY HeartbeatTypes, ParentInv DEF Else, Heartbeat
<1>1. /\ UNCHANGED <<active, queue, loop>> /\ mail'[l] = "NONE"
      /\ \A k \in Key : mail'[k] \in {mail[k], "NONE"}
  BY <1>0 DEF Heartbeat, TypeOK
<1>2. CASE UNCHANGED <<db, job, task>>
  BY <1>0, <1>1, <1>2, MailTaken DEF schedVars
<1>3. CASE ~ UNCHANGED <<db, job, task>>
  <2>1. PICK c \in Obj : c = active[l]
    BY <1>0, <1>3 DEF Heartbeat, TypeOK
  <2>2. /\ job[c].key = l /\ InUse(c) /\ job'[c].key = l /\ job'[c].released = job[c].released
        /\ \A o \in Obj : o # c => job'[o] = job[o]
        /\ mail[l] # "NONE"
        /\ \/ ~job[c].first /\ UNCHANGED <<db, task>> /\ job'[c].state = job[c].state
           \/ /\ job[c].first /\ Expects(job[c].state, mail[l])
              /\ db' = Record(l, mail[l]) /\ job'[c].state = mail[l]
              /\ \/ task' = task /\ mail[l] \notin {"FINISHED", "FAILED"}
                 \/ /\ task' = [task EXCEPT ![SpareTask] = Run("heartbeat", c, "del")]
                    /\ mail[l] \in {"FINISHED", "FAILED"} /\ HasSpareTask
    BY <1>0, <1>3, <2>1, HeartbeatObject
  <2>3. \A o \in Obj, u \in Task : o # c /\ RunsOn(u, o)' => RunsOn(u, o) /\ task'[u].op = task[u].op
    <3>1. task' = task \/ task' = [task EXCEPT ![SpareTask] = Run("heartbeat", c, "del")]
      BY <2>2
    <3> QED BY <1>0, <3>1 DEF RunsOn, Run, TypeOK
  <2>4. Concerns(c)
    BY <1>1, <2>2, <2>3 DEF Concerns, Queued
  <2>5. \A k \in Key : active'[k] = c /\ mail'[k] \in Final /\ job'[c].first => Dead(k)
    <3>1. \A k \in Key : active'[k] = c => k = l
      BY <1>0, <1>1, <2>1, <2>2, PoolAssumption DEF SInv, IInv, Guarded, ActiveIsPersisted
    <3> QED BY <1>1, <3>1 DEF Final
  <2>6. CASE ~job[c].first
    <3>1. UNCHANGED <<db, task>> /\ job'[c].state = job[c].state
      BY <2>2, <2>6
    <3>2. job'[c].timer = job[c].timer
      BY <1>0, <1>3, <2>1, <2>6 DEF Heartbeat, TypeOK, JobRecord
    <3>3. Queued(c)' => job'[c].state \in Resting /\ \A u \in Task : ~RunsOn(u, c)'
      BY <1>0, <1>1, <3>1 DEF Orderly, QueuedRest, Queued, RunsOn
    <3>4. ASSUME NEW u \in Task, EarlyStart(u)', RunsOn(u, c)'
          PROVE  Alone(u)'
      <4>1. EarlyStart(u) /\ Me(u) = c /\ Me(u)' = c
        BY <3>1, <3>4 DEF EarlyStart, RunsOn, Me
      <4>2. Alone(u) /\ Mine(u) = job[c] /\ Mine(u)' = job'[c]
        BY <1>0, <4>1 DEF Orderly, StartsAlone, Mine
      <4>3. \A v \in Task : RunsOn(v, c)' => RunsOn(v, c) /\ task'[v] = task[v]
        BY <3>1 DEF RunsOn
      <4> QED BY <1>0, <1>1, <2>2, <3>1, <3>2, <4>1, <4>2, <4>3 DEF Alone, At, Dead
    <3>5. \A u \in Task : task'[u].op = "heartbeat" /\ RunsOn(u, c)' =>
            job'[c].state \in {"FINISHED", "FAILED"}
      BY <1>0, <3>1 DEF Orderly, EndStates, RunsOn, Me, Mine
    <3> QED BY <1>0, <1>1, <2>4, <2>5, <3>1, <3>3, <3>4, <3>5, ElseOrderly
  <2>7. CASE job[c].first
    <3>1. /\ Expects(job[c].state, mail[l]) /\ db' = Record(l, mail[l]) /\ job'[c].state = mail[l]
          /\ \/ task' = task /\ mail[l] \notin {"FINISHED", "FAILED"}
             \/ /\ task' = [task EXCEPT ![SpareTask] = Run("heartbeat", c, "del")]
                /\ mail[l] \in {"FINISHED", "FAILED"} /\ HasSpareTask
      BY <2>2, <2>7
    <3>2. /\ job[c].state \in {"RUNNING", "STARTING", "STOPPING"}
          /\ mail[l] = "STOPPED" => job[c].state = "STOPPING"
      BY <3>1 DEF Expects, Expected
    <3>3. mail[l] \in Final => Dead(l)
      BY <1>0, <2>1, <2>7, PoolAssumption DEF Orderly, LastReport
    <3>4. HasRecord(l) /\ db[l] = job[c].state
      BY <1>0, <2>2, InUseRecorded
    <3>5. \A k \in Key : db'[k] = IF k = l THEN mail[l] ELSE db[k]
      BY <1>0, <3>1, <3>4 DEF Record, TypeOK
    <3>6. ~Queued(c)'
      BY <1>0, <1>1, <3>2 DEF Orderly, QueuedRest, Queued, Resting
    <3>7. \A u \in Task : RunsOn(u, c)' => \/ task'[u] = task[u] /\ RunsOn(u, c)
                                           \/ task'[u].op = "heartbeat" /\ mail[l] \in {"FINISHED", "FAILED"}
      BY <1>0, <3>1 DEF RunsOn, Run, TypeOK
    <3>8. \A u \in Task : ~(EarlyStart(u)' /\ RunsOn(u, c)')
      <4> SUFFICES ASSUME NEW u \in Task, EarlyStart(u)', RunsOn(u, c)'
                   PROVE  FALSE
        OBVIOUS
      <4>1. EarlyStart(u) /\ Me(u) = c
        BY <3>7 DEF EarlyStart, RunsOn, Me
      <4>2. Alone(u)
        BY <1>0, <4>1 DEF Orderly, StartsAlone
      <4> QED BY <2>2, <2>7, <4>1, <4>2 DEF Alone, Mine
    <3>9. \A u \in Task : task'[u].op = "heartbeat" /\ RunsOn(u, c)' =>
            job'[c].state \in {"FINISHED", "FAILED"}
      BY <1>0, <3>1, <3>2, <3>7 DEF Orderly, EndStates, RunsOn, Me, Mine
    <3>10. Held(l)'
      <4>1. ASSUME mail[l] = "FINISHED"
            PROVE  \E t \in Task : WorksFor(t, l, {"heartbeat"})'
        <5>1. PICK t \in Task : t = SpareTask
          BY <3>1, <4>1, SpareTaskIsIdle
        <5>2. task'[t].op = "heartbeat" /\ task'[t].obj = c
          BY <1>0, <3>1, <4>1, <5>1 DEF Run, TypeOK
        <5> QED BY <2>2, <5>2 DEF WorksFor, Mine, Me
      <4>2. ASSUME mail[l] = "STOPPED"
            PROVE  \E t \in Task : WorksFor(t, l, {"stop"})'
        <5>1. PICK t \in Task : task[t].op = "stop" /\ Mine(t).key = l
          BY <1>0, <3>2, <3>4, <4>2, PromiseValues DEF Calm, PromisesKept, Kept
        <5>2. task'[t] = task[t] /\ Me(t) \in Obj /\ InUse(Me(t))
          BY <1>0, <5>1, NewRuns, TaskOps
        <5>3. job'[Me(t)].key = job[Me(t)].key
          BY <1>0, <5>2, InUseKeeps
        <5> QED BY <5>1, <5>2, <5>3 DEF WorksFor, Mine, Me
      <4>3. active'[l] # NoObj
        BY <1>1, <2>1, PoolAssumption
      <4> QED BY <3>5, <4>1, <4>2, <4>3 DEF Held
    <3>11. \A k \in Key : \/ db'[k] = db[k] /\ (active'[k] # NoObj \/ active[k] = NoObj)
                          \/ Held(k)'
      BY <1>1, <3>5, <3>10
    <3>12. \A k \in Key : db'[k] = db[k] \/ (db'[k] \in Resting => Dead(k))
      <4>1. mail[l] \in Resting => mail[l] \in Final
        BY <1>0, <2>2 DEF TypeOK, Report, Resting, Final
      <4> QED BY <3>3, <3>5, <4>1
    <3> QED BY <1>0, <1>1, <2>4, <2>5, <3>6, <3>8, <3>9, <3>11, <3>12, ElseOrderly
  <2> QED BY <2>6, <2>7
<1> QED BY <1>2, <1>3

\* A new object, for a job whose pod is dead, enters the queue.
LEMMA QueueOrderly ==
  ASSUME Patient, OInv, Else, SchedTypeOK', ActiveIsPersisted', coord' = coord, mail' = mail,
         NEW l \in Key, HasSpareObj, NEW s \in Resting, Dead(l),
         job' = [job EXCEPT ![SpareObj] = NewJob(l, s)],
         active' = [active EXCEPT ![l] = SpareObj],
         queue' = Append(queue, SpareObj),
         task' = task,
         \A k \in Key : db'[k] = db[k] \/ (k = l /\ db'[k] = "QUEUING")
  PROVE  Orderly'
<1>0. SInv /\ TypeOK /\ Calm /\ Orderly /\ QueuedOnce
  BY ParentInv DEF Calm
<1>1. PICK c \in Obj : c = SpareObj /\ ~InUse(c)
  BY SpareIsIdle
<1>2. job'[c] = NewJob(l, s) /\ \A o \in Obj : o # c => job'[o] = job[o]
  BY <1>0, <1>1 DEF TypeOK
<1>3. \A k \in Key : active'[k] = IF k = l THEN c ELSE active[k]
  BY <1>0, <1>1 DEF TypeOK
<1>4. \A o \in Obj : o # c /\ Queued(o)' => Queued(o)
  BY <1>0, <1>1, AppendOnce DEF InUse
<1>5. Concerns(c)
  BY <1>2, <1>3, <1>4 DEF Concerns, RunsOn
<1>6. \A u \in Task : ~RunsOn(u, c)'
  BY <1>1 DEF InUse, RunsOn
<1>7. job'[c].state = s /\ ~job'[c].first
  BY <1>2 DEF NewJob
<1>8. \A k \in Key : \/ db'[k] = db[k] /\ (active'[k] # NoObj \/ active[k] = NoObj)
                     \/ Held(k)'
  <2>1. active'[l] # NoObj
    BY <1>3, PoolAssumption
  <2> QED BY <1>3, <2>1 DEF Held
<1> QED BY <1>0, <1>5, <1>6, <1>7, <1>8, ElseOrderly

\* On a job at rest nothing is at work.
LEMMA RestIsIdle ==
  ASSUME TypeOK, NEW k \in Key, AtRest(k), NEW ops, ops \subseteq Op
  PROVE  ~ \E t \in Task : WorksFor(t, k, ops)
<1> SUFFICES ASSUME NEW t \in Task, task[t].op \in ops, Mine(t).key = k
             PROVE  FALSE
  BY DEF WorksFor
<1>1. task[t].op # "idle"
  BY DEF Op
<1> QED BY <1>1, TaskOps DEF AtRest

LEMMA CloseOrderly ==
  ASSUME Patient, OInv, NEW l \in Key, StopJob(l) \/ DeleteJob(l), ActiveIsPersisted'
  PROVE  Orderly'
<1>0. SInv /\ TypeOK /\ SchedTypeOK' /\ Else /\ Calm /\ Orderly /\ coord' = coord /\ mail' = mail
  BY RequestTypes, ParentInv DEF Else, Request, StopJob, DeleteJob, cloudVars
<1>1. PICK c \in Obj, t \in Task : c = Target(l) /\ t = SpareTask
  BY <1>0, CloseChoice
<1>2. /\ task[t].op = "idle" /\ HasRecord(l)
      /\ \A u \in Task : u # t => task'[u] = task[u]
      /\ UNCHANGED <<active, queue>>
      /\ \A o \in Obj : o # c => job'[o] = job[o]
      /\ job'[c].key = l
      /\ \/ active[l] = c /\ InUse(c) /\ job[c].key = l /\ Loaded(l) = job[c]
         \/ ~InUse(c)
      /\ job'[c].first = Loaded(l).first
      /\ \/ /\ StopJob(l) /\ job'[c].state = "STOPPING" /\ db' = Record(l, "STOPPING")
            /\ task'[t] = Run("stop", c, IF Loaded(l).state \in Launching THEN "await" ELSE "stat")
            /\ Loaded(l).state \in Launching => ~job'[c].released
            /\ job'[c].timer = Loaded(l).timer
         \/ /\ DeleteJob(l) /\ job'[c].state = "DELETING" /\ db' = Record(l, "DELETING")
            /\ task'[t] = Run("delete", c, "del")
  BY <1>0, <1>1, CloseObject
<1>3. task'[t].obj = c /\ task'[t].op \in {"stop", "delete"} /\ job'[c].state \in {"STOPPING", "DELETING"}
  BY <1>2 DEF Run
<1>4. ~Queued(c) /\ \A u \in Task : RunsOn(u, c) => StopJob(l) /\ Stoppable(u, c)
  <2>1. CASE ~InUse(c)
    BY <2>1 DEF InUse
  <2>2. CASE job[c].key = l
    <3>1. (DeleteJob(l) /\ Quiet(l)) \/ (StopJob(l) /\ Launched(l))
      BY DEF StopJob, DeleteJob, MayIssue, MayStop
    <3> QED BY <2>2, <3>1 DEF Quiet, AtRest, Launched
  <2> QED BY <1>2, <2>1, <2>2
<1>5. \A u \in Task : RunsOn(u, c)' => u = t \/ (RunsOn(u, c) /\ task'[u] = task[u] /\ task[u].op = "start")
  BY <1>2, <1>4 DEF RunsOn, Stoppable
<1>6. Concerns(c) /\ ~Queued(c)'
  BY <1>0, <1>2, <1>3, <1>4 DEF Concerns, Queued, RunsOn
<1>7. ASSUME NEW u \in Task, EarlyStart(u)', RunsOn(u, c)'
      PROVE  Alone(u)'
  <2>1. u # t
    BY <1>3, <1>7 DEF EarlyStart
  <2>2. RunsOn(u, c) /\ task'[u] = task[u] /\ EarlyStart(u) /\ Me(u) = c /\ Me(u)' = c
    BY <1>5, <1>7, <2>1 DEF EarlyStart, RunsOn, Me
  <2>3. Alone(u) /\ Mine(u) = job[c] /\ Mine(u)' = job'[c]
    BY <1>0, <2>2 DEF Orderly, StartsAlone, Mine
  <2>4. InUse(c) /\ Loaded(l) = job[c] /\ job[c].key = l
    BY <1>2, <2>2 DEF InUse
  <2>5. StopJob(l) /\ job[c].state \in Launching
    <3>1. StopJob(l) /\ "STOP" \in Supported[job[c].state]
      BY <1>4, <2>2, <2>4 DEF StopJob
    <3>2. job[c].state \in {"STARTING", "PENDING", "STOPPING"}
      BY <2>3 DEF Alone
    <3> QED BY <3>1, <3>2 DEF Supported, Launching
  <2>6. /\ task'[t].op = "stop" /\ task'[t].pc = "await" /\ ~job'[c].released
        /\ job'[c].state = "STOPPING" /\ job'[c].timer = job[c].timer /\ job'[c].first = job[c].first
    <3>1. ~DeleteJob(l)
      <4> SUFFICES ASSUME DeleteJob(l)
                   PROVE  FALSE
        OBVIOUS
      <4>1. AtRest(l)
        BY DEF DeleteJob, MayIssue, Quiet
      <4> QED BY <2>2, <2>4, <4>1 DEF AtRest
    <3>2. task'[t] = Run("stop", c, "await")
      BY <1>2, <2>4, <2>5, <3>1
    <3> QED BY <1>2, <2>4, <2>5, <3>1, <3>2 DEF Run
  <2>7. \A v \in Task : RunsOn(v, c)' /\ v # u => At(v, "stop", "await")'
    BY <1>5, <2>2, <2>3, <2>6 DEF Alone, At
  <2> QED BY <1>0, <1>2, <2>2, <2>3, <2>4, <2>6, <2>7 DEF Alone, Dead
<1>8. \A k \in Key : db'[k] = IF k = l THEN job'[c].state ELSE db[k]
  BY <1>0, <1>2 DEF Record, TypeOK
<1>9. Held(l)'
  <2>1. WorksFor(t, l, {"stop", "delete"})'
    BY <1>2, <1>3 DEF WorksFor, Mine, Me
  <2> QED BY <1>3, <1>8, <2>1 DEF Held
<1>10. \A k \in Key : active'[k] = c /\ mail'[k] \in Final /\ job'[c].first => Dead(k)
  <2> SUFFICES ASSUME NEW k \in Key, active[k] = c, mail[k] \in Final, job'[c].first
               PROVE  Dead(k)
    BY <1>0, <1>2
  <2>1. job[c].first
    BY <1>2 DEF InUse
  <2> QED BY <1>0, <2>1, PoolAssumption DEF Orderly, LastReport
<1>11. \A u \in Task : ~(task'[u].op = "heartbeat" /\ RunsOn(u, c)')
  BY <1>3, <1>5
<1>12. \A k \in Key : \/ db'[k] = db[k] /\ (active'[k] # NoObj \/ active[k] = NoObj)
                      \/ Held(k)'
  BY <1>2, <1>8, <1>9
<1>13. \A k \in Key : db'[k] = db[k] \/ (db'[k] \in Resting => Dead(k))
  BY <1>3, <1>8 DEF Resting
<1> QED BY <1>0, <1>6, <1>7, <1>10, <1>11, <1>12, <1>13, ElseOrderly

LEMMA RequestOrderly ==
  ASSUME Patient, OInv, NEW l \in Key, Request(l), ActiveIsPersisted'
  PROVE  Orderly'
<1>0. SInv /\ TypeOK /\ SchedTypeOK' /\ Else /\ Calm /\ Orderly
  BY RequestTypes, ParentInv DEF Else
<1>1. CASE CreateJob(l)
  <2>1. \A k \in Key : db'[k] = db[k] \/ (k = l /\ db'[k] = "QUEUING")
    BY <1>0, <1>1 DEF CreateJob, TypeOK
  <2>2. Dead(l)
    BY <1>1 DEF CreateJob, OInv, CInv, GInv, DeletedIsGone, Dead
  <2>3. "QUEUING" \in Resting
    BY DEF Resting
  <2> QED BY <1>0, <1>1, <2>1, <2>2, <2>3, QueueOrderly DEF CreateJob, cloudVars
<1>2. CASE StartJob(l) /\ active[l] # NoObj
  <2>1. PICK c \in Obj : c = active[l] /\ job[c].key = l
    BY <1>0, <1>2 DEF TypeOK, SInv, IInv, Guarded, ActiveIsPersisted
  <2>2. PICK t \in Task : t = SpareTask /\ task[t].op = "idle"
    BY <1>2, SpareTaskIsIdle DEF StartJob
  <2>3. /\ Begin(c, t) /\ queue' = queue /\ AtRest(l) /\ "START" \in Supported[job[c].state]
        /\ coord' = coord /\ mail' = mail
    BY <1>2, <2>1, <2>2 DEF StartJob, MayIssue, Quiet, cloudVars
  <2>4. ~Queued(c)' /\ (\A u \in Task : ~RunsOn(u, c)) /\ (\A o \in Obj : Queued(o)' => Queued(o))
    BY <1>0, <2>1, <2>3, QuietActive DEF Queued
  <2>5. InUse(c)
    BY <2>1 DEF InUse
  <2>6. job[c].state \in Resting
    <3>1. job[c].state \in State
      BY <1>0 DEF TypeOK, JobRecord
    <3> QED BY <2>3, <3>1 DEF Supported, State, Resting
  <2>7. Dead(job[c].key)
    BY <2>5, <2>6, RestDead
  <2> QED BY <1>0, <1>2, <2>1, <2>2, <2>3, <2>4, <2>5, <2>7, BeginOrderly
<1>3. CASE StartJob(l) /\ active[l] = NoObj
  <2>1. /\ HasSpareObj /\ job' = [job EXCEPT ![SpareObj] = NewJob(l, db[l])]
        /\ active' = [active EXCEPT ![l] = SpareObj]
        /\ queue' = Append(queue, SpareObj) /\ task' = task /\ db' = db
        /\ coord' = coord /\ mail' = mail /\ AtRest(l)
    BY <1>3 DEF StartJob, MayIssue, Quiet, cloudVars
  <2>2. db[l] \in Final
    <3>1. ~ \E t \in Task : WorksFor(t, l, {"stop", "delete"})
      BY <1>0, <2>1, RestIsIdle DEF Op
    <3> QED BY <1>0, <1>3, <3>1 DEF Orderly, EndsHeld, Held, StartJob, HasRecord
  <2>3. db[l] \in Resting /\ Dead(l)
    BY <1>0, <2>2 DEF Resting, Final, Orderly, RestIsDead
  <2> QED BY <1>0, <2>1, <2>3, QueueOrderly
<1>4. CASE StopJob(l) \/ DeleteJob(l)
  BY <1>4, CloseOrderly
<1> QED BY <1>1, <1>2, <1>3, <1>4 DEF Request

\* As long as the scheduler was not restarted.
FreshInv == CInv /\ (spent.restarts = 0 => Orderly)

LEMMA RestartsCount ==
  ASSUME TypeOK, Next, ~Restart
  PROVE  spent'.restarts = spent.restarts
<1>1. CASE UNCHANGED spent
  BY <1>1
<1>2. CASE SpendFault
  BY <1>2 DEF SpendFault, TypeOK
<1>3. CASE Issued
  BY <1>3 DEF Issued, TypeOK
<1>4. TakeJob => UNCHANGED spent
  BY DEF TakeJob
<1>5. ASSUME NEW t \in Task, Proceeds(t) \/ Suffers(t)
      PROVE  UNCHANGED spent \/ SpendFault
  BY <1>5
     DEF Proceeds, ReadPhase, StartStep, DeletionStep, StopStep, EndStep, Suffers,
         ClientsEnough, CheckAgain, RouteAdded, PodCreated, PodPolled, PollAgain,
         PodDeleted, PodGone, StartReleased, StopPolled, StopSent, StopWaited,
         StopEnds, DeleteEnds, ClientsScarce, ClientsUnknown, RetrySkipped,
         CreateRaises, StopGivesUp, StopAborts
<1>6. ASSUME NEW k \in Key, Heartbeat(k) \/ Request(k) \/ Cloud(k)
      PROVE  UNCHANGED spent \/ Issued \/ SpendFault
  BY <1>6 DEF Heartbeat, Request, CreateJob, StartJob, StopJob, DeleteJob, Cloud,
              CoordinatorRuns, CoordinatorCrashes, CoordinatorReports, CoordinatorEnds,
              PodRemoved, HeartbeatLost
<1>7. ASSUME NEW o \in Obj, LossHeartbeat(o)
      PROVE  UNCHANGED spent \/ SpendFault
  BY <1>7 DEF LossHeartbeat
<1> QED BY <1>1, <1>2, <1>3, <1>4, <1>5, <1>6, <1>7 DEF Next

LEMMA CoroutineOrderly ==
  ASSUME MaxFaults = 0, OInv, NEW t \in Task, Proceeds(t) \/ Suffers(t)
  PROVE  Orderly'
<1>0. TypeOK
  BY ParentInv
<1>1. CASE \E k \in Key : Creates(t, k) /\ Moves(t, "poll")
  BY <1>1, CreationOrderly
<1>2. CASE ~ \E k \in Key : Creates(t, k) /\ Moves(t, "poll")
  <2>1. \A k \in Key : (coord[k] = "NONE" => coord'[k] = "NONE") /\ (Dead(k) => Dead(k)')
    BY <1>0, <1>2, WorkPods
  <2> QED BY <2>1, WorkOrderly
<1> QED BY <1>1, <1>2

LEMMA FreshNext ==
  ASSUME Patient, MaxFaults = 0, FreshInv, [Next]_vars
  PROVE  FreshInv'
<1>1. CInv'
  BY CalmNext DEF FreshInv
<1>2. ASSUME UNCHANGED vars
      PROVE  FreshInv'
  <2>1. UNCHANGED <<schedVars, coord, mail, spent>>
    BY <1>2 DEF vars, cloudVars
  <2>2. spent.restarts = 0 => Orderly'
    BY <2>1, MailTaken DEF FreshInv, OInv
  <2> QED BY <1>1, <2>1, <2>2 DEF FreshInv
<1>3. ASSUME Next, spent'.restarts = 0
      PROVE  Orderly'
  <2>t. TypeOK
    BY DEF FreshInv, CInv, GInv, SInv, IInv
  <2>0. ActiveIsPersisted'
    BY <1>1 DEF CInv, GInv, SInv, IInv, Guarded
  <2>1. OInv /\ ~Restart
    <3>1. ~Restart
      BY <1>3, <2>t DEF Restart, TypeOK
    <3> QED BY <1>3, <2>t, <3>1, RestartsCount DEF FreshInv, OInv
  <2>2. CASE TakeJob
    BY <2>0, <2>1, <2>2, TakeJobOrderly
  <2>3. ASSUME NEW t \in Task, Proceeds(t) \/ Suffers(t)
        PROVE  Orderly'
    BY <2>1, <2>3, CoroutineOrderly
  <2>4. ASSUME NEW k \in Key, Heartbeat(k) \/ Request(k) \/ Cloud(k)
        PROVE  Orderly'
    BY <2>0, <2>1, <2>4, HeartbeatOrderly, RequestOrderly, CloudOrderly
  <2>5. ASSUME NEW o \in Obj, LossHeartbeat(o)
        PROVE  Orderly'
    BY <2>0, <2>1, <2>5, LossOrderly
  <2> QED BY <1>3, <2>1, <2>2, <2>3, <2>4, <2>5 DEF Next
<1> QED BY <1>1, <1>2, <1>3 DEF FreshInv

LEMMA FreshInit == Init => FreshInv
<1> SUFFICES ASSUME Init
             PROVE  Orderly
  BY CalmInit DEF FreshInv
<1>1. \A t \in Task : task[t].op = "idle"
  BY DEF Init, NoRun
<1>2. QueuedRest /\ StartsAlone /\ ToldTrue /\ EndStates
  BY <1>1 DEF Init, QueuedRest, Queued, StartsAlone, EarlyStart, ToldTrue, EndStates
<1>3. RestIsDead /\ EndsHeld /\ LastReport
  BY DEF Init, RestIsDead, Dead, EndsHeld, Held, LastReport
<1> QED BY <1>2, <1>3 DEF Orderly

LEMMA FreshSettled ==
  ASSUME FreshInv
  PROVE  SettledMeansGone
<1> SUFFICES ASSUME NEW k \in Key, AtRest(k),
                    db[k] \in {"ABSENT"} \cup IF spent.restarts = 0 THEN {"STOPPED", "FINISHED"} ELSE {}
             PROVE  coord[k] = "NONE"
  BY DEF SettledMeansGone
<1>1. CASE db[k] = "ABSENT"
  BY <1>1 DEF FreshInv, CInv, GInv, DeletedIsGone, HasRecord
<1>2. CASE spent.restarts = 0 /\ db[k] \in {"STOPPED", "FINISHED"}
  <2>1. TypeOK /\ Held(k)
    BY <1>2 DEF FreshInv, CInv, GInv, SInv, IInv, Orderly, EndsHeld
  <2>2. (~ \E t \in Task : WorksFor(t, k, {"heartbeat"})) /\ ~ \E t \in Task : WorksFor(t, k, {"stop"})
    BY <2>1, RestIsIdle DEF Op
  <2> QED BY <1>2, <2>1, <2>2 DEF Held
<1> QED BY <1>1, <1>2

\* No coordinator outlives a job that came to an end, when clients are patient
\* and no call of the scheduler fails: a deleted job has none whatever else
\* happens, a stopped or finished one has none unless the scheduler was
\* restarted (Job.stop, Job.delete and the end of Job.handle_heartbeat wait for
\* the end of the pod; a start() does not create one behind their back).
THEOREM SettledGone ==
  ASSUME Patient, MaxFaults = 0
  PROVE  Spec => []SettledMeansGone
<1>1. FreshInv /\ [Next]_vars => FreshInv'
  BY FreshNext
<1> QED BY <1>1, FreshInit, FreshSettled, PTL DEF Spec

-----------------------------------------------------------------------------
(* The life cycle. Every step writes the record of at most one job, and one  *)
(* that JobLifecycle has a step for. What rules the others out is that a     *)
(* queued job and one whose timer is armed are not being stopped or deleted, *)
(* and that a start() that asks for clients is alone with its job.           *)

Fresh == spent.restarts = 0

\* The steps of JobLifecycle, as a relation between a record and the next.
LifeMoves(old, new) ==
  \/ new = "QUEUING" /\ old = "ABSENT"
  \/ new = "STOPPING" /\ old \in State /\ "STOP" \in Supported[old]
  \/ new = "DELETING" /\ old \in State /\ "DELETE" \in Supported[old]
  \/ new = "STARTING" /\ \/ old \in {"QUEUING", "PENDING", "FAILED", "FINISHED", "STOPPED"}
                         \/ ~Fresh /\ old = "RUNNING"
  \/ new = "PENDING" /\ \/ old = "STARTING"
                        \/ ~Fresh /\ old \in {"RUNNING", "FAILED", "FINISHED"}
  \/ new = "RUNNING" /\ old = "STARTING"
  \/ new = "FINISHED" /\ old \in {"STARTING", "PENDING", "RUNNING"}
  \/ new = "FAILED" /\ old \in State \ {"DELETING"}
  \/ new = "STOPPED" /\ old = "STOPPING"
  \/ new = "ABSENT" /\ old = "DELETING"

Lives == db' = db \/ \E k \in Key : \E s \in Recordable :
                       db' = [db EXCEPT ![k] = s] /\ LifeMoves(db[k], s)

LEMMA LifeStep ==
  ASSUME TypeOK, Lives, spent'.restarts = spent.restarts
  PROVE  [Lifecycle!Next]_(Lifecycle!vars)
<1>r. (spent.restarts > 0)' = (spent.restarts > 0) /\ (~Fresh => spent.restarts > 0)
  BY DEF TypeOK, Fresh
<1>1. CASE db' = db
  BY <1>1, <1>r DEF Lifecycle!vars
<1>2. CASE db' # db
  <2>1. PICK k \in Key, s \in Recordable : db' = [db EXCEPT ![k] = s] /\ LifeMoves(db[k], s)
    BY <1>2 DEF Lives
  <2>b. \A from : db[k] \in from => Lifecycle!Becomes(k, from, s)
    BY <1>r, <2>1 DEF Lifecycle!Becomes
  <2>s. Lifecycle!State = State
    BY DEF Lifecycle!State, State
  <2>a. \A op : Lifecycle!Accepting(op) = {x \in State : op \in Supported[x]}
    BY <2>s DEF Lifecycle!Accepting, Lifecycle!Supported, Supported
  <2>o. /\ Lifecycle!Overtaken \subseteq State
        /\ ~Fresh => Lifecycle!Overtaken = {"RUNNING", "FAILED", "FINISHED"}
    BY <1>r DEF Lifecycle!Overtaken, State
  <2>2. CASE s = "QUEUING"
    BY <2>1, <2>2, <2>b DEF LifeMoves, Lifecycle!Next, Lifecycle!Create
  <2>3. CASE s = "STOPPING"
    BY <2>1, <2>3, <2>b, <2>a DEF LifeMoves, Lifecycle!Next, Lifecycle!Stop
  <2>4. CASE s = "DELETING"
    BY <2>1, <2>4, <2>b, <2>a DEF LifeMoves, Lifecycle!Next, Lifecycle!Delete
  <2>5. CASE s = "STARTING"
    <3>1. \/ db[k] \in {"QUEUING", "PENDING"}
          \/ db[k] \in {"FAILED", "FINISHED", "STOPPED"}
          \/ ~Fresh /\ db[k] = "RUNNING"
      BY <2>1, <2>5 DEF LifeMoves
    <3>2. db[k] \in {"QUEUING", "PENDING"} \cup Lifecycle!Accepting("START") \cup Lifecycle!Overtaken
      BY <2>a, <2>o, <3>1 DEF Supported, State
    <3> QED BY <2>1, <2>5, <2>b, <3>2 DEF Lifecycle!Next, Lifecycle!Launch
  <2>6. CASE s = "PENDING"
    <3>1. db[k] \in {"STARTING"} \cup Lifecycle!Overtaken
      BY <2>1, <2>6, <2>o DEF LifeMoves
    <3> QED BY <2>1, <2>6, <2>b, <3>1 DEF Lifecycle!Next, Lifecycle!Wait
  <2>7. CASE s = "RUNNING"
    BY <2>1, <2>7, <2>b DEF LifeMoves, Lifecycle!Next, Lifecycle!RunJob
  <2>8. CASE s = "FINISHED"
    BY <2>1, <2>8, <2>b DEF LifeMoves, Lifecycle!Next, Lifecycle!Finish, Lifecycle!Launching
  <2>9. CASE s = "FAILED"
    BY <2>1, <2>9, <2>b, <2>s DEF LifeMoves, Lifecycle!Next, Lifecycle!Fail
  <2>10. CASE s = "STOPPED"
    BY <2>1, <2>10, <2>b DEF LifeMoves, Lifecycle!Next, Lifecycle!Stopped
  <2>11. CASE s = "ABSENT"
    BY <2>1, <2>11, <2>b DEF LifeMoves, Lifecycle!Next, Lifecycle!Deleted
  <2> QED BY <2>1, <2>2, <2>3, <2>4, <2>5, <2>6, <2>7, <2>8, <2>9, <2>10, <2>11 DEF LifeMoves
<1> QED BY <1>1, <1>2

\* A write of the record of a job that is there.
LEMMA Writing ==
  ASSUME TypeOK, NEW k \in Key, HasRecord(k), NEW s \in State, db' = Record(k, s),
         s = db[k] \/ LifeMoves(db[k], s)
  PROVE  Lives
<1>1. CASE s = db[k]
  <2>1. db' = db
    BY <1>1 DEF Record, TypeOK
  <2> QED BY <2>1 DEF Lives
<1>2. CASE LifeMoves(db[k], s)
  BY <1>2 DEF Lives, Record, Recordable
<1> QED BY <1>1, <1>2

\* A job that is being stopped or deleted is neither queued nor watched in the hope
\* that it runs.
LEMMA NotPromised ==
  ASSUME CInv, NEW c \in Obj, InUse(c)
  PROVE  /\ Queued(c) => job[c].state \notin {"STOPPING", "DELETING"}
         /\ job[c].timer => job[c].state # "DELETING"
<1>0. SInv /\ TypeOK /\ Calm
  BY DEF CInv, GInv, SInv, IInv
<1> SUFFICES ASSUME job[c].state \in {"STOPPING", "DELETING"}
             PROVE  ~Queued(c) /\ (job[c].state = "DELETING" => ~job[c].timer)
  OBVIOUS
<1>1. PICK k \in Key : k = job[c].key /\ db[k] = job[c].state
  BY <1>0, InUseRecorded
<1>2. PICK t \in Task : task[t].op = Promise[db[k]] /\ Mine(t).key = k
  BY <1>0, <1>1, PromiseValues DEF Calm, PromisesKept, Kept
<1>3. task[t].op \in {"stop", "delete"} /\ (job[c].state = "DELETING" => task[t].op = "delete")
  BY <1>1, <1>2, PromiseValues
<1>4. Me(t) = c
  <2>1. Me(t) \in Obj /\ InUse(Me(t)) /\ job[Me(t)].key = k
    BY <1>0, <1>2, <1>3, TaskOps
  <2> QED BY <1>0, <1>1, <2>1 DEF SInv, Single, OneObject
<1> QED BY <1>0, <1>3, <1>4 DEF Calm, QueuedApart, SInv, Single, DeleteIsAlone, Mine

LEMMA CoroutineLives ==
  ASSUME MaxFaults = 0, FreshInv, NEW t \in Task, Proceeds(t) \/ Suffers(t)
  PROVE  Lives
<1>0. TypeOK /\ SInv /\ Calm
  BY DEF FreshInv, CInv, GInv, SInv, IInv
<1>1. PICK c \in Obj, k \in Key : c = Me(t) /\ k = Mine(t).key /\ job[c] = Mine(t)
  BY <1>0, WorkSteady, InUseRecorded DEF Mine
<1>2. HasRecord(k) /\ db[k] = job[c].state /\ Restates(t, job'[c].state) /\ job'[c].state \in State
  <2>1. SchedTypeOK'
    BY <1>0, CoroutineTypes
  <2>2. job'[c].state \in State
    BY <2>1 DEF SchedTypeOK, JobRecord
  <2> QED BY <1>0, <1>1, <2>2, WorkSteady, CoroutineStates
<1>3. CASE DeleteEnds(t)
  <2>1. db[k] = "DELETING"
    BY <1>0, <1>1, <1>2, <1>3 DEF DeleteEnds, At, SInv, Single, DeleteIsAlone
  <2> QED BY <1>1, <1>3, <2>1 DEF DeleteEnds, Lives, LifeMoves, Recordable
<1>4. CASE ~DeleteEnds(t)
  <2>1. db' = db \/ db' = Record(k, job'[c].state)
    BY <1>0, <1>1, <1>2, <1>4, CoroutineWrites DEF WritesState
  <2>2. CASE At(t, "start", "check") /\ Scarce /\ job'[c].state = "PENDING"
    <3>1. db[k] \in {"STARTING", "PENDING", "RUNNING", "FAILED", "FINISHED"}
      BY <1>0, <1>1, <1>2, <2>2 DEF Calm, CheckStates
    <3>2. Fresh => db[k] \in {"STARTING", "PENDING", "STOPPING"}
      BY <1>1, <1>2, <2>2 DEF Fresh, FreshInv, Orderly, StartsAlone, Alone, EarlyStart, Early, At
    <3>3. db[k] = "PENDING" \/ LifeMoves(db[k], "PENDING")
      BY <3>1, <3>2 DEF LifeMoves
    <3> QED BY <1>0, <1>2, <2>1, <2>2, <3>3, Writing DEF Lives
  <2>3. CASE ~(At(t, "start", "check") /\ Scarce /\ job'[c].state = "PENDING")
    <3>1. job'[c].state = db[k] \/ LifeMoves(db[k], job'[c].state)
      BY <1>1, <1>2, <2>3 DEF Restates, LifeMoves, State
    <3> QED BY <1>0, <1>2, <2>1, <3>1, Writing DEF Lives
  <2> QED BY <2>2, <2>3
<1> QED BY <1>3, <1>4

\* The beginning of a start() of a job that is not being stopped or deleted.
LEMMA BeginLives ==
  ASSUME SInv, NEW c \in Obj, InUse(c), NEW t \in Task, task[t].op = "idle", Begin(c, t),
         job[c].state \notin {"STOPPING", "DELETING"},
         Fresh => job[c].state \in Resting
  PROVE  Lives
<1>0. TypeOK
  BY DEF SInv, IInv
<1>1. PICK k \in Key : /\ k = job[c].key /\ HasRecord(k) /\ db[k] = job[c].state
                       /\ job[c].state \in State
  BY InUseRecorded
<1>2. db' = Record(k, job'[c].state) /\ job'[c].state \in {"STARTING", "FAILED"}
  BY <1>0, <1>1, BeginObject
<1>3. job'[c].state = db[k] \/ LifeMoves(db[k], job'[c].state)
  BY <1>1, <1>2 DEF LifeMoves, State, Resting
<1>4. job'[c].state \in State
  BY <1>2 DEF State
<1> QED BY <1>0, <1>1, <1>2, <1>3, <1>4, Writing

LEMMA TakeJobLives ==
  ASSUME FreshInv, TakeJob
  PROVE  Lives
<1>0. TypeOK /\ SInv /\ CInv
  BY DEF FreshInv, CInv, GInv, SInv, IInv
<1>1. PICK c \in Obj : c = Head(queue)
  BY <1>0 DEF TakeJob, TypeOK
<1>2. Queued(c) /\ InUse(c)
  BY <1>0, <1>1, HeadOfQueue DEF InUse
<1>3. CASE active[job[c].key] = NoObj
  BY <1>1, <1>3 DEF TakeJob, Lives
<1>4. CASE active[job[c].key] # NoObj
  <2>1. PICK t \in Task : t = SpareTask /\ task[t].op = "idle" /\ Begin(c, t)
    BY <1>1, <1>4, SpareTaskIsIdle DEF TakeJob
  <2>2. job[c].state \notin {"STOPPING", "DELETING"}
    BY <1>0, <1>2, NotPromised
  <2>3. Fresh => job[c].state \in Resting
    BY <1>2 DEF Fresh, FreshInv, Orderly, QueuedRest
  <2> QED BY <1>0, <1>2, <2>1, <2>2, <2>3, BeginLives
<1> QED BY <1>3, <1>4

LEMMA HeartbeatLives ==
  ASSUME SInv, NEW l \in Key, Heartbeat(l)
  PROVE  Lives
<1>0. TypeOK
  BY DEF SInv, IInv
<1>1. CASE db' = db
  BY <1>1 DEF Lives
<1>2. CASE db' # db
  <2>1. PICK c \in Obj : c = active[l]
    BY <1>0, <1>2 DEF Heartbeat, TypeOK
  <2>2. /\ InUse(c) /\ job[c].key = l
        /\ Expects(job[c].state, mail[l]) /\ db' = Record(l, mail[l])
    BY <1>2, <2>1, HeartbeatObject
  <2>3. HasRecord(l) /\ db[l] = job[c].state
    BY <2>2, InUseRecorded
  <2>4. mail[l] \in State /\ (mail[l] = db[l] \/ LifeMoves(db[l], mail[l]))
    BY <2>2, <2>3 DEF Expects, Expected, LifeMoves, State
  <2> QED BY <1>0, <2>2, <2>3, <2>4, Writing
<1> QED BY <1>1, <1>2

LEMMA LossLives ==
  ASSUME CInv, NEW c \in Obj, LossHeartbeat(c)
  PROVE  Lives
<1>0. TypeOK /\ SInv /\ InUse(c) /\ job[c].timer
  BY DEF CInv, GInv, SInv, IInv, LossHeartbeat, InUse
<1>1. PICK k \in Key : /\ k = job[c].key /\ HasRecord(k) /\ db[k] = job[c].state
                       /\ job[c].state \in State
  BY <1>0, InUseRecorded
<1>2. db[k] # "DELETING"
  BY <1>0, <1>1, NotPromised
<1>3. db' = Record(k, "FAILED") /\ LifeMoves(db[k], "FAILED") /\ "FAILED" \in State
  BY <1>1, <1>2 DEF LossHeartbeat, LifeMoves, State
<1> QED BY <1>0, <1>1, <1>3, Writing

LEMMA RequestLives ==
  ASSUME Patient, SInv, NEW l \in Key, Request(l)
  PROVE  Lives
<1>0. TypeOK
  BY DEF SInv, IInv
<1>1. CASE CreateJob(l)
  BY <1>0, <1>1 DEF CreateJob, Lives, LifeMoves, HasRecord, Recordable, State, TypeOK
<1>2. CASE StartJob(l) /\ active[l] # NoObj
  <2>1. PICK c \in Obj : c = active[l] /\ InUse(c)
    BY <1>0, <1>2 DEF TypeOK, InUse
  <2>2. PICK t \in Task : t = SpareTask /\ task[t].op = "idle"
    BY <1>2, SpareTaskIsIdle DEF StartJob
  <2>3. Begin(c, t) /\ "START" \in Supported[job[c].state]
    BY <1>2, <2>1, <2>2 DEF StartJob
  <2>4. job[c].state \in {"FAILED", "FINISHED", "STOPPED"}
    <3>1. job[c].state \in State
      BY <1>0 DEF TypeOK, JobRecord
    <3> QED BY <2>3, <3>1 DEF Supported, State
  <2> QED BY <2>1, <2>2, <2>3, <2>4, BeginLives DEF Resting
<1>3. CASE StartJob(l) /\ active[l] = NoObj
  BY <1>3 DEF StartJob, Lives
<1>4. CASE StopJob(l) \/ DeleteJob(l)
  <2>1. Target(l) \in Obj /\ SpareTask \in Task
    BY <1>0, <1>4, CloseChoice
  <2>2. /\ HasRecord(l) /\ Loaded(l).state = db[l]
        /\ \/ StopJob(l) /\ db' = Record(l, "STOPPING")
           \/ DeleteJob(l) /\ db' = Record(l, "DELETING")
    BY <1>4, <2>1, CloseObject
  <2>3. db[l] \in State
    BY <1>0, <2>2 DEF HasRecord, TypeOK, Recordable
  <2>4. CASE StopJob(l) /\ db' = Record(l, "STOPPING")
    <3>1. LifeMoves(db[l], "STOPPING") /\ "STOPPING" \in State
      BY <2>2, <2>3, <2>4 DEF StopJob, LifeMoves, State
    <3> QED BY <1>0, <2>2, <2>4, <3>1, Writing
  <2>5. CASE DeleteJob(l) /\ db' = Record(l, "DELETING")
    <3>1. LifeMoves(db[l], "DELETING") /\ "DELETING" \in State
      BY <2>2, <2>3, <2>5 DEF DeleteJob, LifeMoves, State
    <3> QED BY <1>0, <2>2, <2>5, <3>1, Writing
  <2> QED BY <2>2, <2>4, <2>5
<1> QED BY <1>1, <1>2, <1>3, <1>4 DEF Request

LEMMA NextLives ==
  ASSUME Patient, MaxFaults = 0, FreshInv, Next
  PROVE  [Lifecycle!Next]_(Lifecycle!vars)
<1>0. TypeOK /\ SInv /\ CInv
  BY DEF FreshInv, CInv, GInv, SInv, IInv
<1>1. CASE Restart
  <2>1. db' = db /\ spent'.restarts > 0
    BY <1>0, <1>1 DEF Restart, Reboot, TypeOK
  <2> QED BY <2>1 DEF Lifecycle!Next, Lifecycle!Restart
<1>2. CASE ~Restart
  <2>1. spent'.restarts = spent.restarts
    BY <1>0, <1>2, RestartsCount
  <2>2. ASSUME NEW k \in Key, Cloud(k)
        PROVE  Lives
    BY <2>2, CloudSteps DEF schedVars, Lives
  <2>3. Lives
    BY <1>0, <1>2, <2>2, CoroutineLives, TakeJobLives, HeartbeatLives, LossLives, RequestLives
       DEF Next
  <2> QED BY <1>0, <2>1, <2>3, LifeStep
<1> QED BY <1>1, <1>2

\* What clients read of their jobs is the life cycle that JobLifecycle promises
\* them, step by step: the records of scheduler.py go through no other states
\* whatever coroutines, heartbeats, timers and restarts come together. (That a
\* stop or a deletion comes to its end is SettlesLikeLifecycle.)
THEOREM LivesLikeLifecycle ==
  ASSUME Patient, MaxFaults = 0
  PROVE  Spec => Lifecycle!Spec
<1>1. Init => Lifecycle!Init
  BY DEF Init, Lifecycle!Init
<1>2. FreshInv /\ [Next]_vars => [Lifecycle!Next]_(Lifecycle!vars)
  <2>1. ASSUME UNCHANGED vars
        PROVE  UNCHANGED (Lifecycle!vars)
    BY <2>1 DEF vars, schedVars, Lifecycle!vars
  <2> QED BY <2>1, NextLives
<1>3. FreshInv /\ [Next]_vars => FreshInv'
  BY FreshNext
<1> QED BY <1>1, <1>2, <1>3, FreshInit, PTL DEF Spec, Lifecycle!Spec

==============================================================================
