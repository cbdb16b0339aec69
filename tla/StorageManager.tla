---------------------------- MODULE StorageManager ----------------------------
(***************************************************************************)
(* What a client agent does about the disk space of its workspace:         *)
(* StorageManager and DirMonitor of client/storage_manager.py. A task has  *)
(* a directory there, with the suffix _running until the task is done      *)
(* (client/task_manager.py). The monitor keeps the sizes of everything it  *)
(* has heard of; when they add up to more than alarm_size it removes       *)
(* directories of finished tasks, the oldest first; and while there is too *)
(* much it makes the agent refuse tasks.                                   *)
(*                                                                         *)
(* Files change on the disk, watchdog (external) tells of it later, and    *)
(* the monitor looks at sizes later still. A directory is one unit and the *)
(* files of a task are one, which grows.                                   *)
(***************************************************************************)
EXTENDS Integers, Sequences, FiniteSets, SequencesExt

CONSTANTS
  Task,
  MaxSize,     \* bound on the size of the file of a task
  MaxBehind,   \* bound on what is still to be told when something more happens
  quota, healthy_size, alarm_size

ASSUME StorageAssumption ==
  /\ IsFiniteSet(Task)
  /\ MaxSize \in Nat \ {0} /\ MaxBehind \in Nat
  /\ quota \in Nat /\ alarm_size \in 0 .. quota /\ healthy_size \in 0 .. alarm_size

VARIABLES
  disk,        \* where the directory of each task is, and the size of the file in it
  pending,     \* what watchdog has to tell
  metadatas,   \* the sizes the monitor knows, of directories and of the files in them
  order,       \* the order of the directories in its dictionary
  occupied_size,
  is_storage_sufficient,
  phase,       \* "initial", "started" but not watching yet, "on", or "dead"
  missed,      \* has something changed between the start and the watch?
  raced,       \* was a directory removed before watchdog had looked into it?
  quiet        \* has nothing been handled since the start?

monitorVars == <<metadatas, order, occupied_size, is_storage_sufficient, phase, quiet>>
smVars == <<disk, pending, metadatas, order, occupied_size, is_storage_sufficient, phase,
            missed, raced, quiet>>

\* A task of an earlier run of the agent that was interrupted is "left": its directory
\* keeps the suffix for ever.
Running == {"running", "left"}
Place == Running \cup {"none", "finished", "removed"}
\* The name of a directory; its path and that of the file in it.
Name == [task : Task, finished : BOOLEAN]
Path == [name : Name, node : {"dir", "file"}]

Present(w) == disk[w].place \in Running \cup {"finished"}
NameOf(w) == [task |-> w, finished |-> disk[w].place = "finished"]
\* os.path.exists, and _get_size: what is not there has no size.
Exists(n) == Present(n.task) /\ n = NameOf(n.task)
Size(p) ==
  IF ~Exists(p.name) THEN 0 ELSE IF p.node = "dir" THEN 1 ELSE disk[p.name.task].size
HasFile(w) == disk[w].size > 0

\* What watchdog tells of the directory n or of what is in it.
Event(type, n, node) == [type |-> type, path |-> [name |-> n, node |-> node]]
RootModified == [type |-> "root"]

Tells(es) == IF phase = "on" THEN pending \o es ELSE pending

-----------------------------------------------------------------------------
(* What the monitor knows. *)

Cached(m, p) == IF p \in DOMAIN m THEN m[p] ELSE 0

\* __push_file: a known directory keeps its place.
Pushed(m, p, size) == [q \in DOMAIN m \cup {p} |-> IF q = p THEN size ELSE m[q]]
Placed(o, n) == IF n \in Range(o) THEN o ELSE Append(o, n)

\* __pop_file: a directory of which something is left is the newest now. When the
\* path is not known, the KeyError has taken the directory with it.
Popped(m, p) == Restrict(m, DOMAIN m \ {p})
Without(m, n) == Restrict(m, {q \in DOMAIN m : q.name # n})
Dropped(o, n) == IF n \in Range(o) THEN RemoveAt(o, CHOOSE i \in DOMAIN o : o[i] = n) ELSE o
Renewed(o, left, n) ==
  IF \E q \in DOMAIN left : q.name = n THEN Append(Dropped(o, n), n) ELSE Dropped(o, n)

TotalSize(m) == SumFunction(m)

-----------------------------------------------------------------------------
(* Clearing. *)

\* What is left to be cleared when _clear_files comes to the i-th directory.
Uncleared(m, o, clear_bytes, i) ==
  clear_bytes - SumFunctionOnSet(m, {q \in DOMAIN m : q.name.finished /\ \E j \in 1 .. i - 1 : o[j] = q.name})
Cleared(m, o, clear_bytes) ==
  {o[i] : i \in {j \in DOMAIN o : o[j].finished /\ Uncleared(m, o, clear_bytes, j) >= 0}}
\* Faulty variant: it has always done its work.
DoneAnyway(m, o, clear_bytes) == TRUE
\* It finds out that it is done when it comes to one more directory.
IsDone(m, o, clear_bytes) == \E i \in DOMAIN o : Uncleared(m, o, clear_bytes, i) < 0

\* shutil.rmtree of directories that may have gone before.
Removed(ns) == {w \in Task : \E n \in ns : n.task = w /\ Exists(n)}
Rmtree(ws) == [w \in Task |-> IF w \in ws THEN [place |-> "removed", size |-> 0] ELSE disk[w]]
Deletions(n) ==
  IF ~Exists(n) THEN <<>>
  ELSE (IF HasFile(n.task) THEN <<Event("deleted", n, "file"), Event("modified", n, "dir")>> ELSE <<>>)
       \o <<Event("deleted", n, "dir"), RootModified>>
DeletionsInOrder(o, ns) ==
  FlattenSeq([i \in DOMAIN o |-> IF o[i] \in ns THEN Deletions(o[i]) ELSE <<>>])

\* __is_cleanup_condition_satisfied. moved: the directory has become cleanable.
\* Faulty variant: only growth makes it clear.
TriggeredByGrowth(moved, occupied, delta) == occupied > alarm_size /\ delta > 0
Triggered(moved, occupied, delta) == occupied > alarm_size /\ (delta > 0 \/ moved)

\* Is watchdog still to look into one of these directories?
Walks(es, ws) == \E i \in DOMAIN es : es[i].type = "walk" /\ es[i].path.name.task \in ws

\* __judge_and_clear, when rest is still to be handled.
JudgeAndClear(m, o, rest, moved, occupied, delta) ==
  IF Triggered(moved, occupied, delta)
  THEN LET clear_bytes == occupied - healthy_size
           ns == Cleared(m, o, clear_bytes)
       IN  /\ is_storage_sufficient' = IsDone(m, o, clear_bytes)
           /\ disk' = Rmtree(Removed(ns))
           /\ pending' = IF phase = "on" THEN rest \o DeletionsInOrder(o, ns) ELSE rest
           /\ raced' = (raced \/ Walks(rest, Removed(ns)))
  ELSE /\ is_storage_sufficient' = (occupied <= quota)
       /\ pending' = rest /\ UNCHANGED <<disk, raced>>

-----------------------------------------------------------------------------
(* The monitor. *)

SMInit ==
  /\ disk \in [Task -> [place : {"none", "left", "finished"}, size : 0 .. MaxSize]]
  /\ \A w \in Task : disk[w].place = "none" => disk[w].size = 0
  /\ pending = <<>> /\ metadatas = <<>> /\ order = <<>> /\ occupied_size = 0
  /\ is_storage_sufficient = TRUE
  /\ phase = "initial" /\ missed = FALSE /\ raced = FALSE /\ quiet = TRUE

\* __init_metadatas: in the order of the times of the directories.
Inspected == [p \in {q \in Path : Size(q) > 0} |-> Size(p)]
Orders == SetToSeqs({n \in Name : Exists(n)})
Before(o, n1, n2) == \E i, j \in DOMAIN o : i < j /\ o[i] = n1 /\ o[j] = n2

\* DirMonitor.start: everything is new to the handler; what it removes is not told of,
\* so the metadata are made once more.
Start ==
  /\ phase = "initial" /\ phase' = "started"
  /\ \E o \in Orders :
       /\ JudgeAndClear(Inspected, o, <<>>, FALSE, TotalSize(Inspected), TotalSize(Inspected))
       /\ metadatas' = Inspected' /\ order' \in Orders'
       /\ \A i, j \in DOMAIN order' : i < j => Before(o, order'[i], order'[j])
       /\ occupied_size' = TotalSize(metadatas')
  /\ UNCHANGED <<missed, quiet>>

\* The observer's threads run, and the agent serves.
Observe ==
  /\ phase = "started" /\ phase' = "on"
  /\ UNCHANGED <<disk, pending, metadatas, order, occupied_size, is_storage_sufficient, missed,
                 raced, quiet>>

\* dispatch: the event has brought the metadata to m, in the order o.
Handled(m, o, moved, delta) ==
  /\ metadatas' = m /\ order' = o /\ occupied_size' = occupied_size + delta /\ quiet' = FALSE
  /\ JudgeAndClear(m, o, Tail(pending), moved, occupied_size + delta, delta)
  /\ UNCHANGED <<phase, missed>>

\* A KeyError ends the thread.
Dies(n) ==
  /\ phase' = "dead" /\ pending' = <<>> /\ quiet' = FALSE
  /\ metadatas' = Without(metadatas, n) /\ order' = Dropped(order, n)
  /\ UNCHANGED <<disk, occupied_size, is_storage_sufficient, missed, raced>>

IsNext(type) == phase = "on" /\ pending # <<>> /\ Head(pending).type = type
Next == Head(pending).path

\* Faulty variant: what is known already is counted again.
RefreshedTwice(p) ==
  Handled(Pushed(metadatas, p, Size(p)), Placed(order, p.name), FALSE, Size(p))
\* Faulty variant: what is gone already is not looked at.
RefreshedIfThere(p) ==
  IF Exists(p.name)
  THEN Handled(Pushed(metadatas, p, Size(p)), Placed(order, p.name), FALSE,
               Size(p) - Cached(metadatas, p))
  ELSE Handled(metadatas, order, FALSE, 0)
\* __push_file, with the size of now.
Refreshed(p) ==
  Handled(Pushed(metadatas, p, Size(p)), Placed(order, p.name), FALSE,
          Size(p) - Cached(metadatas, p))

\* __on_created.
OnCreated == IsNext("created") /\ Refreshed(Next)

\* __on_modified: of a directory that is there, nothing is to be known.
OnModified ==
  \/ IsNext("root") /\ Handled(metadatas, order, FALSE, 0)
  \/ /\ IsNext("modified")
     /\ IF Next.node = "dir" /\ Exists(Next.name) THEN Handled(metadatas, order, FALSE, 0)
        ELSE Refreshed(Next)

\* __on_deleted.
OnDeleted ==
  /\ IsNext("deleted")
  /\ IF Next \in DOMAIN metadatas
     THEN LET left == Popped(metadatas, Next)
          IN  Handled(left, Renewed(order, left, Next.name), FALSE, -Cached(metadatas, Next))
     ELSE Dies(Next.name)

\* __on_moved, when a task is done.
OnMoved ==
  /\ IsNext("moved")
  /\ LET from == [Next EXCEPT !.name.finished = FALSE]
         left == Popped(metadatas, from)
     IN  IF from \in DOMAIN metadatas
         THEN Handled(Pushed(left, Next, Size(Next)),
                      Placed(Renewed(order, left, from.name), Next.name), TRUE,
                      Size(Next) - Cached(left, Next) - Cached(metadatas, from))
         ELSE Dies(from.name)

-----------------------------------------------------------------------------
(* The tasks of the agent, and watchdog. *)

\* TaskManager.create: assert_storage_sufficient comes first.
CreateTask(w) ==
  /\ phase \in {"on", "dead"} /\ disk[w].place = "none" /\ is_storage_sufficient
  /\ disk' = [disk EXCEPT ![w].place = "running"]
  /\ pending' = Tells(<<Event("created", [task |-> w, finished |-> FALSE], "dir"), RootModified>>)
  /\ UNCHANGED <<missed, raced>> /\ UNCHANGED monitorVars

\* A worker of the task writes; those of an interrupted task may not have ended.
Write(w) ==
  /\ disk[w].place \in Running /\ disk[w].size < MaxSize
  /\ disk' = [disk EXCEPT ![w].size = @ + 1]
  /\ pending' = Tells(IF HasFile(w) THEN <<Event("modified", NameOf(w), "file")>>
                      ELSE <<Event("created", NameOf(w), "file"), Event("modified", NameOf(w), "dir")>>)
  /\ missed' = (missed \/ phase = "started")
  /\ UNCHANGED raced /\ UNCHANGED monitorVars

\* _modify_task_workspace_to_finished. Watchdog tells of the directory and then looks
\* into it.
FinishTask(w) ==
  /\ disk[w].place = "running" /\ disk' = [disk EXCEPT ![w].place = "finished"]
  /\ LET n == [task |-> w, finished |-> TRUE]
     IN  pending' = Tells(<<Event("moved", n, "dir"), RootModified, Event("walk", n, "file")>>)
  /\ UNCHANGED <<missed, raced>> /\ UNCHANGED monitorVars

\* Watchdog looks into the directory that was moved, and tells of what it finds.
Walk ==
  LET walks == {i \in DOMAIN pending : pending[i].type = "walk"}
  IN  \E i \in walks :
        /\ \A j \in walks : i <= j
        /\ pending' = IF Size(pending[i].path) > 0
                      THEN [pending EXCEPT ![i].type = "moved"] ELSE RemoveAt(pending, i)
        /\ UNCHANGED <<disk, missed, raced>> /\ UNCHANGED monitorVars

SMNext ==
  \/ Start \/ Observe \/ OnCreated \/ OnModified \/ OnDeleted \/ OnMoved \/ Walk
  \/ Len(pending) <= MaxBehind /\ \E w \in Task : CreateTask(w) \/ Write(w) \/ FinishTask(w)

SMSpec == SMInit /\ [][SMNext]_smVars

-----------------------------------------------------------------------------
(* Properties. *)

\* The monitor has handled all there is, and it has seen all there was.
UpToDate == phase = "on" /\ pending = <<>> /\ ~missed

\* What the monitor knows comes to be what is on the disk, whatever was written,
\* renamed and removed between an event and its handling.
SizesConverge ==
  UpToDate =>
    /\ DOMAIN metadatas = {p \in Path : Size(p) > 0}
    /\ \A p \in Path : Cached(metadatas, p) = Size(p)
    /\ occupied_size = TotalSize(metadatas)

\* Above alarm_size nothing is left that could be removed.
ClearsEnough ==
  UpToDate /\ occupied_size > alarm_size => \A w \in Task : disk[w].place # "finished"

\* Tasks are accepted within the quota only, and they are refused above alarm_size
\* only, or after a start that has cleared and has heard of nothing since.
FlagIsTrue ==
  UpToDate =>
    /\ is_storage_sufficient => occupied_size <= quota
    /\ ~is_storage_sufficient => occupied_size > alarm_size \/ quiet

\* The thread of the monitor ends only after a directory was removed before watchdog
\* had looked into it.
DiesOnlyInARace == phase = "dead" => raced

=============================================================================
