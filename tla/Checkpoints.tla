------------------------------ MODULE Checkpoints ------------------------------
(***************************************************************************)
(* The checkpoints of a job: the directories in which the coordinator      *)
(* saves them, what a coordinator that is started again finds there, what  *)
(* the job scheduler hears of them, finds of them and deletes of them.     *)
(*                                                                         *)
(* A name is a sequence of letters, or of parts where only the match of    *)
(* whole parts matters; a path is a sequence of letters with "/" in it.    *)
(***************************************************************************)
EXTENDS Integers, Sequences, FiniteSets, SequencesExt

-----------------------------------------------------------------------------
(* Saving and restoring.                                                   *)

\* How far the saving of a checkpoint came before the coordinator ended: its
\* directory, its file, its metrics, its entry in the table that is reported.
Step == {"directory", "file", "metrics", "listed"}
Accuracy == {"none", "zero", "some"}

\* __save_ckpts: metrics are written, and an entry made, only of an accuracy that is
\* there and not zero. A job that is stopped saves without metrics.
Save == {s \in [accuracy : Accuracy, upto : Step] :
           s.accuracy # "some" => s.upto \in {"directory", "file"}}
Complete(s) == s.upto = IF s.accuracy = "some" THEN "listed" ELSE "file"

\* _create_job_dir: a coordinator takes the first version that is not there.
FreeVersion(versions) ==
  CHOOSE v \in 0 .. Cardinality(versions) :
    v \notin versions /\ \A w \in 0 .. v - 1 : w \in versions

\* What a coordinator that saved as it did adds to the output directory; its numbers
\* start again at 0, the name of a checkpoint carries the version too.
Saved(files, saves) ==
  LET v == FreeVersion({f.version : f \in files})
  IN  files \cup {[version |-> v, number |-> n - 1, saved |-> saves[n]] : n \in DOMAIN saves}

Id(f) == <<f.version, f.number>>

\* get_checkpoints, of the directories of one job: what has a file and metrics.
Restored(files) == {Id(f) : f \in {g \in files : g.saved.upto \in {"metrics", "listed"}}}

\* The table that a coordinator reported when it ended.
Reported(files, saves) ==
  Restored(files)
    \cup {Id(f) : f \in {g \in Saved(files, saves) \ files : g.saved.upto = "listed"}}

\* A coordinator ends anywhere in its last save.
Run(length) ==
  {saves \in UNION {[1 .. n -> Save] : n \in 0 .. length} :
     \A n \in DOMAIN saves : n < Len(saves) => Complete(saves[n])}

\* Every checkpoint has a name of its own, over all the coordinators of the job.
IdsDiffer(files) == Cardinality({Id(f) : f \in files}) = Cardinality(files)

\* The next coordinator restores what the last one reported, and at most one more: the
\* checkpoint whose metrics were written when it ended.
RestoresReported(files, saves) ==
  LET after == Restored(Saved(files, saves))
  IN  /\ Reported(files, saves) \subseteq after
      /\ Cardinality(after \ Reported(files, saves)) <= 1

-----------------------------------------------------------------------------
(* The names of directories.                                               *)

DirectoryOf(job) == <<"fl", "_">> \o job \o <<"_", "output", "_", "V0">>

\* re.search with the pattern that get_checkpoints and __do_delete_ckpts make of the
\* name of a job: anywhere in the name of a directory, and no "V" will do.
Matches(job, directory) ==
  LET pattern == <<"fl", "_">> \o job \o <<"_", "output", "_">>
  IN  \E i \in 0 .. Len(directory) - Len(pattern) :
        SubSeq(directory, i + 1, i + Len(pattern)) = pattern

\* A job is given its own directories, and those of every job whose name ends with
\* the beginning of its own.
SharesDirectories(job, other) == other = job \/ IsSuffix(<<"fl", "_">> \o job, other)

-----------------------------------------------------------------------------
(* The path of a checkpoint.                                               *)

Workspace == <<"/", "f", "l">>

\* str.lstrip: letters, not a prefix.
LStrip(path, letters) ==
  LET kept == {i \in DOMAIN path : path[i] \notin letters}
  IN  IF kept = {} THEN <<>>
      ELSE SubSeq(path, CHOOSE i \in kept : \A j \in kept : i <= j, Len(path))

\* os.path.join.
Joined(directory, path) ==
  IF path # <<>> /\ path[1] = "/" THEN path ELSE directory \o <<"/">> \o path

\* Where the coordinator has the output of a job, and what it reports of a file there.
FilePath(namespace, output) == Joined(Joined(Workspace, namespace), LStrip(output, {"/"}))
ReportedPath(namespace, output) == LStrip(FilePath(namespace, output), ToSet(Workspace))

\* assert_checkpoint_existing, and the model path of a coordinator that is started
\* from a checkpoint: the reported path, below the namespace.
LookedUpPath(namespace, path) == Joined(Joined(Workspace, namespace), LStrip(path, {"/"}))

Found(namespace, output) ==
  LookedUpPath(namespace, ReportedPath(namespace, output)) = FilePath(namespace, output)

\* The namespace is in the reported path already: the file is found only when the
\* letters that are stripped are those of the namespace, and none of the output.
StrippedRight(namespace, output) ==
  /\ ToSet(namespace) \subseteq ToSet(Workspace)
  /\ LStrip(output, ToSet(Workspace)) = LStrip(output, {"/"})

-----------------------------------------------------------------------------
(* The heartbeat that carries them.                                        *)

CoordinatorState == {"STARTING", "RUNNING", "FINISHED", "FAILED", "STOPPING", "STOPPED"}
ALL_STATES == CoordinatorState \cup {"QUEUING", "DELETING", "PENDING"}

\* __do_report_progress, in a round of so many, with the metrics of the checkpoints: an
\* average of the clients', which is a fraction.
Heartbeat(state, round, max_rounds, paths) ==
  [plain |-> TRUE, state |-> state, progress |-> (100 * round) \div max_rounds,
   checkpoints |-> {[path |-> p, accuracy |-> "fraction"] : p \in paths}]

\* validate_heartbeat.
HeartbeatValid(h) ==
  /\ h.plain
  /\ h.progress \in 0 .. 100
  /\ h.state \in ALL_STATES
  /\ \A c \in h.checkpoints : c.path # <<>> /\ c.accuracy = "fraction"

==============================================================================
