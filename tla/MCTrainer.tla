------------------------------ MODULE MCTrainer ------------------------------
(* Model-checking instances of Trainer, and of the configurations it runs.  *)
EXTENDS Trainer, JobConfig, TLC

-----------------------------------------------------------------------------
(* Configurations: the counts and thresholds around their limits, with every *)
(* way of secure aggregation; and one field at a time around its own limits. *)

PlainJob ==
  [plain |-> TRUE, runtime |-> "pytorch", port |-> NotGiven, entry |-> {"task_entry"},
   scripts |-> FALSE, model |-> {"model_path"},
   hyper_parameters |-> [k \in HyperParameter |-> NotGiven],
   resource |-> [k \in Resource |-> NotGiven],
   secure_algorithm |-> [type |-> "none", noise_multiplier |-> NotGiven,
                         threshold |-> NotGiven, mode |-> NotGiven],
   compression |-> [type |-> "none", rate |-> NotGiven]]

WithCounts(n, t) ==
  [PlainJob EXCEPT !.hyper_parameters["client_num"] = n,
                !.hyper_parameters["threshold_client_num"] = t]
Few == {NotGiven, Mistyped, Null} \cup 0 .. 5
Modes == {NotGiven, Null, "onemask", "doublemask", "other"}

Aggregating ==
  {[WithCounts(n, t) EXCEPT !.secure_algorithm = [type |-> type, noise_multiplier |-> x,
                                               threshold |-> s, mode |-> m]] :
     n \in Few, t \in Few, s \in Few, m \in Modes, x \in {NotGiven, 1}, type \in {"none", "DP", "SSA"}}

OneField ==
  {[PlainJob EXCEPT !.entry = e, !.scripts = s, !.compression = [type |-> z, rate |-> r],
                 !.secure_algorithm = [@ EXCEPT !.type = a, !.noise_multiplier = 1],
                 !.runtime = t] :
     e \in SUBSET {"task_entry", "scripts"}, s \in BOOLEAN, a \in {"none", "DP"},
     z \in {"none", "QUANTIZATION", "SUBSAMPLING", "other"},
     r \in {NotGiven, Mistyped, 0, 1, 2, 16, 17, 1000}, t \in {"pytorch", "PyTorch", "keras"}}
  \cup {[PlainJob EXCEPT !.resource = r, !.port = p] :
          r \in [Resource -> {NotGiven, Mistyped, -1, 0, 1}],
          p \in {NotGiven, Mistyped, 1023, 1024, 65535, 65536}}
  \cup {[PlainJob EXCEPT !.hyper_parameters[k] = v] : k \in HyperParameter, v \in Few \cup {-1}}

\* What the rules of the scheduler are worth to the coordinator and to the clients,
\* and that each exception is one.
ASSUME AdmissionIsSound ==
  \A c \in Aggregating \cup OneField :
    Created(c) =>
      /\ CountsInOrder(Started(c).hyper_parameters)
      /\ UsesSSA(c) => ThresholdInOrder(Started(c).secure_algorithm, Started(c).hyper_parameters)
      /\ CoordinatorAccepts(Started(c)) /\ RuntimeLoads(Started(c)) <=> ~Overlooked(c)
      /\ ClientAccepts(Started(c)) <=> ~Idle(c)

-----------------------------------------------------------------------------
(* Checkpoints.                                                            *)

Files == INSTANCE Checkpoints

\* Two coordinators of one job, each of at most three checkpoints, each ending anywhere
\* in its last: no two checkpoints share a name, and a coordinator that is started
\* again restores the table that the last one reported.
ASSUME CheckpointsSurvive ==
  \A first \in Files!Run(3), second \in Files!Run(3) :
    LET left == Files!Saved({}, first)
    IN  /\ Files!IdsDiffer(Files!Saved(left, second))
        /\ Files!RestoresReported({}, first) /\ Files!RestoresReported(left, second)

Words(letters, n) == UNION {[1 .. k -> letters] : k \in 1 .. n}

\* Which directories the checkpoints of a job are restored from, and deleted with it.
ASSUME DirectoriesOfAJob ==
  \A job, other \in Words({"a", "_", "fl"}, 4) :
    Files!Matches(job, Files!DirectoryOf(other)) <=> Files!SharesDirectories(job, other)

\* Which checkpoints the job scheduler finds under the path that was reported.
ASSUME CheckpointsAreReported ==
  \A namespace \in Words({"f", "l", "d"}, 3), output \in Words({"f", "d"}, 3) :
    /\ Files!Found(namespace, output) <=> Files!StrippedRight(namespace, output)
    /\ Files!ReportedPath(namespace, Files!Joined(output, <<"c">>)) # <<>>

\* The job scheduler takes every heartbeat that a coordinator makes.
ASSUME HeartbeatsAreTaken ==
  \A st \in Files!CoordinatorState, rounds \in 1 .. 7 : \A r \in 0 .. rounds :
    Files!HeartbeatValid(
      Files!Heartbeat(st, r, rounds, {Files!ReportedPath(<<"f">>, <<"d">>)}))

==============================================================================
