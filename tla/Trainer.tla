-------------------------------- MODULE Trainer --------------------------------
(***************************************************************************)
(* The coordinator's job: class Trainer of coordinator/trainer.py, which   *)
(* runs the rounds of RoundController one after the other. Between the     *)
(* answer to the release of one round and the call of the selector for the *)
(* next one nothing suspends, so the steps of Trainer are the ends of      *)
(* rounds (RoundOver) and the stop command.                                *)
(***************************************************************************)
EXTENDS RoundController

CONSTANTS
  max_round_num,      \* rounds of the job
  evaluate_interval,  \* evaluate after every so many rounds; 0: only after the last
  save_interval       \* save a checkpoint after every so many rounds; 0: likewise

ASSUME TrainerAssumption ==
  max_round_num \in Nat \ {0} /\ evaluate_interval \in Nat /\ save_interval \in Nat

VARIABLES
  force,        \* __force_stop
  state,        \* __state, as it is reported to the job scheduler
  stats,        \* __stats: how many rounds succeeded and failed
  model,        \* the updates in the global model: the replies averaged in each round
  checkpoints   \* the rounds with an entry in __checkpoints

trainerVars == <<force, state, stats, model, checkpoints>>
vars == <<roundVars, trainerVars>>

TrainerTypeOK ==
  /\ RoundTypeOK
  /\ round.id \in 1 .. max_round_num
  /\ force \in BOOLEAN
  /\ state \in {"RUNNING", "STOPPING", "STOPPED", "FINISHED", "FAILED"}
  /\ stats \in [success : Nat, failed : Nat]
  /\ model \subseteq [round : 1 .. max_round_num, of : SUBSET Reply]
  /\ checkpoints \subseteq 1 .. max_round_num

-----------------------------------------------------------------------------

Due(interval) ==
  \/ interval > 0 /\ round.id % interval = 0
  \/ round.id = max_round_num

\* A round object is made, and its controller asks the selector for clients.
Begins(id, kind) ==
  /\ round' = [id |-> id, kind |-> kind]
  /\ ctl' = NewController /\ agg' = NewAggregator

\* The state start() reports last.
Verdict(s, f) ==
  IF s.success = 0 THEN "FAILED" ELSE IF f THEN "STOPPED" ELSE "FINISHED"

\* Faulty variant: the end of training is not looked for between rounds.
GoesOnRegardless(f) == round.id < max_round_num
\* The loop of start(): is there another round to run?
GoesOn(f) == round.id < max_round_num /\ ~f

\* The end of a round number: __calculate_statistics, __clean_round, and the next
\* round or the end of the job.
NumberOver(ok, f) ==
  LET s == IF ok THEN [stats EXCEPT !.success = @ + 1]
                 ELSE [stats EXCEPT !.failed = @ + 1] IN
  /\ stats' = s /\ force' = f
  /\ IF GoesOn(f)
       THEN Begins(round.id + 1, "train") /\ UNCHANGED state
       ELSE /\ state' = Verdict(s, f)
            /\ ctl' = [ctl EXCEPT !.phase = "done"]
            /\ UNCHANGED <<round, agg>>

\* Faulty variant: what a failed round left is evaluated and saved.
TrainingFailedRegardless ==
  /\ ctl.status = "failed"
  /\ Begins(round.id, "evaluate")
  /\ UNCHANGED <<force, state, stats, model, checkpoints>>
\* __process_round_result for a train round that failed.
TrainingFailed ==
  /\ ctl.status = "failed"
  /\ NumberOver(FALSE, force \/ ctl.code = "ExtendFailed")
  /\ UNCHANGED <<model, checkpoints>>

\* __update_model, and __default_process up to the next round.
TrainingSucceeded ==
  /\ ctl.status = "ok"
  /\ model' = model \cup {[round |-> round.id, of |-> agg.total]}
  /\ IF Due(evaluate_interval) \/ Due(save_interval)
       THEN Begins(round.id, "evaluate") /\ UNCHANGED <<force, state, stats>>
       ELSE NumberOver(TRUE, force)
  /\ UNCHANGED checkpoints

\* __save_ckpts: the checkpoint gets an entry if the evaluation measured an accuracy.
Saved(measured) ==
  IF measured /\ Due(save_interval) THEN {checkpoints, checkpoints \cup {round.id}}
                                     ELSE {checkpoints}

\* After the evaluation: it is repeated for the checkpoint when it brought no metrics.
EvaluationOver ==
  \E measured \in {FALSE, ctl.status = "ok"} :
    /\ IF ~measured /\ round.kind = "evaluate" /\ Due(evaluate_interval) /\ Due(save_interval)
         THEN Begins(round.id, "reevaluate") /\ UNCHANGED <<force, state, stats, checkpoints>>
         ELSE checkpoints' \in Saved(measured) /\ NumberOver(TRUE, force)
    /\ UNCHANGED model

\* The answer to the release of a round, and everything up to the next await.
RoundOver ==
  /\ ctl.phase = "release"
  /\ IF Training THEN TrainingFailed \/ TrainingSucceeded ELSE EvaluationOver
  /\ UNCHANGED <<tasks, net, faults>>

\* __process_stop_cmd.
StopCommand ==
  /\ Stop
  /\ force' = TRUE /\ state' = "STOPPING"
  /\ UNCHANGED <<stats, model, checkpoints>>

-----------------------------------------------------------------------------

Init ==
  /\ RoundInit
  /\ force = FALSE /\ state = "RUNNING"
  /\ stats = [success |-> 0, failed |-> 0]
  /\ model = {} /\ checkpoints = {}

Next ==
  \/ RoundStep /\ UNCHANGED trainerVars
  \/ RoundOver
  \/ StopCommand

Spec == Init /\ [][Next]_vars

\* Calls are answered, the event loop runs what is ready, and the timer of a round
\* expires. Nothing is assumed of the clients.
Fairness ==
  /\ WF_vars(Runs /\ UNCHANGED trainerVars) /\ WF_vars(TimerFires /\ UNCHANGED trainerVars)
  /\ \A c \in Client : WF_vars(Calls(c) /\ UNCHANGED trainerVars)
  /\ WF_vars(RoundOver)

FairSpec == Spec /\ Fairness

-----------------------------------------------------------------------------
(* Properties.                                                             *)

\* The model holds nothing but averages over the updates that enough clients sent
\* for the very round they were added in, and each of the rounds at most once.
ModelIsFromQuorums ==
  /\ \A u \in model :
       /\ Cardinality(Contributors(u.of)) >= threshold
       /\ \A m \in u.of : m.kind = "train" /\ m.round = u.round
  /\ \A u, v \in model : u.round = v.round => u = v

\* A checkpoint with metrics is one of a round that improved the model.
CheckpointsAreOfTheModel == checkpoints \subseteq {u.round : u \in model}

\* The coordinator keeps the promises of Training.
Promise == INSTANCE Training WITH
  round <- round.id,
  improved <- {u.round : u \in model},
  stopping <- force,
  outcome <- IF ctl.phase = "crashed" THEN "CRASHED"
             ELSE IF Running THEN "RUNNING" ELSE state
TrainsAsPromised == Promise!TrainingFairSpec

==============================================================================
