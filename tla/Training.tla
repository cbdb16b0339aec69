------------------------------- MODULE Training -------------------------------
(***************************************************************************)
(* What a coordinator promises whoever started it: rounds are run in their *)
(* order, none is begun once the job was told to stop, each adds at most   *)
(* one update to the model, and the verdict it reports at its end is the   *)
(* one the rounds deserve.                                                 *)
(***************************************************************************)
EXTENDS Naturals

CONSTANT max_round_num

VARIABLES
  round,     \* the number of the round that runs
  improved,  \* the rounds whose result went into the model
  stopping,  \* was the job told to stop?
  outcome    \* "RUNNING" until the job ends

vars == <<round, improved, stopping, outcome>>

TrainingInit ==
  round = 1 /\ improved = {} /\ stopping = FALSE /\ outcome = "RUNNING"

Learns == improved' \in {improved, improved \cup {round}}

Verdict ==
  IF improved' = {} THEN "FAILED" ELSE IF stopping' THEN "STOPPED" ELSE "FINISHED"

Evaluates ==
  /\ outcome = "RUNNING" /\ Learns
  /\ UNCHANGED <<round, stopping, outcome>>

GoesOn ==
  /\ outcome = "RUNNING" /\ ~stopping /\ Learns
  /\ round < max_round_num /\ round' = round + 1
  /\ UNCHANGED <<stopping, outcome>>

\* A round whose extender failed stops the job by itself.
Ends ==
  /\ outcome = "RUNNING" /\ Learns
  /\ stopping' \in {stopping, TRUE}
  /\ stopping' \/ round = max_round_num
  /\ outcome' = Verdict
  /\ UNCHANGED round

Stops ==
  /\ outcome = "RUNNING" /\ stopping' = TRUE
  /\ UNCHANGED <<round, improved, outcome>>

Crashes ==
  /\ outcome = "RUNNING" /\ outcome' = "CRASHED"
  /\ UNCHANGED <<round, improved, stopping>>

TrainingNext == Evaluates \/ GoesOn \/ Ends \/ Stops \/ Crashes

TrainingSpec == TrainingInit /\ [][TrainingNext]_vars

\* It comes to its end, stopped or not.
Completes == <>(outcome # "RUNNING")

TrainingFairSpec == TrainingSpec /\ Completes

==============================================================================
