------------------------------- MODULE JobConfig -------------------------------
(***************************************************************************)
(* What becomes of the configuration of a job: the job scheduler validates *)
(* it and fills in what secure aggregation needs, the coordinator that is  *)
(* started with it sets the defaults and validates it once more, and every *)
(* client validates the task made from it. Three programs, three sets of   *)
(* rules: this module says of a configuration what each of them says.      *)
(*                                                                         *)
(* A value is an integer, or it was not given, or it has another type, or  *)
(* it is null. Fractions (cpu, learning_rate, rates) are counted in        *)
(* thousandths. Fields that are only tested for their type are one: plain. *)
(***************************************************************************)
EXTENDS Integers

CONSTANTS NotGiven, Mistyped, Null

ASSUME ValuesDiffer ==
  /\ NotGiven \notin Int /\ Mistyped \notin Int /\ Null \notin Int
  /\ NotGiven # Mistyped /\ Null \notin {NotGiven, Mistyped}
  /\ \A text \in {"onemask", "doublemask", "other"} : text \notin {NotGiven, Mistyped, Null}

Value == Int \cup {NotGiven, Mistyped, Null}

HyperParameter ==
  {"max_round_num", "client_num", "threshold_client_num", "round_timeout",
   "evaluate_interval", "save_interval", "learning_rate"}
Resource == {"worker_num", "cpu", "memory", "gpu"}

Config ==
  [plain : BOOLEAN,
   runtime : {"tensorflow", "pytorch", "PyTorch", "keras"},
   port : Value,
   entry : SUBSET {"task_entry", "scripts"},
   scripts : BOOLEAN,                       \* its path and config_file are there
   model : SUBSET {"model_path", "model_id", "checkpoint_id"},
   hyper_parameters : [HyperParameter -> Value],
   resource : [Resource -> Value],
   secure_algorithm : [type : {"none", "DP", "SSA", "other"}, noise_multiplier : Value,
                       threshold : Value,
                       mode : {NotGiven, Mistyped, Null, "onemask", "doublemask", "other"}],
   compression : [type : {"none", "QUANTIZATION", "SUBSAMPLING", "SELECTIVE_MASKING", "other"},
                  rate : Value]]

Or(v, default) == IF v = NotGiven THEN default ELSE v

\* _validate_required_paras and _validate_optional_paras, of a numeric field.
Required(v) == v \in Int
Optional(v) == v = NotGiven \/ v \in Int

-----------------------------------------------------------------------------
(* The job scheduler.                                                      *)

\* _validate_runtime: whatever the case of its letters.
RuntimeSupported(c) == c.runtime \in {"tensorflow", "pytorch", "PyTorch"}

\* _validate_port, of a port that is given.
Port == 1024 .. 65535
PortValid(v) == Optional(v) /\ (v # NotGiven => v \in Port)

\* _validate_resource.
ResourceValid(r) == \A k \in Resource : Optional(r[k]) /\ (r[k] # NotGiven => r[k] >= 0)

\* _validate_hyper_parameters.
HyperParametersValid(h) ==
  /\ \A k \in HyperParameter : Optional(h[k]) /\ (h[k] # NotGiven => h[k] > 0)
  /\ Or(h["threshold_client_num"], 1) <= Or(h["client_num"], 1)

\* _validate_secure_algorithm.
SecureAlgorithmValid(s) ==
  /\ s.type # "other"
  /\ s.type = "DP" => Required(s.noise_multiplier)
  /\ s.type = "SSA" => Optional(s.threshold) /\ s.mode \in {NotGiven, "onemask", "doublemask"}

\* __set_and_validate_mode_with_ssa and __set_and_validate_ssa_config: what is
\* not given is set.
WithSSADefaults(s, threshold_client_num) ==
  [s EXCEPT !.mode = Or(@, "doublemask"), !.threshold = Or(@, threshold_client_num)]

\* What both programs ask of the threshold; client_num / 2 is a fraction.
ThresholdValid(s, client_num, threshold_client_num) ==
  /\ 2 * threshold_client_num >= client_num /\ 2 * s.threshold >= client_num
  /\ s.threshold >= 2 /\ s.threshold <= threshold_client_num
\* What the job scheduler asks besides.
OneMaskValid(s, client_num, threshold_client_num) ==
  s.mode = "onemask" => s.threshold = client_num /\ threshold_client_num = client_num

\* validate_job_config, up to the last step.
FieldsValid(c) ==
  /\ c.plain
  /\ c.entry # {} /\ c.model # {}
  /\ RuntimeSupported(c)
  /\ PortValid(c.port)
  /\ "scripts" \in c.entry => c.scripts
  /\ ResourceValid(c.resource)
  /\ HyperParametersValid(c.hyper_parameters)
  /\ SecureAlgorithmValid(c.secure_algorithm)

UsesSSA(c) == c.secure_algorithm.type = "SSA"
\* The last step reads client_num and threshold_client_num of the request.
CountsGiven(c) ==
  NotGiven \notin {c.hyper_parameters["client_num"], c.hyper_parameters["threshold_client_num"]}

SSAConfigValid(c) ==
  LET h == c.hyper_parameters
      s == WithSSADefaults(c.secure_algorithm, h["threshold_client_num"])
  IN  /\ ThresholdValid(s, h["client_num"], h["threshold_client_num"])
      /\ OneMaskValid(s, h["client_num"], h["threshold_client_num"])

\* The answer to the request that creates the job: it is there, or it is refused,
\* or the KeyError of a missing count is an internal error.
Response(c) ==
  IF ~FieldsValid(c) THEN 403
  ELSE IF ~UsesSSA(c) THEN 201
  ELSE IF ~CountsGiven(c) THEN 500
  ELSE IF SSAConfigValid(c) THEN 201 ELSE 403

\* What is recorded of a job that was created.
Recorded(c) ==
  IF UsesSSA(c)
  THEN [c EXCEPT !.secure_algorithm =
          WithSSADefaults(@, c.hyper_parameters["threshold_client_num"])]
  ELSE c

-----------------------------------------------------------------------------
(* The coordinator.                                                        *)

DefaultHyperConfig ==
  [k \in HyperParameter |-> CASE k = "max_round_num" -> 10
                              [] k = "round_timeout" -> 3600
                              [] k = "evaluate_interval" -> 2
                              [] k = "save_interval" -> 5
                              [] k = "learning_rate" -> 1000
                              [] OTHER -> 1]

\* _set_default_value, and the default port.
WithDefaults(c) ==
  [c EXCEPT !.hyper_parameters = [k \in HyperParameter |-> Or(@[k], DefaultHyperConfig[k])],
            !.port = Or(@, 50051)]

\* _validate_optional lets null pass.
Lenient(v) == v # Mistyped

\* _validate_task_entry.
TaskEntryValid(c) ==
  /\ c.entry \in {{"task_entry"}, {"scripts"}}
  /\ "scripts" \in c.entry => c.scripts

\* __validate_secure_algorithm_with_dp and with_ssa.
CoordinatorSecureValid(s) ==
  /\ s.type # "other"
  /\ s.type = "DP" => Required(s.noise_multiplier)
  /\ s.type = "SSA" => /\ Lenient(s.threshold)
                       /\ s.mode \in {NotGiven, "onemask", "doublemask"}

\* _validate_compression_algorithm, with the checks of the three algorithms.
CompressionValid(z) ==
  /\ z.type # "other" /\ (z.type # "none" => Required(z.rate))
  /\ z.type = "QUANTIZATION" => z.rate \in 2 .. 16
  /\ z.type \in {"SUBSAMPLING", "SELECTIVE_MASKING"} => z.rate \in 1 .. 999

\* validate_config, of a configuration with its defaults.
CoordinatorAccepts(c) ==
  LET h == c.hyper_parameters
      s == WithSSADefaults(c.secure_algorithm, h["threshold_client_num"])
  IN  /\ c.plain /\ c.model # {} /\ Required(c.port)
      /\ \A k \in HyperParameter : Lenient(h[k])
      /\ c.secure_algorithm.type = "none" \/ c.compression.type = "none"
      /\ CoordinatorSecureValid(c.secure_algorithm)
      /\ UsesSSA(c) => ThresholdValid(s, h["client_num"], h["threshold_client_num"])
      /\ CompressionValid(c.compression)
      /\ TaskEntryValid(c)

\* _check_runtime, when the coordinator makes its model: the case counts.
RuntimeLoads(c) == c.runtime \in {"tensorflow", "pytorch"}

-----------------------------------------------------------------------------
(* The clients.                                                            *)

\* __construct_broadcast_task: the resource of the task.
TaskResource(c) ==
  [k \in Resource |-> Or(c.resource[k], CASE k = "worker_num" -> 1 [] k = "cpu" -> 1000
                                          [] k = "memory" -> 1000 [] k = "gpu" -> 0)]

\* __validate_resource: a least value of 0 is not looked at.
ClientAccepts(c) ==
  LET r == TaskResource(c)
  IN  r["worker_num"] >= 1 /\ \E k \in {"cpu", "memory", "gpu"} : r[k] # 0

-----------------------------------------------------------------------------
(* What the rules of one program do for the next.                          *)

\* What the rounds assume of their parameters.
CountsInOrder(h) ==
  /\ \A k \in HyperParameter : h[k] \in Int /\ h[k] >= 1
  /\ h["threshold_client_num"] <= h["client_num"]

\* What secure aggregation assumes of its parameters.
ThresholdInOrder(s, h) ==
  /\ s.threshold \in Int /\ s.threshold >= 2
  /\ s.threshold <= h["threshold_client_num"] /\ h["client_num"] <= 2 * s.threshold
  /\ s.mode \in {"onemask", "doublemask"}
  /\ s.mode = "onemask" => s.threshold = h["client_num"]

\* What the scheduler does not look at and the coordinator stumbles over: both
\* kinds of entry at once (docs/apis.md:77), compression, and a runtime that is
\* not written in small letters.
Overlooked(c) ==
  \/ c.entry = {"task_entry", "scripts"}
  \/ ~CompressionValid(c.compression)
  \/ c.compression.type # "none" /\ c.secure_algorithm.type # "none"
  \/ ~RuntimeLoads(c)

\* What neither looks at and every client refuses.
Idle(c) ==
  \/ c.resource["worker_num"] = 0
  \/ \A k \in {"cpu", "memory", "gpu"} : TaskResource(c)[k] = 0

Created(c) == Response(c) = 201
Started(c) == WithDefaults(Recorded(c))

==============================================================================
