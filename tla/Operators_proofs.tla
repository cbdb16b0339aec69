---------------------------- MODULE Operators_proofs ----------------------------
(***************************************************************************)
(* Proofs about the modules that have operators and no variables: what a   *)
(* job that was created can rely on (JobConfig), and what the operations   *)
(* of a task of the cloud promise, whatever was there before and whatever  *)
(* call of the API goes wrong (CloudTask).                                 *)
(***************************************************************************)
EXTENDS JobConfig, CloudTask, TLAPS

-----------------------------------------------------------------------------
(* The configuration of a job.                                             *)

LEMMA OrInt ==
  ASSUME NEW v, Optional(v), NEW d \in Int PROVE Or(v, d) \in Int
  BY DEF Or, Optional

LEMMA OrPositive ==
  ASSUME NEW v, Optional(v), v # NotGiven => v > 0, NEW d \in Int, d > 0
  PROVE  Or(v, d) \in Int /\ Or(v, d) >= 1
  BY DEF Or, Optional

LEMMA PortGiven ==
  ASSUME NEW v, PortValid(v) PROVE Or(v, 50051) \in Int
  BY OrInt DEF PortValid

LEMMA DefaultsPositive ==
  ASSUME NEW k \in HyperParameter
  PROVE  DefaultHyperConfig[k] \in Int /\ DefaultHyperConfig[k] > 0
  BY DEF DefaultHyperConfig, HyperParameter

LEMMA CreatedMeans ==
  ASSUME NEW c \in Config, Created(c)
  PROVE  FieldsValid(c) /\ (UsesSSA(c) => CountsGiven(c) /\ SSAConfigValid(c))
  BY DEF Created, Response

\* The hyper parameters of a coordinator, by those of the request.
LEMMA StartedHyper ==
  ASSUME NEW c \in Config, NEW k \in HyperParameter
  PROVE  Started(c).hyper_parameters[k] = Or(c.hyper_parameters[k], DefaultHyperConfig[k])
  BY DEF Started, WithDefaults, Recorded, Config

LEMMA StartedRest ==
  ASSUME NEW c \in Config
  PROVE  /\ Started(c).plain = c.plain /\ Started(c).model = c.model
         /\ Started(c).entry = c.entry /\ Started(c).scripts = c.scripts
         /\ Started(c).compression = c.compression /\ Started(c).runtime = c.runtime
         /\ Started(c).resource = c.resource /\ Started(c).port = Or(c.port, 50051)
         /\ Started(c).secure_algorithm = IF UsesSSA(c)
              THEN WithSSADefaults(c.secure_algorithm, c.hyper_parameters["threshold_client_num"])
              ELSE c.secure_algorithm
  BY DEF Started, WithDefaults, Recorded, Config

LEMMA StartedType ==
  ASSUME NEW c \in Config
  PROVE  Started(c).secure_algorithm.type = c.secure_algorithm.type
<1>1. WithSSADefaults(c.secure_algorithm, c.hyper_parameters["threshold_client_num"]).type
        = c.secure_algorithm.type
  BY DEF WithSSADefaults, Config
<1> QED
  BY <1>1, StartedRest

\* Whatever the request said and left out, the rounds of a job that was created
\* get counts that are in order (validations.py:112 with coordinator/validations.py:44).
THEOREM CreatedCountsInOrder ==
  ASSUME NEW c \in Config, Created(c) PROVE CountsInOrder(Started(c).hyper_parameters)
<1> DEFINE h == c.hyper_parameters
           g == Started(c).hyper_parameters
<1>1. HyperParametersValid(h)
  BY CreatedMeans DEF FieldsValid
<1>2. ASSUME NEW k \in HyperParameter PROVE g[k] \in Int /\ g[k] >= 1
  BY <1>1, StartedHyper, DefaultsPositive, OrPositive DEF HyperParametersValid
<1>3. /\ g["threshold_client_num"] = Or(h["threshold_client_num"], 1)
      /\ g["client_num"] = Or(h["client_num"], 1)
  BY StartedHyper DEF HyperParameter, DefaultHyperConfig
<1>4. g["threshold_client_num"] <= g["client_num"]
  BY <1>1, <1>3 DEF HyperParametersValid
<1> QED
  BY <1>2, <1>4 DEF CountsInOrder

\* A threshold that was accepted, or set because none was given, is one secure
\* aggregation can work with (validations.py:186-214).
THEOREM CreatedThresholdInOrder ==
  ASSUME NEW c \in Config, Created(c), UsesSSA(c)
  PROVE  ThresholdInOrder(Started(c).secure_algorithm, Started(c).hyper_parameters)
<1> DEFINE h == c.hyper_parameters
           s == WithSSADefaults(c.secure_algorithm, h["threshold_client_num"])
<1>1. CountsGiven(c) /\ SSAConfigValid(c) /\ FieldsValid(c)
  BY CreatedMeans
<1>2. Started(c).secure_algorithm = s
  BY StartedRest
<1>3. /\ h["client_num"] \in Int /\ h["threshold_client_num"] \in Int
      /\ Started(c).hyper_parameters["client_num"] = h["client_num"]
      /\ Started(c).hyper_parameters["threshold_client_num"] = h["threshold_client_num"]
  BY <1>1, StartedHyper
     DEF CountsGiven, FieldsValid, HyperParametersValid, Optional, Or, HyperParameter
<1>4. /\ s.threshold = Or(c.secure_algorithm.threshold, h["threshold_client_num"])
      /\ s.mode = Or(c.secure_algorithm.mode, "doublemask")
  BY DEF WithSSADefaults, Config
<1>5. /\ Optional(c.secure_algorithm.threshold)
      /\ c.secure_algorithm.mode \in {NotGiven, "onemask", "doublemask"}
  BY <1>1 DEF FieldsValid, SecureAlgorithmValid, UsesSSA
<1>6. s.threshold \in Int
  BY <1>3, <1>4, <1>5, OrInt
<1>7. s.mode \in {"onemask", "doublemask"}
  BY <1>4, <1>5 DEF Or
<1>8. /\ ThresholdValid(s, h["client_num"], h["threshold_client_num"])
      /\ OneMaskValid(s, h["client_num"], h["threshold_client_num"])
  BY <1>1 DEF SSAConfigValid
<1> QED
  BY <1>2, <1>3, <1>6, <1>7, <1>8 DEF ThresholdInOrder, ThresholdValid, OneMaskValid

\* Nothing but what the scheduler overlooks makes the coordinator of a job that
\* was created refuse its configuration.
THEOREM CreatedStarts ==
  ASSUME NEW c \in Config, Created(c), ~Overlooked(c)
  PROVE  CoordinatorAccepts(Started(c)) /\ RuntimeLoads(Started(c))
<1> DEFINE d == Started(c)
           h == d.hyper_parameters
           s == WithSSADefaults(d.secure_algorithm, h["threshold_client_num"])
<1>1. FieldsValid(c)
  BY CreatedMeans
<1>2. d.plain /\ d.model # {} /\ Required(d.port)
  <2>1. Or(c.port, 50051) \in Int
    BY <1>1, PortGiven DEF FieldsValid
  <2>2. c.plain /\ c.model # {}
    BY <1>1 DEF FieldsValid
  <2>3. d.plain = c.plain /\ d.model = c.model /\ d.port = Or(c.port, 50051)
    BY StartedRest
  <2> QED
    BY <2>1, <2>2, <2>3 DEF Required
<1>3. CountsInOrder(h)
  BY CreatedCountsInOrder
<1>4. \A k \in HyperParameter : Lenient(h[k])
  BY <1>3, ValuesDiffer DEF CountsInOrder, Lenient
<1>5. d.secure_algorithm.type = c.secure_algorithm.type
  BY StartedType
<1>6. d.secure_algorithm.type = "none" \/ d.compression.type = "none"
  BY <1>5, StartedRest DEF Overlooked
<1>7. CompressionValid(d.compression) /\ RuntimeLoads(d)
  BY StartedRest DEF Overlooked, RuntimeLoads
<1>8. TaskEntryValid(d)
  <2>1. c.entry \in SUBSET {"task_entry", "scripts"} /\ c.entry # {}
    BY <1>1 DEF FieldsValid, Config
  <2>2. c.entry # {"task_entry", "scripts"}
    BY DEF Overlooked
  <2>3. c.entry \in {{"task_entry"}, {"scripts"}}
    BY <2>1, <2>2
  <2> QED
    BY <2>3, <1>1, StartedRest DEF TaskEntryValid, FieldsValid
<1>9. CoordinatorSecureValid(d.secure_algorithm) /\ (UsesSSA(d) =>
        ThresholdValid(s, h["client_num"], h["threshold_client_num"]))
  <2>1. CASE UsesSSA(c)
    <3>1. ThresholdInOrder(d.secure_algorithm, h)
      BY <2>1, CreatedThresholdInOrder
    <3>2. d.secure_algorithm =
            WithSSADefaults(c.secure_algorithm, c.hyper_parameters["threshold_client_num"])
      BY <2>1, StartedRest
    <3>3. s.threshold = Or(d.secure_algorithm.threshold, h["threshold_client_num"])
      BY <3>2 DEF WithSSADefaults, Config
    <3>4. s.threshold = d.secure_algorithm.threshold
      BY <3>1, <3>3, ValuesDiffer DEF ThresholdInOrder, Or
    <3>5. ThresholdValid(s, h["client_num"], h["threshold_client_num"])
      <4>1. h["client_num"] \in Int /\ h["threshold_client_num"] \in Int
        BY <1>3 DEF CountsInOrder, HyperParameter
      <4> QED
        BY <4>1, <3>1, <3>4 DEF ThresholdInOrder, ThresholdValid
    <3>6. CoordinatorSecureValid(d.secure_algorithm)
      BY <2>1, <1>5, <3>1, ValuesDiffer
         DEF CoordinatorSecureValid, ThresholdInOrder, UsesSSA, Lenient
    <3> QED
      BY <3>5, <3>6
  <2>2. CASE ~UsesSSA(c)
    <3>1. d.secure_algorithm = c.secure_algorithm
      BY <2>2, StartedRest
    <3> QED
      BY <2>2, <3>1, <1>1 DEF UsesSSA, CoordinatorSecureValid, FieldsValid, SecureAlgorithmValid
  <2> QED
    BY <2>1, <2>2
<1> QED
  BY <1>2, <1>4, <1>6, <1>7, <1>8, <1>9 DEF CoordinatorAccepts

\* And no client refuses its task, unless it asks for no worker or for nothing.
THEOREM CreatedIsServed ==
  ASSUME NEW c \in Config, Created(c), ~Idle(c) PROVE ClientAccepts(Started(c))
<1>1. ResourceValid(c.resource)
  BY CreatedMeans DEF FieldsValid
<1>2. TaskResource(Started(c)) = TaskResource(c)
  <2>1. Started(c).resource = c.resource
    BY StartedRest
  <2> HIDE DEF Started
  <2> QED
    BY <2>1 DEF TaskResource
<1>3. TaskResource(c)["worker_num"] = Or(c.resource["worker_num"], 1)
  BY DEF TaskResource, Resource
<1>4. TaskResource(c)["worker_num"] >= 1
  BY <1>1, <1>3 DEF ResourceValid, Resource, Optional, Or, Idle
<1> QED
  BY <1>2, <1>4 DEF ClientAccepts, Idle

-----------------------------------------------------------------------------
(* The tasks of the cloud.                                                 *)

\* An answer of the API: carried out and told, or in trouble, carried out or not.
LEMMA AnswerOf ==
  ASSUME NEW before, NEW after, NEW says, NEW o \in Answered(before, after, says)
  PROVE  /\ o.cloud \in {before, after}
         /\ o.says \in {says, "failed", "raised"}
         /\ o.says \notin {"failed", "raised"} => o.cloud = after
PROOF
  <1>1. CASE o = Ends(after, says)
    BY <1>1 DEF Ends
  <1>2. CASE o \in Trouble(before, after)
    <2>1. PICK c \in {before, after}, s \in {"failed", "raised"} : o = Ends(c, s)
      BY <1>2 DEF Trouble
    <2> QED BY <2>1 DEF Ends
  <1> QED BY <1>1, <1>2 DEF Answered

LEMMA ServiceCreated ==
  ASSUME NEW c \in Cloud, NEW o \in ServiceCreate(c)
  PROVE  o.cloud \in Cloud /\ (o.says = "done" => o.cloud.service)
  <1> DEFINE after == [c EXCEPT !.service = TRUE]
             says == IF c.service THEN "exists" ELSE "done"
  <1>1. after \in Cloud /\ after.service
    BY DEF Cloud
  <1>2. o \in Answered(c, after, says)
    BY DEF ServiceCreate
  <1>3. /\ o.cloud \in {c, after}
        /\ o.says \in {says, "failed", "raised"}
        /\ o.says \notin {"failed", "raised"} => o.cloud = after
    BY <1>2, AnswerOf
  <1> QED BY <1>1, <1>3

LEMMA ServiceDeleted ==
  ASSUME NEW c \in Cloud, NEW o \in ServiceDelete(c)
  PROVE  /\ o.cloud \in Cloud /\ o.cloud.pod = c.pod
         /\ o.says \in {"done", "absent"} => ~o.cloud.service
  <1> DEFINE after == [c EXCEPT !.service = FALSE]
             says == IF c.service THEN "done" ELSE "absent"
  <1>1. after \in Cloud /\ ~after.service /\ after.pod = c.pod
    BY DEF Cloud
  <1>2. o \in Answered(c, after, says)
    BY DEF ServiceDelete
  <1>3. /\ o.cloud \in {c, after}
        /\ o.says \in {says, "failed", "raised"}
        /\ o.says \notin {"failed", "raised"} => o.cloud = after
    BY <1>2, AnswerOf
  <1> QED BY <1>1, <1>3

LEMMA PodCreated ==
  ASSUME NEW c \in Cloud, NEW o \in PodCreate(c)
  PROVE  /\ o.cloud \in Cloud
         /\ o.says = "done" => o.cloud = [c EXCEPT !.pod = "live"]
  <1> DEFINE after == [c EXCEPT !.pod = IF @ = "none" THEN "live" ELSE @]
             says == IF c.pod = "none" THEN "done" ELSE "exists"
  <1>1. after \in Cloud /\ (c.pod = "none" => after = [c EXCEPT !.pod = "live"])
    BY DEF Cloud
  <1>2. o \in Answered(c, after, says)
    BY DEF PodCreate
  <1>3. /\ o.cloud \in {c, after}
        /\ o.says \in {says, "failed", "raised"}
        /\ o.says \notin {"failed", "raised"} => o.cloud = after
    BY <1>2, AnswerOf
  <1> QED BY <1>1, <1>3

LEMMA PodDeleted ==
  ASSUME NEW c \in Cloud, NEW o \in PodDelete(c)
  PROVE  /\ o.cloud \in Cloud /\ o.cloud.service = c.service
         /\ o.says = "absent" => o.cloud.pod = "none"
  <1> DEFINE after == [c EXCEPT !.pod = IF @ = "none" THEN @ ELSE "ending"]
             says == IF c.pod = "none" THEN "absent" ELSE "done"
  <1>1. after \in Cloud /\ after.service = c.service /\ (c.pod = "none" => after.pod = "none")
    BY DEF Cloud
  <1>2. o \in Answered(c, after, says)
    BY DEF PodDelete
  <1>3. /\ o.cloud \in {c, after}
        /\ o.says \in {says, "failed", "raised"}
        /\ o.says \notin {"failed", "raised"} => o.cloud = after
    BY <1>2, AnswerOf
  <1> QED BY <1>1, <1>3

-----------------------------------------------------------------------------

\* A create that succeeds made both parts, and leaves a task wherever it ends.
LEMMA CreateMakes ==
  ASSUME NEW c \in Cloud, NEW o \in Create(c)
  PROVE  o.cloud \in Cloud /\ (o.says = "done" => o.cloud = Whole)
PROOF
  <1>1. PICK f \in ServiceCreate(c) :
          \/ f.says # "done" /\ o = f
          \/ f.says = "done" /\ o \in PodCreate(f.cloud)
    BY DEF Create, Halting, Passing
  <1>2. f.cloud \in Cloud /\ (f.says = "done" => f.cloud.service)
    BY ServiceCreated
  <1>3. CASE f.says # "done"
    BY <1>1, <1>2, <1>3
  <1>4. CASE f.says = "done"
    <2>1. /\ o.cloud \in Cloud
          /\ o.says = "done" => o.cloud = [f.cloud EXCEPT !.pod = "live"]
      BY <1>1, <1>2, <1>4, PodCreated
    <2>2. [f.cloud EXCEPT !.pod = "live"] = Whole
      <3>1. f.cloud.service = TRUE
        BY <1>2, <1>4 DEF Cloud
      <3>2. f.cloud = [service |-> f.cloud.service, pod |-> f.cloud.pod]
        BY <1>2 DEF Cloud
      <3>3. [f.cloud EXCEPT !.pod = "live"] = [service |-> f.cloud.service, pod |-> "live"]
        BY <3>2
      <3> QED BY <3>1, <3>3 DEF Whole
    <2> QED BY <2>1, <2>2
  <1> QED BY <1>3, <1>4

\* A delete touches the pod only when the service is gone, and says that the task is
\* absent when neither is there.
LEMMA DeleteTakes ==
  ASSUME NEW c \in Cloud, NEW o \in Delete(c)
  PROVE  /\ o.cloud \in Cloud
         /\ o.cloud.pod # c.pod => ~o.cloud.service
         /\ o.says \in {"done", "absent"} => ~o.cloud.service
         /\ o.says = "absent" => o.cloud = Nothing
PROOF
  <1>1. PICK f \in ServiceDelete(c) :
          \/ f.says \notin {"done", "absent"} /\ o = f
          \/ f.says \in {"done", "absent"} /\ o \in PodDelete(f.cloud)
    BY DEF Delete, Halting, Passing
  <1>2. /\ f.cloud \in Cloud /\ f.cloud.pod = c.pod
        /\ f.says \in {"done", "absent"} => ~f.cloud.service
    BY ServiceDeleted
  <1>3. CASE f.says \notin {"done", "absent"}
    BY <1>1, <1>2, <1>3
  <1>4. CASE f.says \in {"done", "absent"}
    <2>1. /\ o.cloud \in Cloud /\ o.cloud.service = f.cloud.service
          /\ o.says = "absent" => o.cloud.pod = "none"
      BY <1>1, <1>2, <1>4, PodDeleted
    <2>2. ~o.cloud.service
      BY <1>2, <1>4, <2>1
    <2>3. o.cloud.pod = "none" => o.cloud = Nothing
      BY <2>1, <2>2 DEF Cloud, Nothing
    <2> QED BY <2>1, <2>2, <2>3
  <1> QED BY <1>3, <1>4

\* To wait after a delete is to find nothing, or to fail.
LEMMA WaitingEnds ==
  ASSUME NEW c \in Cloud, ~c.service, NEW o \in Waited(c)
  PROVE  o.cloud \in Cloud /\ (o.says = "done" => o.cloud = Nothing)
PROOF
  <1> DEFINE e == Ended(c)
  <1>1. e \in Cloud /\ ~e.service
    BY DEF Ended, Cloud
  <1>2. PICK g \in Get(e) :
          g.says # "done" /\ o = IF g.says = "absent" THEN Ends(g.cloud, "done") ELSE g
    BY DEF Waited
  <1>3. PICK f \in ServiceGet(e) :
          \/ f.says \notin {"done", "absent"} /\ g = f
          \/ f.says \in {"done", "absent"} /\ g \in PodGet(f.cloud)
    BY <1>2 DEF Get, Halting, Passing
  <1>4. f.cloud = e
    BY AnswerOf DEF ServiceGet
  <1>5. CASE f.says \notin {"done", "absent"}
    <2>1. o = f
      BY <1>2, <1>3, <1>5
    <2> QED BY <2>1, <1>1, <1>4, <1>5
  <1>6. CASE f.says \in {"done", "absent"}
    <2> DEFINE says == IF e.pod = "none" THEN "absent" ELSE "done"
    <2>1. g \in Answered(e, e, says)
      BY <1>3, <1>4, <1>6 DEF PodGet
    <2>2. g.cloud = e /\ g.says \in {says, "failed", "raised"}
      BY <2>1, AnswerOf
    <2>3. o.says = "done" => e.pod = "none"
      BY <1>2, <2>2 DEF Ends
    <2>4. e.pod = "none" => e = Nothing
      BY <1>1 DEF Cloud, Nothing
    <2>5. o.cloud = e
      BY <1>2, <2>2 DEF Ends
    <2> QED BY <1>1, <2>3, <2>4, <2>5
  <1> QED BY <1>5, <1>6

LEMMA RemovedEnds ==
  ASSUME NEW c \in Cloud, NEW o \in Removed(c)
  PROVE  o.cloud \in Cloud /\ (o.says = "done" => o.cloud = Nothing)
PROOF
  <1>1. PICK d \in Delete(c) :
          o \in CASE d.says = "absent" -> {Ends(d.cloud, "done")}
                  [] d.says = "done" -> Waited(d.cloud)
                  [] OTHER -> {d}
    BY DEF Removed
  <1>2. /\ d.cloud \in Cloud
        /\ d.says \in {"done", "absent"} => ~d.cloud.service
        /\ d.says = "absent" => d.cloud = Nothing
    BY DeleteTakes
  <1>3. CASE d.says = "absent"
    BY <1>1, <1>2, <1>3 DEF Ends
  <1>4. CASE d.says = "done"
    <2>1. o \in Waited(d.cloud)
      BY <1>1, <1>4
    <2> QED BY <2>1, <1>2, <1>4, WaitingEnds
  <1>5. CASE d.says \notin {"done", "absent"}
    BY <1>1, <1>2, <1>5
  <1> QED BY <1>3, <1>4, <1>5

-----------------------------------------------------------------------------

\* A launch that reports success has made the service and the pod, whatever earlier
\* attempts and other callers left.
THEOREM LaunchesAreWhole == LaunchIsWhole
PROOF
  <1> SUFFICES ASSUME NEW c \in Cloud, NEW o \in Attempt(c), o.says = "done"
               PROVE  o.cloud = Whole
    BY DEF LaunchIsWhole, Succeeding
  <1>1. PICK f \in Create(c) : o \in IF f.says = "exists" THEN Recreated(f.cloud) ELSE {f}
    BY DEF Attempt
  <1>2. f.cloud \in Cloud /\ (f.says = "done" => f.cloud = Whole)
    BY CreateMakes
  <1>3. CASE f.says # "exists"
    BY <1>1, <1>2, <1>3
  <1>4. CASE f.says = "exists"
    <2>1. PICK r \in Removed(f.cloud) : o \in IF r.says = "done" THEN Create(r.cloud) ELSE {r}
      BY <1>1, <1>4 DEF Recreated
    <2>2. r.cloud \in Cloud
      BY <1>2, RemovedEnds
    <2>3. o \in Create(r.cloud)
      BY <2>1
    <2> QED BY <2>2, <2>3, CreateMakes
  <1> QED BY <1>3, <1>4

\* A removal that reports success left neither.
THEOREM RemovalsAreComplete == RemovalIsComplete
  BY RemovedEnds DEF RemovalIsComplete, Succeeding

\* A delete that fails never leaves a service whose pod it took.
THEOREM PodsGoLast == PodGoesLast
  BY DeleteTakes DEF PodGoesLast

==============================================================================
