----------------------------- MODULE Trainer_proofs -----------------------------
(***************************************************************************)
(* Theorems about RoundController and Trainer, for any number of clients,  *)
(* any threshold and redundancy, any number of failing calls, and any      *)
(* number of rounds and intervals of evaluation. What is said of one round *)
(* is said of the round that runs, so that it holds of each round of a job.*)
(***************************************************************************)
EXTENDS Trainer, FiniteSetTheorems, TLAPS

-----------------------------------------------------------------------------
(* What the parts of run() do to the fields of the controller. *)

LEMMA CallEachType == ASSUME NEW S PROVE CallEach(S) \in [Client -> Call]
BY DEF CallEach, Call

LEMMA NewControllerType == NewController \in Controller
BY RoundAssumption DEF NewController, Controller, Phase, Call

\* Averages and Finishes start from a controller c whose result is open, and
\* settle it as a success only after enough successful replies and no stop.
LEMMA AveragesStep ==
  ASSUME NEW c \in Controller, c.status = "none", Averages(c)
  PROVE  /\ ctl' \in Controller
         /\ ctl'.phase \in {"release", "crashed"}
         /\ ctl'.success = c.success /\ ctl'.accept = c.accept
         /\ ctl'.stopped = c.stopped
<1>1. CASE ctl' = Closing(c, "ok") \/ ctl' = Closing(c, "failed")
  BY <1>1 DEF Closing, Controller, Phase
<1>2. CASE ctl' = Crashed(c)
  BY <1>2 DEF Crashed, Controller, Phase
<1> QED BY <1>1, <1>2 DEF Averages

LEMMA FewOrEnough ==
  ASSUME NEW c \in Controller
  PROVE  /\ c.success < threshold <=> ~(c.success >= threshold)
         /\ c.stopped \in BOOLEAN
BY RoundAssumption DEF Controller

LEMMA FinishesStep ==
  ASSUME NEW c \in Controller, c.status = "none", Finishes(c)
  PROVE  /\ ctl' \in Controller
         /\ ctl'.phase \in {"stop", "unmask", "release", "crashed"}
         /\ ctl'.phase \in {"stop", "unmask"} => ctl'.status = "none"
         /\ ctl'.success = c.success /\ ctl'.accept = c.accept
         /\ ctl'.phase = "unmask" \/ ctl'.status = "ok" =>
              ~c.stopped /\ c.success >= threshold
         /\ ~ctl'.stopped => ~c.stopped
<1>1. CASE c.stopped
  <2>1. CallEach(c.clients) \in [Client -> Call] /\ 1 \in 0 .. MAX_RETRY_TIMES
    BY CallEachType, RoundAssumption
  <2>2. ctl' = [c EXCEPT !.phase = "stop", !.tries = 1, !.call = CallEach(c.clients)]
    BY <1>1 DEF Finishes
  <2> QED BY <1>1, <2>1, <2>2 DEF Controller, Phase
<1>2. CASE ~c.stopped /\ (c.timer = "fired" \/ c.success < threshold)
  <2>1. ctl' = [c EXCEPT !.phase = "release", !.status = "failed"]
    BY <1>2, FewOrEnough DEF Finishes, Closing
  <2> QED BY <1>2, <2>1 DEF Controller, Phase
<1>3. CASE ~c.stopped /\ c.timer # "fired" /\ c.success >= threshold
  <2>1. CASE Secure /\ Training
    <3>1. ctl' = [c EXCEPT !.phase = "unmask"]
      BY <1>3, <2>1, FewOrEnough DEF Finishes
    <3> QED BY <1>3, <3>1 DEF Controller, Phase
  <2>2. CASE ~(Secure /\ Training)
    <3>1. Averages(c)
      BY <1>3, <2>2, FewOrEnough DEF Finishes
    <3> QED BY <1>3, <3>1, AveragesStep
  <2> QED BY <2>1, <2>2
<1> QED BY <1>1, <1>2, <1>3, FewOrEnough

LEMMA TurnStep ==
  ASSUME NEW c \in Controller, c.status = "none", Turn(c)
  PROVE  /\ ctl' \in Controller
         /\ ctl'.phase \in {"wait", "stop", "unmask", "release", "crashed"}
         /\ ctl'.phase \in {"wait", "stop", "unmask"} => ctl'.status = "none"
         /\ ctl'.success = c.success
         /\ ctl'.phase = "wait" => Waits(ctl')
         /\ ctl'.phase = "unmask" \/ ctl'.status = "ok" =>
              ~c.stopped /\ c.success >= threshold /\ ~ctl'.accept
         /\ ~ctl'.stopped => ~c.stopped
<1>1. CASE Waits(c) /\ ctl' = [c EXCEPT !.phase = "wait", !.event = FALSE]
  BY <1>1 DEF Waits, Controller, Phase
<1>2. CASE ~Waits(c)
  <2> DEFINE d == [c EXCEPT !.accept = FALSE,
                            !.timer = IF @ = "armed" THEN "cancelled" ELSE @]
  <2>1. d \in Controller /\ d.status = "none" /\ d.success = c.success
        /\ d.stopped = c.stopped /\ d.accept = FALSE
    BY DEF Controller
  <2>2. Finishes(d)
    BY <1>2 DEF Turn
  <2> HIDE DEF d
  <2> QED BY <2>1, <2>2, FinishesStep
<1> QED BY <1>1, <1>2 DEF Turn

-----------------------------------------------------------------------------
(* The control of a round. *)

\* A result is open until the round is closed, and it is a success only when the
\* replies are no longer accepted and enough of them were successful.
ControlInv ==
  /\ RoundTypeOK
  /\ ctl.phase \in {"select", "broadcast", "wait", "unmask", "stop"} => ctl.status = "none"
  /\ ctl.phase = "unmask" \/ ctl.status = "ok" => ~ctl.accept /\ ctl.success >= threshold
  /\ NoLostWakeup

\* The conjuncts of ControlInv about the controller alone.
ControllerOK(c) ==
  /\ c \in Controller
  /\ c.phase \in {"select", "broadcast", "wait", "unmask", "stop"} => c.status = "none"
  /\ c.phase = "unmask" \/ c.status = "ok" => ~c.accept /\ c.success >= threshold
  /\ c.phase = "wait" /\ ~Waits(c) => c.event

LEMMA ControlInvParts ==
  ControlInv <=>
    /\ ControllerOK(ctl) /\ round \in [id : Nat, kind : Kind] /\ faults \in Nat
    /\ agg \in [metrics : SUBSET Reply, weights : SUBSET Reply, total : SUBSET Reply]
    /\ tasks \subseteq Task /\ net \subseteq Reply
BY DEF ControlInv, ControllerOK, RoundTypeOK, NoLostWakeup

LEMMA ControlInvPartsPrimed ==
  ControlInv' <=>
    /\ ControllerOK(ctl') /\ round' \in [id : Nat, kind : Kind] /\ faults' \in Nat
    /\ agg' \in [metrics : SUBSET Reply, weights : SUBSET Reply, total : SUBSET Reply]
    /\ tasks' \subseteq Task /\ net' \subseteq Reply
BY DEF ControlInv, ControllerOK, RoundTypeOK, NoLostWakeup, Waits

LEMMA ControlInit == RoundInit => ControlInv
<1> SUFFICES ASSUME RoundInit PROVE ControlInv
  OBVIOUS
<1>1. ControllerOK(ctl)
  BY NewControllerType DEF RoundInit, ControllerOK, NewController
<1> QED BY <1>1, ControlInvParts DEF RoundInit, NewAggregator, Kind

\* A turn of the wait, from a controller whose result is open.
LEMMA TurnControl ==
  ASSUME NEW c \in Controller, c.status = "none", Turn(c)
  PROVE  ControllerOK(ctl')
BY TurnStep DEF ControllerOK, Waits

LEMMA AveragesControl ==
  ASSUME NEW c \in Controller, c.status = "none", ~c.accept, c.success >= threshold, Averages(c)
  PROVE  ControllerOK(ctl')
BY AveragesStep DEF ControllerOK

LEMMA TaskRecords ==
  ASSUME NEW t \in Task, NEW s \in Status
  PROVE  ReplyOf(t, s) \in Reply /\ [t EXCEPT !.sent = TRUE] \in Task
BY DEF Task, Reply, ReplyOf

LEMMA AnswerControl ==
  ASSUME ControllerOK(ctl), NEW c \in Client, NEW a \in Call, Answer(c, a)
  PROVE  ControllerOK(ctl')
<1>1. [ctl.call EXCEPT ![c] = a] \in [Client -> Call]
  BY DEF ControllerOK, Controller
<1>2. ctl' = [ctl EXCEPT !.call = [ctl.call EXCEPT ![c] = a]]
  BY DEF Answer, ControllerOK, Controller
<1> QED BY <1>1, <1>2 DEF ControllerOK, Controller, Waits

LEMMA SpendFaultType == ASSUME faults \in Nat, SpendFault PROVE faults' \in Nat
BY DEF SpendFault

LEMMA RunsControl == ASSUME ControlInv, Runs PROVE ControlInv'
<1> USE ControlInvParts, ControlInvPartsPrimed
<1> SUFFICES ControllerOK(ctl')
  BY DEF Runs, Selected, NotSelected, Broadcast, Wakes, Unmasked, StopsAnswered
<1>1. CASE Selected
  <2>1. PICK S \in SUBSET Client :
          LET c == [ctl EXCEPT !.clients = S] IN
          \/ ctl' = [c EXCEPT !.phase = "broadcast", !.call = CallEach(S)]
          \/ Extended /\ ctl' = Crashed(c)
    BY <1>1 DEF Selected
  <2>2. CallEach(S) \in [Client -> Call]
    BY CallEachType
  <2>3. ctl.phase = "select" /\ ctl.status = "none"
    BY <1>1 DEF Selected, ControllerOK
  <2> DEFINE c == [ctl EXCEPT !.clients = S]
  <2>4. c \in Controller /\ c.status = "none"
    BY <2>3 DEF ControllerOK, Controller
  <2>5. ctl' = [c EXCEPT !.phase = "broadcast", !.call = CallEach(S)] \/ ctl' = Crashed(c)
    BY <2>1
  <2> HIDE DEF c
  <2>6. CASE ctl' = [c EXCEPT !.phase = "broadcast", !.call = CallEach(S)]
    BY <2>2, <2>4, <2>6 DEF ControllerOK, Controller, Phase
  <2>7. CASE ctl' = Crashed(c)
    BY <2>4, <2>7 DEF ControllerOK, Controller, Crashed, Phase
  <2> QED BY <2>5, <2>6, <2>7
<1>2. CASE NotSelected
  BY <1>2 DEF NotSelected, Closing, ControllerOK, Controller, Phase
<1>3. CASE Broadcast
  <2>1. CASE ctl' = Closing(ctl, "failed")
    BY <1>3, <2>1 DEF Broadcast, Closing, ControllerOK, Controller, Phase
  <2>2. CASE Turn([ctl EXCEPT !.timer = "armed"])
    <3>1. /\ [ctl EXCEPT !.timer = "armed"] \in Controller
          /\ [ctl EXCEPT !.timer = "armed"].status = "none"
      BY <1>3 DEF Broadcast, ControllerOK, Controller
    <3> QED BY <2>2, <3>1, TurnControl
  <2> QED BY <1>3, <2>1, <2>2 DEF Broadcast
<1>4. CASE Wakes
  BY <1>4, TurnControl DEF Wakes, ControllerOK
<1>5. CASE Unmasked
  <2>1. CASE Averages(ctl)
    BY <1>5, <2>1, AveragesControl DEF Unmasked, ControllerOK
  <2>2. CASE ctl' = Crashed(ctl)
    BY <1>5, <2>2 DEF Unmasked, Crashed, ControllerOK, Controller, Phase
  <2> QED BY <1>5, <2>1, <2>2 DEF Unmasked
<1>6. CASE StopsAnswered
  <2> DEFINE missed == {c \in Client : ctl.call[c] = "failed"}
  <2>1. CASE /\ ctl.tries < MAX_RETRY_TIMES
             /\ ctl' = [ctl EXCEPT !.tries = @ + 1, !.call = CallEach(missed)]
    <3>1. CallEach(missed) \in [Client -> Call]
      BY CallEachType
    <3>2. ctl.tries + 1 \in 0 .. MAX_RETRY_TIMES
      <4>1. ctl.tries \in 0 .. MAX_RETRY_TIMES
        BY DEF ControllerOK, Controller
      <4> QED BY <2>1, <4>1, RoundAssumption
    <3>3. ctl.phase = "stop"
      BY <1>6 DEF StopsAnswered
    <3> QED BY <2>1, <3>1, <3>2, <3>3 DEF ControllerOK, Controller
  <2>2. CASE ctl' = Closing(ctl, "failed")
    BY <1>6, <2>2 DEF StopsAnswered, Closing, ControllerOK, Controller, Phase
  <2> QED BY <1>6, <2>1, <2>2 DEF StopsAnswered
<1> QED BY <1>1, <1>2, <1>3, <1>4, <1>5, <1>6 DEF Runs

LEMMA CallsControl == ASSUME ControlInv, NEW c \in Client, Calls(c) PROVE ControlInv'
<1> USE ControlInvParts, ControlInvPartsPrimed
<1>1. CASE TaskArrives(c)
  <2> DEFINE t == [client |-> c, round |-> round.id, kind |-> round.kind, sent |-> FALSE]
  <2>1. t \in Task
    BY DEF Task
  <2>2. ControllerOK(ctl')
    BY <1>1, AnswerControl DEF TaskArrives, Call
  <2>3. /\ tasks' = tasks \cup {t} /\ (faults' = faults \/ SpendFault)
        /\ round' = round /\ agg' = agg /\ net' = net
    BY <1>1 DEF TaskArrives
  <2> HIDE DEF t
  <2> QED BY <2>1, <2>2, <2>3, SpendFaultType
<1>2. CASE TaskRefused(c)
  <2>1. ControllerOK(ctl')
    BY <1>2, AnswerControl DEF TaskRefused, Call
  <2> QED BY <1>2, <2>1, SpendFaultType DEF TaskRefused
<1>3. CASE StopArrives(c)
  <2>1. ControllerOK(ctl')
    BY <1>3, AnswerControl DEF StopArrives, Call
  <2>2. tasks' \subseteq tasks
    BY <1>3 DEF StopArrives
  <2> QED BY <1>3, <2>1, <2>2 DEF StopArrives
<1>4. CASE StopFails(c)
  <2>1. ControllerOK(ctl')
    BY <1>4, AnswerControl DEF StopFails, Call
  <2> QED BY <1>4, <2>1, SpendFaultType DEF StopFails
<1> QED BY <1>1, <1>2, <1>3, <1>4 DEF Calls

LEMMA WorksControl == ASSUME ControlInv, Works PROVE ControlInv'
<1> USE ControlInvParts, ControlInvPartsPrimed
<1>1. PICK t \in tasks : Submits(t) \/ TaskFails(t) \/ TaskEnds(t)
  BY DEF Works
<1>2. t \in Task
  BY <1>1
<1>3. CASE Submits(t)
  <2>1. PICK s \in Status : net' = net \cup {ReplyOf(t, s)}
    BY <1>3 DEF Submits, Status
  <2>2. /\ tasks' = (tasks \ {t}) \cup {[t EXCEPT !.sent = TRUE]}
        /\ UNCHANGED <<round, ctl, agg, faults>>
    BY <1>3 DEF Submits
  <2>3. ReplyOf(t, s) \in Reply /\ [t EXCEPT !.sent = TRUE] \in Task
    BY <1>2, TaskRecords
  <2> QED BY <2>1, <2>2, <2>3
<1>4. CASE TaskFails(t)
  BY <1>2, <1>4, TaskRecords DEF TaskFails, Status
<1>5. CASE TaskEnds(t)
  BY <1>5 DEF TaskEnds
<1> QED BY <1>1, <1>3, <1>4, <1>5

LEMMA DisturbsControl == ASSUME ControlInv, Disturbs PROVE ControlInv'
<1> USE ControlInvParts, ControlInvPartsPrimed
<1>1. CASE TimerFires
  BY <1>1 DEF TimerFires, ControllerOK, Controller, Waits
<1>2. CASE SelectorFails
  BY <1>2, SpendFaultType DEF SelectorFails, Crashed, ControllerOK, Controller, Phase
<1>3. ASSUME NEW m \in net, ReplyArrives(m)
      PROVE  ControlInv'
  <2>1. m \in Reply
    BY <1>3
  <2>2. ControllerOK(ctl') /\ agg' \in [metrics : SUBSET Reply, weights : SUBSET Reply,
                                        total : SUBSET Reply]
    <3>1. CASE UNCHANGED <<ctl, agg>>
      BY <3>1
    <3>2. CASE ctl' = Counted([ctl EXCEPT !.failed = @ + 1]) /\ UNCHANGED agg
      <4>1. ctl.failed + 1 \in Nat /\ ctl.received + 1 \in Nat
        BY DEF ControllerOK, Controller
      <4>2. ctl' = [ctl EXCEPT !.failed = ctl.failed + 1, !.received = ctl.received + 1,
                               !.event = TRUE]
        BY <3>2 DEF Counted, ControllerOK, Controller
      <4> QED BY <3>2, <4>1, <4>2 DEF ControllerOK, Controller
    <3>3. CASE ctl.accept /\ TriesToAggregate(m)
      <4>1. /\ ctl.phase # "unmask" /\ ctl.status # "ok"
            /\ ctl \in Controller
        BY <3>3 DEF ControllerOK
      <4>2. /\ ctl.success + 1 \in Nat /\ ctl.failed + 1 \in Nat /\ ctl.received + 1 \in Nat
        BY <4>1 DEF Controller
      <4>3. ControllerOK(ctl')
        <5>1. CASE ctl' = Counted([ctl EXCEPT !.success = @ + 1])
          <6>1. ctl' = [ctl EXCEPT !.success = ctl.success + 1, !.received = ctl.received + 1,
                                   !.event = TRUE]
            BY <4>1, <5>1 DEF Counted, Controller
          <6> QED BY <4>1, <4>2, <6>1 DEF ControllerOK, Controller
        <5>2. CASE ctl' = Counted(StoppedFor(ctl, "ExtendFailed"))
          <6>1. ctl' = [ctl EXCEPT !.stopped = TRUE, !.code = "ExtendFailed",
                                   !.received = ctl.received + 1, !.event = TRUE]
            BY <4>1, <5>2 DEF Counted, StoppedFor, Controller
          <6> QED BY <4>1, <4>2, <6>1 DEF ControllerOK, Controller
        <5>3. CASE ctl' = Counted([ctl EXCEPT !.failed = @ + 1])
          <6>1. ctl' = [ctl EXCEPT !.failed = ctl.failed + 1, !.received = ctl.received + 1,
                                   !.event = TRUE]
            BY <4>1, <5>3 DEF Counted, Controller
          <6> QED BY <4>1, <4>2, <6>1 DEF ControllerOK, Controller
        <5> QED BY <3>3, <5>1, <5>2, <5>3 DEF TriesToAggregate
      <4>4. agg' \in {agg, Accumulated(m), [agg EXCEPT !.metrics = @ \cup {m}],
                      [agg EXCEPT !.metrics = @ \cup {m}, !.weights = @ \cup {m}]}
        BY <3>3 DEF TriesToAggregate
      <4>5. agg' \in [metrics : SUBSET Reply, weights : SUBSET Reply, total : SUBSET Reply]
        <5>1. CASE agg' = agg
          BY <5>1
        <5>2. CASE agg' = Accumulated(m)
          BY <2>1, <5>2 DEF Accumulated
        <5>3. CASE agg' = [agg EXCEPT !.metrics = @ \cup {m}]
          BY <2>1, <5>3
        <5>4. CASE agg' = [agg EXCEPT !.metrics = @ \cup {m}, !.weights = @ \cup {m}]
          BY <2>1, <5>4
        <5> QED BY <4>4, <5>1, <5>2, <5>3, <5>4
      <4> QED BY <4>3, <4>5
    <3> QED BY <1>3, <3>1, <3>2, <3>3 DEF ReplyArrives, Processes
  <2>3. net' \subseteq net /\ UNCHANGED <<round, tasks, faults>>
    BY <1>3 DEF ReplyArrives
  <2> QED BY <2>2, <2>3
<1> QED BY <1>1, <1>2, <1>3 DEF Disturbs

\* No step of a round changes which round it is.
LEMMA RoundKept == ASSUME [RoundNext]_roundVars PROVE round' = round
BY DEF RoundNext, RoundStep, Runs, Selected, NotSelected, Broadcast, Wakes,
       Unmasked, StopsAnswered, Calls, TaskArrives, TaskRefused, StopArrives, StopFails, Works,
       Submits, TaskFails, TaskEnds, Disturbs, TimerFires, SelectorFails, ReplyArrives, Stop,
       Released, roundVars

LEMMA ControlStep == ASSUME ControlInv, [RoundNext]_roundVars PROVE ControlInv'
<1>1. CASE RoundStep
  BY <1>1, RunsControl, CallsControl, WorksControl, DisturbsControl DEF RoundStep
<1>2. CASE Stop
  BY <1>2, ControlInvParts, ControlInvPartsPrimed
     DEF Stop, StoppedFor, ControllerOK, Controller, Waits
<1>3. CASE Released
  BY <1>3, ControlInvParts, ControlInvPartsPrimed
     DEF Released, ControllerOK, Controller, Phase
<1>4. CASE UNCHANGED roundVars
  BY <1>4, ControlInvParts, ControlInvPartsPrimed DEF roundVars
<1> QED BY <1>1, <1>2, <1>3, <1>4 DEF RoundNext

LEMMA ControlAlways == RoundSpec => []ControlInv
BY ControlInit, ControlStep, PTL DEF RoundSpec

\* Every variable keeps its type, and a client that cannot be stopped is told so at
\* most MAX_RETRY_TIMES times (__stop_clients).
THEOREM RoundTypes == RoundSpec => []RoundTypeOK
<1>1. ControlInv => RoundTypeOK
  BY DEF ControlInv
<1> QED BY <1>1, ControlAlways, PTL

\* The waiter of __wait_updates is awake whenever there is something to do.
THEOREM WaiterWakes == RoundSpec => []NoLostWakeup
<1>1. ControlInv => NoLostWakeup
  BY DEF ControlInv
<1> QED BY <1>1, ControlAlways, PTL

-----------------------------------------------------------------------------
(* What is aggregated in a round. *)

\* A client that still has to be asked in this round.
Unasked(c, call) == c.phase = "select" \/ (c.phase = "broadcast" /\ call = "sent")

\* The number of successful replies is that of the updates in the average; only an
\* extender's failure, which stops the round, leaves an update in it uncounted.
Tallied(c, total) ==
  ~c.stopped \/ c.phase = "unmask" \/ c.status = "ok" => Cardinality(total) = c.success

\* The tasks and the replies of the round that runs; those of earlier rounds may still
\* be there.
Now(S) == {x \in S : x.round = round.id}

\* A client has one task in a round and sends one successful reply for it: the
\* reply is still to come, or under way, or in the average, never in two places.
CurrentInv ==
  /\ \A x \in Now(tasks) \cup Now(net) \cup agg.total : x.round = round.id /\ x.kind = "train"
  /\ \A m \in agg.total : m.status = "success"
  /\ \A t, u \in Now(tasks) : t.client = u.client => t = u
  /\ \A c \in Client : Unasked(ctl, ctl.call[c]) =>
       /\ \A t \in Now(tasks) : t.client # c
       /\ \A m \in Now(net) \cup agg.total : m.client # c
  /\ \A t \in Now(tasks), m \in Now(net) \cup agg.total :
       ~t.sent /\ m.status = "success" => m.client # t.client
  /\ Now(net) \cap agg.total = {}
  /\ IsFiniteSet(agg.total)
  /\ Tallied(ctl, agg.total)

\* Nothing is there of rounds to come, and a train round has what CurrentInv says.
ContentInv ==
  /\ \A x \in tasks \cup net : x.round <= round.id
  /\ Training => CurrentInv

LEMMA ContentInit == RoundInit => ContentInv
BY FS_EmptySet DEF RoundInit, ContentInv, CurrentInv, Now, Tallied, NewController, NewAggregator

\* A step of run() that asks nobody and settles nothing uncounted changes no content.
LEMMA ContentKept ==
  ASSUME ContentInv, UNCHANGED <<round, agg, tasks, net>>, ctl'.success = ctl.success,
         \A c \in Client : Unasked(ctl', ctl'.call[c]) => Unasked(ctl, ctl.call[c]),
         ~ctl'.stopped \/ ctl'.phase = "unmask" \/ ctl'.status = "ok" =>
           ~ctl.stopped \/ ctl.phase = "unmask" \/ ctl.status = "ok"
  PROVE  ContentInv'
<1>1. Now(tasks)' = Now(tasks) /\ Now(net)' = Now(net) /\ Training' = Training
  BY DEF Now, Training
<1>2. ASSUME CurrentInv PROVE CurrentInv'
  <2>1. Tallied(ctl', agg.total)
    BY <1>2 DEF Tallied, CurrentInv
  <2>2. \A c \in Client : Unasked(ctl', ctl'.call[c]) =>
          /\ \A t \in Now(tasks) : t.client # c
          /\ \A m \in Now(net) \cup agg.total : m.client # c
    BY <1>2 DEF CurrentInv
  <2> QED BY <1>1, <1>2, <2>1, <2>2 DEF CurrentInv
<1> QED BY <1>1, <1>2 DEF ContentInv

LEMMA RunsContent == ASSUME ControlInv, ContentInv, Runs PROVE ContentInv'
<1>1. /\ ctl \in Controller
      /\ ctl.phase \in {"select", "broadcast", "wait", "unmask", "stop"} => ctl.status = "none"
  BY DEF ControlInv, RoundTypeOK
<1>2. UNCHANGED <<round, agg, tasks, net>>
  BY DEF Runs, Selected, NotSelected, Broadcast, Wakes, Unmasked, StopsAnswered
<1>3. CASE Selected
  <2>1. ctl.phase = "select"
    BY <1>3 DEF Selected
  <2>2. /\ ctl'.success = ctl.success /\ ctl'.stopped = ctl.stopped
        /\ ctl'.phase \in {"broadcast", "crashed"} /\ ctl'.status = ctl.status
    <3>1. PICK S \in SUBSET Client :
            \/ ctl' = [ctl EXCEPT !.clients = S, !.phase = "broadcast", !.call = CallEach(S)]
            \/ ctl' = [ctl EXCEPT !.clients = S, !.phase = "crashed"]
      BY <1>1, <1>3 DEF Selected, Crashed, Controller
    <3> QED BY <1>1, <3>1 DEF Controller
  <2>3. \A c \in Client : Unasked(ctl', ctl'.call[c]) => Unasked(ctl, ctl.call[c])
    BY <2>1 DEF Unasked
  <2>4. ctl'.phase # "unmask"
    BY <2>2
  <2> QED BY <1>2, <2>2, <2>3, <2>4, ContentKept
<1>4. CASE Broadcast \/ Wakes
  <2>1. CASE ctl' = Closing(ctl, "failed")
    BY <1>1, <1>2, <2>1, ContentKept DEF Closing, Unasked, Controller
  <2>2. CASE \E c \in {ctl, [ctl EXCEPT !.timer = "armed"]} : Turn(c)
    <3>1. PICK c \in {ctl, [ctl EXCEPT !.timer = "armed"]} : Turn(c)
      BY <2>2
    <3>2. c \in Controller /\ c.status = "none" /\ c.success = ctl.success
          /\ c.stopped = ctl.stopped
      BY <1>1, <1>4, <3>1 DEF Broadcast, Wakes, Controller
    <3>3. /\ ctl'.success = ctl.success
          /\ ctl'.phase \in {"wait", "stop", "unmask", "release", "crashed"}
          /\ ctl'.phase = "unmask" \/ ctl'.status = "ok" => ~ctl.stopped
          /\ ~ctl'.stopped => ~ctl.stopped
      BY <3>1, <3>2, TurnStep
    <3>4. \A d \in Client : Unasked(ctl', ctl'.call[d]) => Unasked(ctl, ctl.call[d])
      BY <3>3 DEF Unasked
    <3> QED BY <1>2, <3>3, <3>4, ContentKept
  <2> QED BY <1>4, <2>1, <2>2 DEF Broadcast, Wakes
<1>5. CASE Unmasked
  <2>1. ctl'.success = ctl.success /\ ctl'.phase \in {"release", "crashed"}
    BY <1>1, <1>5, AveragesStep DEF Unmasked, Crashed, Controller
  <2>2. \A c \in Client : Unasked(ctl', ctl'.call[c]) => Unasked(ctl, ctl.call[c])
    BY <2>1 DEF Unasked
  <2> QED BY <1>2, <1>5, <2>1, <2>2, ContentKept DEF Unmasked
<1>6. CASE NotSelected \/ StopsAnswered
  <2>1. /\ ctl'.success = ctl.success /\ ctl'.phase \in {"stop", "release"}
        /\ ctl'.stopped = ctl.stopped /\ ctl'.status # "ok"
    BY <1>1, <1>6 DEF NotSelected, StopsAnswered, Closing, Controller
  <2>2. \A c \in Client : Unasked(ctl', ctl'.call[c]) => Unasked(ctl, ctl.call[c])
    BY <2>1 DEF Unasked
  <2> QED BY <1>2, <2>1, <2>2, ContentKept
<1> QED BY <1>3, <1>4, <1>5, <1>6 DEF Runs

\* An answer to a call leaves one client fewer to ask.
LEMMA AnswerUnasked ==
  ASSUME ctl \in Controller, NEW c \in Client, NEW a \in {"ok", "failed"}, Answer(c, a)
  PROVE  /\ ctl'.success = ctl.success /\ ctl'.stopped = ctl.stopped
         /\ ctl'.phase = ctl.phase /\ ctl'.status = ctl.status
         /\ \A d \in Client : Unasked(ctl', ctl'.call[d]) => Unasked(ctl, ctl.call[d])
         /\ ctl.phase # "select" => ~Unasked(ctl', ctl'.call[c])
BY DEF Answer, Unasked, Controller

\* What a step leaves of the content of the round, from its parts.
LEMMA ContentParts ==
  ASSUME round' = round,
         \A x \in tasks' \cup net' : x.round <= round.id,
         Training => CurrentInv'
  PROVE  ContentInv'
BY DEF ContentInv, Training

LEMMA CallsContent ==
  ASSUME ControlInv, ContentInv, NEW c \in Client, Calls(c)
  PROVE  ContentInv'
<1>1. ctl \in Controller /\ round \in [id : Nat, kind : Kind]
  BY DEF ControlInv, RoundTypeOK
<1>2. \E a \in {"ok", "failed"} : Answer(c, a)
  BY DEF Calls, TaskArrives, TaskRefused, StopArrives, StopFails
<1>3. /\ ctl'.success = ctl.success /\ ctl'.stopped = ctl.stopped
      /\ ctl'.phase = ctl.phase /\ ctl'.status = ctl.status
      /\ \A d \in Client : Unasked(ctl', ctl'.call[d]) => Unasked(ctl, ctl.call[d])
      /\ ctl.phase # "select" => ~Unasked(ctl', ctl'.call[c])
  BY <1>1, <1>2, AnswerUnasked
<1>4. UNCHANGED <<round, agg, net>> /\ Now(net)' = Now(net)
  BY DEF Calls, TaskArrives, TaskRefused, StopArrives, StopFails, Now
<1>5. CurrentInv => Tallied(ctl', agg'.total)
  BY <1>3, <1>4 DEF CurrentInv, Tallied
<1>6. CASE TaskArrives(c)
  <2> DEFINE u == [client |-> c, round |-> round.id, kind |-> round.kind, sent |-> FALSE]
  <2>1. u.client = c /\ u.round = round.id /\ u.kind = round.kind
    OBVIOUS
  <2>2. tasks' = tasks \cup {u} /\ ctl.phase = "broadcast" /\ Unasked(ctl, ctl.call[c])
    BY <1>6 DEF TaskArrives, Unasked
  <2> HIDE DEF u
  <2>3. Now(tasks)' = Now(tasks) \cup {u}
    BY <1>4, <2>1, <2>2 DEF Now
  <2>4. \A x \in tasks' \cup net' : x.round <= round.id
    BY <1>1, <1>4, <2>1, <2>2 DEF ContentInv
  <2>5. ASSUME Training PROVE CurrentInv'
    <3>1. CurrentInv /\ u.kind = "train"
      BY <2>1, <2>5 DEF ContentInv, Training
    <3>2. /\ \A t \in Now(tasks) : t.client # c
          /\ \A m \in Now(net) \cup agg.total : m.client # c
      BY <2>2, <3>1 DEF CurrentInv
    <3>3. \A d \in Client : Unasked(ctl', ctl'.call[d]) => d # c
      BY <1>3, <2>2
    <3>4. \A s, t \in Now(tasks)' : s.client = t.client => s = t
      BY <2>1, <2>3, <3>1, <3>2 DEF CurrentInv
    <3>5. \A d \in Client : Unasked(ctl', ctl'.call[d]) =>
            /\ \A t \in Now(tasks)' : t.client # d
            /\ \A m \in Now(net)' \cup agg'.total : m.client # d
      BY <1>3, <1>4, <2>1, <2>3, <3>1, <3>3 DEF CurrentInv
    <3>6. \A t \in Now(tasks)', m \in Now(net)' \cup agg'.total :
            ~t.sent /\ m.status = "success" => m.client # t.client
      BY <1>4, <2>1, <2>3, <3>1, <3>2 DEF CurrentInv
    <3> QED BY <1>4, <1>5, <2>1, <2>3, <3>1, <3>4, <3>5, <3>6 DEF CurrentInv
  <2> QED BY <1>4, <2>4, <2>5, ContentParts
<1>7. CASE TaskRefused(c) \/ StopArrives(c) \/ StopFails(c)
  <2>1. tasks' \subseteq tasks
    BY <1>7 DEF TaskRefused, StopArrives, StopFails
  <2>2. Now(tasks)' \subseteq Now(tasks)
    BY <1>4, <2>1 DEF Now
  <2>3. ASSUME CurrentInv PROVE CurrentInv'
    <3>1. \A d \in Client : Unasked(ctl', ctl'.call[d]) =>
            /\ \A t \in Now(tasks)' : t.client # d
            /\ \A m \in Now(net)' \cup agg'.total : m.client # d
      BY <1>3, <1>4, <2>2, <2>3 DEF CurrentInv
    <3> QED BY <1>4, <1>5, <2>2, <2>3, <3>1 DEF CurrentInv
  <2> QED BY <1>4, <2>1, <2>3, ContentParts DEF ContentInv
<1> QED BY <1>6, <1>7 DEF Calls

\* A task of another round leaves the content of this one alone.
LEMMA OthersContent ==
  ASSUME ContentInv, UNCHANGED <<round, ctl, agg>>,
         Now(tasks)' = Now(tasks), Now(net)' = Now(net),
         \A x \in tasks' \cup net' : x.round <= round.id
  PROVE  ContentInv'
<1>1. CurrentInv => CurrentInv'
  BY DEF CurrentInv, Tallied, Unasked
<1> QED BY <1>1, ContentParts DEF ContentInv

LEMMA SubmitsContent ==
  ASSUME ControlInv, ContentInv, NEW t \in tasks, Submits(t)
  PROVE  ContentInv'
<1>1. t \in Task /\ t.client \in Client /\ t.round <= round.id
  BY DEF ControlInv, RoundTypeOK, ContentInv, Task
<1>2. UNCHANGED <<round, ctl, agg>> /\ ~t.sent
  BY DEF Submits
<1> DEFINE v == [t EXCEPT !.sent = TRUE]
<1>3. PICK s \in Status : s # "failed" /\ net' = net \cup {ReplyOf(t, s)}
  BY DEF Submits, Status
<1> DEFINE r == ReplyOf(t, s)
<1>4. /\ v.client = t.client /\ v.round = t.round /\ v.kind = t.kind /\ v.sent
      /\ r.client = t.client /\ r.round = t.round /\ r.kind = t.kind /\ r.status = s
  BY <1>1 DEF Task, ReplyOf
<1>5. tasks' = (tasks \ {t}) \cup {v} /\ net' = net \cup {r}
  BY <1>3 DEF Submits
<1> HIDE DEF v, r
<1>6. \A x \in tasks' \cup net' : x.round <= round.id
  BY <1>1, <1>4, <1>5 DEF ContentInv
<1>7. CASE t.round # round.id
  <2>1. Now(tasks)' = Now(tasks) /\ Now(net)' = Now(net)
    BY <1>2, <1>4, <1>5, <1>7 DEF Now
  <2> QED BY <1>2, <1>6, <2>1, OthersContent
<1>8. CASE t.round = round.id
  <2>1. t \in Now(tasks) /\ Now(tasks)' = (Now(tasks) \ {t}) \cup {v} /\ Now(net)' = Now(net) \cup {r}
    BY <1>2, <1>4, <1>5, <1>8 DEF Now
  <2>2. ASSUME CurrentInv PROVE CurrentInv'
    <3> USE <2>2
    <3>1. t.kind = "train"
      BY <2>1 DEF CurrentInv
    <3>2. \A m \in agg.total : m.client # t.client
      BY <1>2, <2>1 DEF CurrentInv
    <3>3. \A x \in Now(tasks)' \cup Now(net)' \cup agg'.total :
            x.round = round'.id /\ x.kind = "train"
      BY <1>2, <1>4, <1>8, <2>1, <3>1 DEF CurrentInv
    <3>4. \A u, w \in Now(tasks)' : u.client = w.client => u = w
      BY <1>4, <2>1 DEF CurrentInv
    <3>5. \A d \in Client : Unasked(ctl', ctl'.call[d]) =>
            /\ \A u \in Now(tasks)' : u.client # d
            /\ \A m \in Now(net)' \cup agg'.total : m.client # d
      BY <1>2, <1>4, <2>1 DEF CurrentInv
    <3>6. ASSUME NEW u \in Now(tasks)', NEW m \in Now(net)' \cup agg'.total,
                 ~u.sent, m.status = "success"
          PROVE  m.client # u.client
      <4>1. u \in Now(tasks) /\ u # t
        BY <1>4, <2>1, <3>6
      <4>2. u.client # t.client
        BY <2>1, <4>1 DEF CurrentInv
      <4>3. CASE m = r
        BY <1>4, <4>2, <4>3
      <4>4. CASE m \in Now(net) \cup agg.total
        BY <3>6, <4>1, <4>4 DEF CurrentInv
      <4> QED BY <1>2, <2>1, <4>3, <4>4
    <3>7. Now(net)' \cap agg'.total = {}
      BY <1>2, <1>4, <2>1, <3>2 DEF CurrentInv
    <3>8. /\ \A m \in agg'.total : m.status = "success"
          /\ IsFiniteSet(agg'.total) /\ Tallied(ctl', agg'.total)
      BY <1>2 DEF CurrentInv, Tallied
    <3> QED BY <3>3, <3>4, <3>5, <3>6, <3>7, <3>8 DEF CurrentInv
  <2> QED BY <1>2, <1>6, <2>2, ContentParts DEF ContentInv
<1> QED BY <1>7, <1>8

LEMMA WorksContent == ASSUME ControlInv, ContentInv, Works PROVE ContentInv'
<1>1. PICK t \in tasks : Submits(t) \/ TaskFails(t) \/ TaskEnds(t)
  BY DEF Works
<1>2. t \in Task /\ t.client \in Client /\ t.round <= round.id
  BY DEF ControlInv, RoundTypeOK, ContentInv, Task
<1>3. UNCHANGED <<round, ctl, agg>>
  BY <1>1 DEF Submits, TaskFails, TaskEnds
<1>4. CurrentInv => Tallied(ctl', agg'.total)
  BY <1>3 DEF CurrentInv, Tallied
<1>5. \A d \in Client : Unasked(ctl', ctl'.call[d]) <=> Unasked(ctl, ctl.call[d])
  BY <1>3 DEF Unasked
<1>6. CASE TaskFails(t)
  <2> DEFINE r == ReplyOf(t, "failed")
  <2>1. r.client = t.client /\ r.round = t.round /\ r.kind = t.kind /\ r.status = "failed"
    BY <1>2 DEF ReplyOf
  <2>2. net' = net \cup {r} /\ tasks' = tasks \ {t}
    BY <1>6 DEF TaskFails
  <2> HIDE DEF r
  <2>3. \A x \in tasks' \cup net' : x.round <= round.id
    BY <1>2, <2>1, <2>2 DEF ContentInv
  <2>4. CASE t.round # round.id
    <3>1. Now(tasks)' = Now(tasks) /\ Now(net)' = Now(net)
      BY <1>3, <2>1, <2>2, <2>4 DEF Now
    <3> QED BY <1>3, <2>3, <3>1, OthersContent
  <2>5. CASE t.round = round.id
    <3>1. t \in Now(tasks) /\ Now(tasks)' = Now(tasks) \ {t} /\ Now(net)' = Now(net) \cup {r}
      BY <1>3, <2>1, <2>2, <2>5 DEF Now
    <3>2. ASSUME CurrentInv PROVE CurrentInv'
      <4>1. r \notin agg.total /\ r.kind = "train"
        BY <2>1, <3>1, <3>2 DEF CurrentInv
      <4>2. \A d \in Client : Unasked(ctl', ctl'.call[d]) =>
              /\ \A u \in Now(tasks)' : u.client # d
              /\ \A m \in Now(net)' \cup agg'.total : m.client # d
        BY <1>3, <1>5, <2>1, <3>1, <3>2 DEF CurrentInv
      <4>3. \A u \in Now(tasks)', m \in Now(net)' \cup agg'.total :
              ~u.sent /\ m.status = "success" => m.client # u.client
        BY <1>3, <2>1, <3>1, <3>2 DEF CurrentInv
      <4> QED BY <1>3, <1>4, <2>1, <2>5, <3>1, <3>2, <4>1, <4>2, <4>3 DEF CurrentInv
    <3> QED BY <1>3, <2>3, <3>2, ContentParts DEF ContentInv
  <2> QED BY <2>4, <2>5
<1>7. CASE TaskEnds(t)
  <2>1. tasks' \subseteq tasks /\ net' = net
    BY <1>7 DEF TaskEnds
  <2>2. Now(tasks)' \subseteq Now(tasks) /\ Now(net)' = Now(net)
    BY <1>3, <2>1 DEF Now
  <2>3. CurrentInv => CurrentInv'
    BY <1>3, <1>4, <1>5, <2>2 DEF CurrentInv
  <2> QED BY <1>3, <2>1, <2>3, ContentParts DEF ContentInv
<1> QED BY <1>1, <1>6, <1>7, SubmitsContent

LEMMA ReplyContent ==
  ASSUME ControlInv, ContentInv, NEW m \in net, ReplyArrives(m)
  PROVE  ContentInv'
<1>1. /\ ctl \in Controller /\ round \in [id : Nat, kind : Kind]
      /\ agg \in [metrics : SUBSET Reply, weights : SUBSET Reply, total : SUBSET Reply]
      /\ ctl.phase = "unmask" \/ ctl.status = "ok" => ~ctl.accept
  BY DEF ControlInv, RoundTypeOK
<1>2. net' = net \ {m} /\ UNCHANGED <<round, tasks>>
  BY DEF ReplyArrives
<1>3. \A x \in tasks' \cup net' : x.round <= round.id
  BY <1>2 DEF ContentInv
<1> SUFFICES ASSUME Training, CurrentInv
             PROVE  CurrentInv'
  BY <1>2, <1>3, ContentParts DEF ContentInv
<1>4. /\ Now(tasks)' = Now(tasks) /\ Now(net)' = Now(net) \ {m}
      /\ m.round = round.id => m \in Now(net) /\ m.kind = "train" /\ m \notin agg.total
  BY <1>2 DEF Now, CurrentInv
<1>5. \/ UNCHANGED <<ctl, agg>>
      \/ ctl' = Counted([ctl EXCEPT !.failed = @ + 1]) /\ agg' = agg
      \/ ctl.accept /\ m.round = round.id /\ TriesToAggregate(m)
  BY DEF ReplyArrives, Processes, Belongs
<1>6. /\ ctl'.phase = ctl.phase /\ ctl'.call = ctl.call /\ ctl'.status = ctl.status
      /\ ~ctl'.stopped => ~ctl.stopped
  <2>1. \/ ctl' = ctl
        \/ ctl' = Counted([ctl EXCEPT !.failed = @ + 1])
        \/ ctl' = Counted([ctl EXCEPT !.success = @ + 1])
        \/ ctl' = Counted(StoppedFor(ctl, "ExtendFailed"))
    BY <1>5 DEF TriesToAggregate
  <2> QED BY <1>1, <2>1 DEF Counted, StoppedFor, Controller
<1>7. \A d \in Client : Unasked(ctl', ctl'.call[d]) => Unasked(ctl, ctl.call[d])
  BY <1>6 DEF Unasked
<1>8. CASE agg'.total = agg.total /\ ctl'.success = ctl.success
  <2>1. Tallied(ctl', agg'.total)
    BY <1>6, <1>8 DEF CurrentInv, Tallied
  <2>2. \A d \in Client : Unasked(ctl', ctl'.call[d]) =>
          /\ \A t \in Now(tasks)' : t.client # d
          /\ \A n \in Now(net)' \cup agg'.total : n.client # d
    BY <1>4, <1>7, <1>8 DEF CurrentInv
  <2>3. /\ Now(net)' \subseteq Now(net)
        /\ \A n \in agg'.total : n \in agg.total
    BY <1>4, <1>8
  <2>4. \A t \in Now(tasks)', n \in Now(net)' \cup agg'.total :
          ~t.sent /\ n.status = "success" => n.client # t.client
    BY <1>4, <2>3 DEF CurrentInv
  <2>5. \A x \in Now(tasks)' \cup Now(net)' \cup agg'.total :
          x.round = round'.id /\ x.kind = "train"
    BY <1>2, <1>4, <2>3 DEF CurrentInv
  <2>6. \A n \in agg'.total : n.status = "success"
    BY <2>3 DEF CurrentInv
  <2>7. Now(net)' \cap agg'.total = {} /\ IsFiniteSet(agg'.total)
    BY <1>8, <2>3 DEF CurrentInv
  <2>8. \A t, u \in Now(tasks)' : t.client = u.client => t = u
    BY <1>4 DEF CurrentInv
  <2> QED BY <2>1, <2>2, <2>4, <2>5, <2>6, <2>7, <2>8 DEF CurrentInv
<1>9. CASE /\ ctl.accept /\ m.round = round.id
           /\ Usable(m) /\ agg' = Accumulated(m) /\ TriesToAggregate(m)
  <2>1. agg'.total = agg.total \cup {m} /\ m.status = "success"
    BY <1>1, <1>9 DEF Accumulated, Usable
  <2>2. /\ IsFiniteSet(agg'.total)
        /\ Cardinality(agg'.total) = Cardinality(agg.total) + 1
    <3>1. IsFiniteSet(agg.total) /\ m \notin agg.total
      BY <1>4, <1>9 DEF CurrentInv
    <3>2. /\ IsFiniteSet(agg.total \cup {m})
          /\ Cardinality(agg.total \cup {m}) =
               IF m \in agg.total THEN Cardinality(agg.total) ELSE Cardinality(agg.total) + 1
      BY ONLY <3>1, FS_AddElement
    <3> QED BY ONLY <2>1, <3>1, <3>2
  <2>3. ctl'.success = ctl.success + 1 \/ ctl'.stopped
    BY <1>1, <1>9 DEF TriesToAggregate, Counted, StoppedFor, Controller
  <2>4. Tallied(ctl', agg'.total)
    BY <1>1, <1>6, <1>9, <2>2, <2>3 DEF CurrentInv, Tallied
  <2>5. \A d \in Client : Unasked(ctl', ctl'.call[d]) =>
          /\ \A t \in Now(tasks)' : t.client # d
          /\ \A n \in Now(net)' \cup agg'.total : n.client # d
    BY <1>4, <1>7, <1>9, <2>1 DEF CurrentInv
  <2>6. \A t \in Now(tasks)', n \in Now(net)' \cup agg'.total :
          ~t.sent /\ n.status = "success" => n.client # t.client
    BY <1>4, <1>9, <2>1 DEF CurrentInv
  <2>7. \A x \in Now(tasks)' \cup Now(net)' \cup agg'.total :
          x.round = round'.id /\ x.kind = "train"
    BY <1>2, <1>4, <1>9, <2>1 DEF CurrentInv
  <2>8. /\ \A n \in agg'.total : n.status = "success"
        /\ Now(net)' \cap agg'.total = {}
        /\ \A t, u \in Now(tasks)' : t.client = u.client => t = u
    BY <1>4, <2>1 DEF CurrentInv
  <2> QED BY <2>2, <2>4, <2>5, <2>6, <2>7, <2>8 DEF CurrentInv
<1>10. CASE ctl.accept /\ ~Usable(m) /\ TriesToAggregate(m)
  <2>1. agg'.total = agg.total
    BY <1>1, <1>10 DEF TriesToAggregate
  <2>2. ctl'.success = ctl.success
    BY <1>1, <1>10 DEF TriesToAggregate, Counted, Controller
  <2> QED BY <1>8, <2>1, <2>2
<1>11. CASE ctl' = Counted([ctl EXCEPT !.failed = @ + 1]) /\ agg' = agg
  BY <1>1, <1>8, <1>11 DEF Counted, Controller
<1> QED BY <1>5, <1>8, <1>9, <1>10, <1>11 DEF TriesToAggregate

LEMMA ContentStep ==
  ASSUME ControlInv, ContentInv, [RoundNext]_roundVars
  PROVE  ContentInv'
<1>1. ctl \in Controller
  BY DEF ControlInv, RoundTypeOK
<1>2. CASE Runs
  BY <1>2, RunsContent
<1>3. ASSUME NEW c \in Client, Calls(c) PROVE ContentInv'
  BY <1>3, CallsContent
<1>4. CASE Works
  BY <1>4, WorksContent
<1>5. CASE TimerFires \/ SelectorFails \/ Stop \/ Released
  <2>1. /\ ctl'.success = ctl.success /\ ctl'.status = ctl.status
        /\ ctl'.phase \in {ctl.phase, "done", "crashed"} /\ ctl'.call = ctl.call
        /\ ~ctl'.stopped => ~ctl.stopped
    BY <1>1, <1>5 DEF TimerFires, SelectorFails, Crashed, Stop, StoppedFor, Released, Controller
  <2>2. \A d \in Client : Unasked(ctl', ctl'.call[d]) => Unasked(ctl, ctl.call[d])
    BY <2>1 DEF Unasked
  <2>3. UNCHANGED <<round, agg, tasks, net>>
    BY <1>5 DEF TimerFires, SelectorFails, Stop, Released
  <2> QED BY <2>1, <2>2, <2>3, ContentKept
<1>6. ASSUME NEW m \in net, ReplyArrives(m) PROVE ContentInv'
  BY <1>6, ReplyContent
<1>7. CASE UNCHANGED roundVars
  BY <1>7, ContentKept DEF roundVars, Unasked
<1> QED BY <1>2, <1>3, <1>4, <1>5, <1>6, <1>7 DEF RoundNext, RoundStep, Disturbs

\* The updates in the average come from as many clients as there are updates.
LEMMA ContributorsCounted ==
  ASSUME ControlInv, CurrentInv
  PROVE  Cardinality(Contributors(agg.total)) = Cardinality(agg.total)
<1> DEFINE f == [m \in agg.total |-> m.client]
<1>1. IsFiniteSet(agg.total)
  BY DEF CurrentInv
<1>2. f \in Surjection(agg.total, Contributors(agg.total))
  BY DEF Surjection, Contributors
<1>3. \A m, n \in agg.total : m.client = n.client => m = n
  <2> SUFFICES ASSUME NEW m \in agg.total, NEW n \in agg.total, m.client = n.client
               PROVE  m = n
    OBVIOUS
  <2>1. m \in Reply /\ n \in Reply
    BY DEF ControlInv, RoundTypeOK
  <2>2. m.round = n.round /\ m.kind = n.kind /\ m.status = n.status
    BY DEF CurrentInv
  <2> QED BY <2>1, <2>2 DEF Reply
<1>4. f \in Injection(agg.total, Contributors(agg.total))
  BY <1>3 DEF Injection, IsInjective, Contributors
<1> HIDE DEF f
<1> QED BY <1>1, <1>2, <1>4, FS_Surjection

LEMMA SuccessFollows ==
  ASSUME ControlInv, ContentInv
  PROVE  SuccessIsQuorum
<1> SUFFICES ASSUME Training, ctl.status = "ok" PROVE SuccessIsQuorum
  BY DEF SuccessIsQuorum
<1>1. CurrentInv /\ ctl.success >= threshold
  BY DEF ControlInv, ContentInv
<1>2. Cardinality(agg.total) = ctl.success
  BY <1>1 DEF CurrentInv, Tallied
<1>3. Cardinality(Contributors(agg.total)) = Cardinality(agg.total)
  BY <1>1, ContributorsCounted
<1>4. \A m \in agg.total : m.round = round.id /\ m.kind = "train"
  BY <1>1 DEF CurrentInv
<1> QED BY <1>1, <1>2, <1>3, <1>4 DEF SuccessIsQuorum

\* A train round returns True only with the updates of enough different clients.
THEOREM SuccessNeedsQuorum == RoundSpec => []SuccessIsQuorum
<1>1. RoundInit => ControlInv /\ ContentInv
  BY ControlInit, ContentInit
<1>2. ControlInv /\ ContentInv /\ [RoundNext]_roundVars => (ControlInv /\ ContentInv)'
  BY ControlStep, ContentStep
<1>3. ControlInv /\ ContentInv => SuccessIsQuorum
  BY SuccessFollows
<1> QED BY <1>1, <1>2, <1>3, PTL DEF RoundSpec

\* A reply that comes after the wait of __wait_updates changes nothing of what is
\* unmasked and averaged.
THEOREM AggregateStays == RoundSpec => AggregateIsFixed
<1>1. ASSUME ControlInv, [RoundNext]_roundVars, ctl.phase = "unmask" \/ ctl.status = "ok"
      PROVE  agg' = agg
  <2>1. ~ctl.accept /\ ctl \in Controller
    BY <1>1 DEF ControlInv, RoundTypeOK
  <2>2. CASE RoundStep
    <3>1. CASE Runs
      BY <3>1 DEF Runs, Selected, NotSelected, Broadcast, Wakes, Unmasked, StopsAnswered
    <3>2. CASE \E c \in Client : Calls(c)
      BY <3>2 DEF Calls, TaskArrives, TaskRefused, StopArrives, StopFails
    <3>3. CASE Works
      BY <3>3 DEF Works, Submits, TaskFails, TaskEnds
    <3>4. CASE Disturbs
      BY <2>1, <3>4 DEF Disturbs, TimerFires, SelectorFails, ReplyArrives, Processes
    <3> QED BY <2>2, <3>1, <3>2, <3>3, <3>4 DEF RoundStep
  <2>3. CASE Stop \/ Released \/ UNCHANGED roundVars
    BY <2>3 DEF Stop, Released, roundVars
  <2> QED BY <1>1, <2>2, <2>3 DEF RoundNext
<1>2. ControlInv /\ [RoundNext]_roundVars =>
        [ctl.phase = "unmask" \/ ctl.status = "ok" => agg' = agg]_roundVars
  BY <1>1
<1> QED BY <1>2, ControlAlways, PTL DEF RoundSpec, AggregateIsFixed

-----------------------------------------------------------------------------
(* The parts of the average. *)

\* Whether the round has succeeded or not.
SumsInv ==
  Training =>
    /\ agg.total \subseteq agg.metrics \cap agg.weights
    /\ \A m \in (agg.metrics \cup agg.weights) \ agg.total : m.status = "unfit"

LEMMA SumsStep == ASSUME ControlInv, SumsInv, [RoundNext]_roundVars PROVE SumsInv'
<1>0. round' = round
  BY RoundKept
<1> SUFFICES ASSUME Training PROVE SumsInv'
  BY <1>0 DEF SumsInv, Training
<1>1. CASE UNCHANGED agg
  BY <1>0, <1>1 DEF SumsInv
<1>2. ASSUME NEW m \in net, ReplyArrives(m), agg' # agg PROVE SumsInv'
  <2>1. agg \in [metrics : SUBSET Reply, weights : SUBSET Reply, total : SUBSET Reply]
    BY DEF ControlInv, RoundTypeOK
  <2>2. \/ agg' = Accumulated(m)
        \/ /\ m.status = "unfit"
           /\ agg' \in {[agg EXCEPT !.metrics = @ \cup {m}],
                        [agg EXCEPT !.metrics = @ \cup {m}, !.weights = @ \cup {m}]}
    BY <1>2 DEF ReplyArrives, Processes, TriesToAggregate
  <2>3. CASE agg' = Accumulated(m)
    BY <2>1, <2>3 DEF SumsInv, Accumulated
  <2>4. CASE /\ m.status = "unfit"
             /\ agg' \in {[agg EXCEPT !.metrics = @ \cup {m}],
                          [agg EXCEPT !.metrics = @ \cup {m}, !.weights = @ \cup {m}]}
    <3>1. /\ agg'.total = agg.total /\ agg'.metrics = agg.metrics \cup {m}
          /\ agg'.weights \in {agg.weights, agg.weights \cup {m}}
      BY <2>1, <2>4
    <3> QED BY <2>4, <3>1 DEF SumsInv
  <2> QED BY <2>2, <2>3, <2>4
<1> QED BY <1>1, <1>2 DEF RoundNext, RoundStep, Runs, Selected, NotSelected, Broadcast, Wakes,
       Unmasked, StopsAnswered, Calls, TaskArrives, TaskRefused, StopArrives, StopFails, Works,
       Submits, TaskFails, TaskEnds, Disturbs, TimerFires, SelectorFails, Stop, Released, roundVars

\* The average of a round that succeeds is over the counted updates, and only parts
\* of unfit ones disturb it.
THEOREM MeanCounted == RoundSpec => []MeanIsOfTheCounted
<1>1. RoundInit => ControlInv /\ SumsInv
  BY ControlInit DEF RoundInit, NewAggregator, SumsInv
<1>2. ControlInv /\ SumsInv /\ [RoundNext]_roundVars => (ControlInv /\ SumsInv)'
  BY ControlStep, SumsStep
<1>3. SumsInv => MeanIsOfTheCounted
  BY DEF SumsInv, MeanIsOfTheCounted
<1> QED BY <1>1, <1>2, <1>3, PTL DEF RoundSpec

-----------------------------------------------------------------------------
(* The rounds of a job.                                                    *)

\* What is improved by a round, or has been, is known by whether the round is still
\* trained; and the verdict rests on the rounds before the one that runs.
TrainerInv ==
  /\ TrainerTypeOK /\ ControlInv /\ ContentInv /\ SumsInv
  /\ ModelIsFromQuorums
  /\ \A u \in model : u.round <= round.id
  /\ Training /\ Running => \A u \in model : u.round # round.id
  /\ ~Training => \E u \in model : u.round = round.id
  /\ CheckpointsAreOfTheModel
  /\ Running => (stats.success > 0 <=> \E u \in model : u.round < round.id)

\* The types of the trainer's own variables.
OwnTypes ==
  /\ round.id \in 1 .. max_round_num /\ force \in BOOLEAN
  /\ state \in {"RUNNING", "STOPPING", "STOPPED", "FINISHED", "FAILED"}
  /\ stats \in [success : Nat, failed : Nat]
  /\ model \subseteq [round : 1 .. max_round_num, of : SUBSET Reply]
  /\ checkpoints \subseteq 1 .. max_round_num

LEMMA TypeParts ==
  /\ TrainerTypeOK <=> RoundTypeOK /\ OwnTypes
  /\ TrainerTypeOK' <=> RoundTypeOK' /\ OwnTypes'
BY DEF TrainerTypeOK, OwnTypes

LEMMA TrainerInit == Init => TrainerInv
<1> SUFFICES ASSUME Init PROVE TrainerInv
  OBVIOUS
<1>1. ControlInv /\ ContentInv
  BY ControlInit, ContentInit DEF Init
<1>2. /\ round = [id |-> 1, kind |-> "train"] /\ agg = NewAggregator
      /\ model = {} /\ checkpoints = {} /\ stats = [success |-> 0, failed |-> 0]
      /\ force = FALSE /\ state = "RUNNING"
  BY DEF Init, RoundInit
<1>3. RoundTypeOK
  BY <1>1 DEF ControlInv
<1>4. 1 \in 1 .. max_round_num
  BY TrainerAssumption
<1>5. OwnTypes
  BY <1>2, <1>4 DEF OwnTypes
<1>6. SumsInv
  BY <1>2 DEF SumsInv, NewAggregator
<1>7. ModelIsFromQuorums /\ CheckpointsAreOfTheModel /\ Training
  BY <1>2 DEF ModelIsFromQuorums, CheckpointsAreOfTheModel, Training
<1>8. ~(stats.success > 0)
  BY <1>2
<1> QED BY <1>1, <1>2, <1>3, <1>5, <1>6, <1>7, <1>8, TypeParts DEF TrainerInv

\* A step of the round neither ends a number nor takes the coordinator up again.
LEMMA PhaseStep ==
  ASSUME ControlInv, RoundStep \/ Stop
  PROVE  /\ ctl'.phase = "done" <=> ctl.phase = "done"
         /\ ctl.phase = "crashed" => ctl'.phase = "crashed"
<1>1. /\ ctl \in Controller
      /\ ctl.phase \in {"select", "broadcast", "wait", "unmask", "stop"} => ctl.status = "none"
  BY DEF ControlInv, RoundTypeOK
<1>2. CASE Runs
  <2>1. ctl.phase \in {"select", "broadcast", "wait", "unmask", "stop"} /\ ctl.status = "none"
    BY <1>1, <1>2 DEF Runs, Selected, NotSelected, Broadcast, Wakes, Unmasked, StopsAnswered
  <2>2. ctl'.phase # "done"
    <3>1. CASE Selected
      <4>1. PICK S \in SUBSET Client :
              LET c == [ctl EXCEPT !.clients = S] IN
              \/ ctl' = [c EXCEPT !.phase = "broadcast", !.call = CallEach(S)]
              \/ ctl' = Crashed(c)
        BY <3>1 DEF Selected
      <4> DEFINE c == [ctl EXCEPT !.clients = S]
      <4>2. c \in Controller
        BY <1>1 DEF Controller
      <4>3. ctl' = [c EXCEPT !.phase = "broadcast", !.call = CallEach(S)] \/ ctl' = Crashed(c)
        BY <4>1
      <4> HIDE DEF c
      <4> QED BY <4>2, <4>3 DEF Crashed, Controller
    <3>2. CASE ctl' = Closing(ctl, "failed") \/ ctl' = Crashed(ctl)
      BY <1>1, <3>2 DEF Closing, Crashed, Controller
    <3>3. CASE Turn(ctl)
      BY <1>1, <2>1, <3>3, TurnStep
    <3>4. CASE Turn([ctl EXCEPT !.timer = "armed"])
      <4>1. /\ [ctl EXCEPT !.timer = "armed"] \in Controller
            /\ [ctl EXCEPT !.timer = "armed"].status = "none"
        BY <1>1, <2>1 DEF Controller
      <4> QED BY <3>4, <4>1, TurnStep
    <3>5. CASE Averages(ctl)
      BY <1>1, <2>1, <3>5, AveragesStep
    <3>6. CASE StopsAnswered /\ ctl' # Closing(ctl, "failed")
      BY <1>1, <3>6 DEF StopsAnswered, Controller
    <3> QED BY <1>2, <3>1, <3>2, <3>3, <3>4, <3>5, <3>6
            DEF Runs, NotSelected, Broadcast, Wakes, Unmasked
  <2> QED BY <2>1, <2>2
<1>3. CASE \E c \in Client : Calls(c)
  BY <1>1, <1>3 DEF Calls, TaskArrives, TaskRefused, StopArrives, StopFails, Answer, Controller
<1>4. CASE Works
  BY <1>4 DEF Works, Submits, TaskFails, TaskEnds
<1>5. CASE TimerFires \/ SelectorFails \/ Stop
  BY <1>1, <1>5 DEF TimerFires, SelectorFails, Crashed, Stop, StoppedFor, Controller
<1>6. ASSUME NEW m \in net, ReplyArrives(m) PROVE ctl'.phase = ctl.phase
  BY <1>1, <1>6 DEF ReplyArrives, Processes, TriesToAggregate, Counted, StoppedFor, Controller
<1> QED BY <1>2, <1>3, <1>4, <1>5, <1>6 DEF RoundStep, Disturbs

LEMMA RoundStepInv ==
  ASSUME TrainerInv, RoundStep \/ Stop \/ UNCHANGED roundVars,
         UNCHANGED <<stats, model, checkpoints>>, OwnTypes'
  PROVE  TrainerInv'
<1>1. [RoundNext]_roundVars
  BY DEF RoundNext
<1>2. round' = round
  BY <1>1, RoundKept
<1>3. ControlInv' /\ ContentInv' /\ SumsInv' /\ RoundTypeOK'
  BY <1>1, ControlStep, ContentStep, SumsStep DEF TrainerInv, ControlInv
<1>4. Running' => Running
  BY PhaseStep DEF Running, TrainerInv, roundVars
<1>5. ModelIsFromQuorums' /\ CheckpointsAreOfTheModel'
  BY DEF TrainerInv, ModelIsFromQuorums, CheckpointsAreOfTheModel
<1>6. Training' = Training
  BY <1>2 DEF Training
<1> QED BY <1>2, <1>3, <1>4, <1>5, <1>6, TypeParts DEF TrainerInv

-----------------------------------------------------------------------------
(* The end of a round. *)

\* A new round object has nothing yet, whatever comes late of the rounds before it.
LEMMA BeginsContent ==
  ASSUME ControlInv, ContentInv, UNCHANGED <<tasks, net, faults>>,
         NEW id \in Nat, NEW kind \in Kind, Begins(id, kind),
         id >= round.id, kind = "train" => id > round.id
  PROVE  /\ ControlInv' /\ ContentInv' /\ SumsInv'
         /\ round'.id = id /\ round'.kind = kind /\ Running'
<1>1. /\ round' = [id |-> id, kind |-> kind]
      /\ ctl' = NewController /\ agg' = NewAggregator
  BY DEF Begins
<1>2. /\ round'.id = id /\ round'.kind = kind /\ round' \in [id : Nat, kind : Kind]
      /\ Running'
  BY <1>1 DEF Running, NewController
<1>3. ControllerOK(ctl')
  BY <1>1, NewControllerType DEF ControllerOK, NewController
<1>4. ControlInv'
  BY <1>1, <1>2, <1>3, ControlInvParts, ControlInvPartsPrimed DEF NewAggregator
<1>5. \A x \in tasks \cup net : x.round \in Nat /\ x.round <= round.id /\ round.id \in Nat
  BY DEF ControlInv, RoundTypeOK, ContentInv, Task, Reply
<1>6. ASSUME kind = "train" PROVE CurrentInv'
  <2>1. Now(tasks)' = {} /\ Now(net)' = {}
    BY <1>2, <1>5, <1>6 DEF Now
  <2>2. agg'.total = {} /\ ctl'.success = 0
    BY <1>1 DEF NewAggregator, NewController
  <2>3. Tallied(ctl', agg'.total) /\ IsFiniteSet(agg'.total)
    BY <2>2, FS_EmptySet DEF Tallied
  <2> QED BY <2>1, <2>2, <2>3 DEF CurrentInv
<1>7. ContentInv'
  BY <1>2, <1>5, <1>6 DEF ContentInv, Training
<1>8. SumsInv'
  BY <1>1 DEF SumsInv, NewAggregator
<1> QED BY <1>2, <1>4, <1>7, <1>8

\* The last round object keeps what it has.
LEMMA DoneContent ==
  ASSUME ControlInv, ContentInv, SumsInv, UNCHANGED <<round, agg, tasks, net, faults>>,
         ctl' = [ctl EXCEPT !.phase = "done"]
  PROVE  ControlInv' /\ ContentInv' /\ SumsInv' /\ ~Running'
<1>1. ctl \in Controller
  BY DEF ControlInv, RoundTypeOK
<1>2. /\ ctl'.success = ctl.success /\ ctl'.status = ctl.status /\ ctl'.phase = "done"
      /\ ctl'.stopped = ctl.stopped /\ ctl'.call = ctl.call /\ ctl'.accept = ctl.accept
  BY <1>1 DEF Controller
<1>3. ctl' \in Controller
  BY <1>1 DEF Controller, Phase
<1>4. ControllerOK(ctl')
  BY <1>2, <1>3, ControlInvParts DEF ControllerOK
<1>5. ControlInv'
  BY <1>4, ControlInvParts, ControlInvPartsPrimed
<1>6. ContentInv'
  BY <1>2, ContentKept DEF Unasked
<1> QED BY <1>2, <1>5, <1>6 DEF SumsInv, Training, Running

\* The conjuncts of TrainerInv about the model once a round is over: done is whether
\* its number is.
ModelAfter(m, id, trained) ==
  /\ \A u \in m : u.round <= id
  /\ trained <=> \E u \in m : u.round = id

LEMMA NumberOverInv ==
  ASSUME TrainerInv, UNCHANGED <<tasks, net, faults>>, ctl.phase = "release",
         NEW ok \in BOOLEAN, NEW f \in BOOLEAN, NumberOver(ok, f),
         OwnTypes, model' \subseteq [round : 1 .. max_round_num, of : SUBSET Reply],
         ModelIsFromQuorums', CheckpointsAreOfTheModel',
         checkpoints' \subseteq 1 .. max_round_num,
         ModelAfter(model', round.id, ok),
         \A i \in Nat : i < round.id =>
           ((\E u \in model' : u.round = i) <=> (\E u \in model : u.round = i)),
         \/ ok \/ Training
  PROVE  TrainerInv'
<1> DEFINE s == IF ok THEN [stats EXCEPT !.success = @ + 1]
                      ELSE [stats EXCEPT !.failed = @ + 1]
<1>1. /\ stats' = s /\ force' = f
      /\ \/ /\ round.id < max_round_num /\ ~f
            /\ Begins(round.id + 1, "train") /\ UNCHANGED state
         \/ /\ state' = Verdict(s, f)
            /\ ctl' = [ctl EXCEPT !.phase = "done"]
            /\ UNCHANGED <<round, agg>>
  BY DEF NumberOver, GoesOn
<1>2. /\ s \in [success : Nat, failed : Nat]
      /\ s.success = IF ok THEN stats.success + 1 ELSE stats.success
      /\ stats.success \in Nat /\ round.id \in 1 .. max_round_num
  BY DEF OwnTypes
<1> HIDE DEF s
<1>3. Running /\ ControlInv /\ ContentInv /\ SumsInv
      /\ (stats.success > 0 <=> \E u \in model : u.round < round.id)
  BY DEF Running, TrainerInv
<1>4. Verdict(s, f) \in {"STOPPED", "FINISHED", "FAILED"}
  BY DEF Verdict
<1>5. \A u \in model \cup model' : u.round \in Nat
  BY DEF OwnTypes
<1>6. CASE round.id < max_round_num /\ ~f /\ Begins(round.id + 1, "train") /\ UNCHANGED state
  <2>1. /\ round.id + 1 \in Nat /\ round.id + 1 > round.id /\ round.id + 1 >= round.id
        /\ "train" \in Kind
        /\ round.id + 1 \in 1 .. max_round_num
    BY <1>2, <1>6, TrainerAssumption DEF Kind
  <2>2. /\ ControlInv' /\ ContentInv' /\ SumsInv'
        /\ round'.id = round.id + 1 /\ round'.kind = "train" /\ Running'
    BY <1>3, <1>6, <2>1, BeginsContent
  <2>3. OwnTypes'
    BY <1>1, <1>2, <1>6, <2>1, <2>2 DEF OwnTypes
  <2>4. \A u \in model' : u.round < round'.id /\ u.round <= round'.id /\ u.round # round'.id
    BY <1>2, <1>5, <2>2 DEF ModelAfter
  <2>5. stats'.success > 0 <=> \E u \in model' : u.round < round'.id
    <3>1. CASE ok
      <4>1. \E u \in model' : u.round < round'.id
        BY <3>1, <2>4 DEF ModelAfter
      <4> QED BY <1>1, <1>2, <3>1, <4>1
    <3>2. CASE ~ok
      <4>1. \A u \in model' : u.round < round.id
        BY <1>2, <1>5, <3>2 DEF ModelAfter
      <4>2. (\E u \in model' : u.round < round.id) <=> (\E u \in model : u.round < round.id)
        BY <1>5
      <4> QED BY <1>1, <1>2, <1>3, <2>4, <3>2, <4>1, <4>2
    <3> QED BY <3>1, <3>2
  <2>6. Training'
    BY <2>2 DEF Training
  <2> QED BY <2>2, <2>3, <2>4, <2>5, <2>6, TypeParts DEF TrainerInv, ControlInv
<1>7. CASE /\ state' = Verdict(s, f) /\ ctl' = [ctl EXCEPT !.phase = "done"]
           /\ UNCHANGED <<round, agg>>
  <2>1. ControlInv' /\ ContentInv' /\ SumsInv' /\ ~Running'
    BY <1>3, <1>7, DoneContent
  <2>2. OwnTypes'
    BY <1>1, <1>2, <1>4, <1>7 DEF OwnTypes
  <2>3. /\ \A u \in model' : u.round <= round'.id
        /\ ~Training' => \E u \in model' : u.round = round'.id
    BY <1>7 DEF ModelAfter, Training
  <2> QED BY <2>1, <2>2, <2>3, TypeParts DEF TrainerInv, ControlInv
<1> QED BY <1>1, <1>6, <1>7

\* What TrainerInv says of the model and its rounds while the trainer runs.
LEMMA RoundsKnown ==
  ASSUME TrainerInv
  PROVE  /\ OwnTypes /\ ControlInv /\ ContentInv
         /\ round.id \in 1 .. max_round_num /\ round.id \in Nat
         /\ \A u \in model : u.round \in 1 .. max_round_num /\ u.round <= round.id
         /\ agg.total \subseteq Reply
<1>1. OwnTypes
  BY TypeParts DEF TrainerInv
<1>2. \A u \in model : u.round \in 1 .. max_round_num
  BY <1>1 DEF OwnTypes
<1> QED BY <1>1, <1>2 DEF TrainerInv, OwnTypes, ControlInv, RoundTypeOK

LEMMA TrainingFailedInv ==
  ASSUME TrainerInv, UNCHANGED <<tasks, net, faults>>, ctl.phase = "release",
         Training, TrainingFailed
  PROVE  TrainerInv'
<1> DEFINE f == force \/ ctl.code = "ExtendFailed"
<1>1. NumberOver(FALSE, f) /\ UNCHANGED <<model, checkpoints>> /\ f \in BOOLEAN
  BY DEF TrainingFailed
<1> HIDE DEF f
<1>2. ModelIsFromQuorums' /\ CheckpointsAreOfTheModel'
  BY <1>1 DEF TrainerInv, ModelIsFromQuorums, CheckpointsAreOfTheModel
<1>3. ModelAfter(model', round.id, FALSE)
  BY <1>1 DEF ModelAfter, TrainerInv, Running
<1>4. /\ model' \subseteq [round : 1 .. max_round_num, of : SUBSET Reply]
      /\ checkpoints' \subseteq 1 .. max_round_num /\ OwnTypes
  BY <1>1, RoundsKnown DEF OwnTypes
<1>5. FALSE \in BOOLEAN
  OBVIOUS
<1> QED BY <1>1, <1>2, <1>3, <1>4, <1>5, NumberOverInv

\* What goes into the model is the average of the round, once.
LEMMA ModelGrows ==
  ASSUME TrainerInv, Training, ctl.phase = "release", ctl.status = "ok",
         model' = model \cup {[round |-> round.id, of |-> agg.total]},
         checkpoints' \subseteq {u.round : u \in model'},
         checkpoints' \subseteq 1 .. max_round_num
  PROVE  /\ ModelIsFromQuorums' /\ CheckpointsAreOfTheModel'
         /\ ModelAfter(model', round.id, TRUE)
         /\ model' \subseteq [round : 1 .. max_round_num, of : SUBSET Reply]
         /\ \A i \in Nat : i < round.id =>
              ((\E u \in model' : u.round = i) <=> (\E u \in model : u.round = i))
<1> DEFINE new == [round |-> round.id, of |-> agg.total]
<1>1. new.round = round.id /\ new.of = agg.total /\ model' = model \cup {new}
  OBVIOUS
<1>2. new \in [round : 1 .. max_round_num, of : SUBSET Reply]
  BY RoundsKnown
<1> HIDE DEF new
<1>3. \A u \in model : u.round # round.id /\ u.round <= round.id
  BY DEF TrainerInv, Running
<1>4. /\ Cardinality(Contributors(agg.total)) >= threshold
      /\ \A m \in agg.total : m.round = round.id /\ m.kind = "train"
  BY SuccessFollows DEF TrainerInv, SuccessIsQuorum
<1>5. ModelIsFromQuorums'
  <2>1. ASSUME NEW u \in model'
        PROVE  /\ Cardinality(Contributors(u.of)) >= threshold
               /\ \A m \in u.of : m.kind = "train" /\ m.round = u.round
    <3>1. CASE u \in model
      BY <3>1 DEF TrainerInv, ModelIsFromQuorums
    <3>2. CASE u = new
      BY <1>1, <1>4, <3>2
    <3> QED BY <1>1, <3>1, <3>2
  <2>2. \A u, v \in model' : u.round = v.round => u = v
    BY <1>1, <1>3 DEF TrainerInv, ModelIsFromQuorums
  <2> QED BY <2>1, <2>2 DEF ModelIsFromQuorums
<1>6. ModelAfter(model', round.id, TRUE)
  <2>1. round.id <= round.id
    BY RoundsKnown
  <2> QED BY <1>1, <1>3, <2>1 DEF ModelAfter
<1>7. model' \subseteq [round : 1 .. max_round_num, of : SUBSET Reply]
  BY <1>1, <1>2, RoundsKnown DEF OwnTypes
<1>8. \A i \in Nat : i < round.id => i # round.id
  BY RoundsKnown
<1> QED BY <1>1, <1>5, <1>6, <1>7, <1>8 DEF CheckpointsAreOfTheModel

LEMMA TrainingSucceededInv ==
  ASSUME TrainerInv, UNCHANGED <<tasks, net, faults>>, ctl.phase = "release",
         Training, TrainingSucceeded
  PROVE  TrainerInv'
<1>1. /\ ctl.status = "ok" /\ UNCHANGED checkpoints
      /\ model' = model \cup {[round |-> round.id, of |-> agg.total]}
      /\ \/ Begins(round.id, "evaluate") /\ UNCHANGED <<force, state, stats>>
         \/ NumberOver(TRUE, force)
  BY DEF TrainingSucceeded
<1>2. OwnTypes /\ checkpoints' \subseteq 1 .. max_round_num
  BY <1>1, RoundsKnown DEF OwnTypes
<1>3. checkpoints' \subseteq {u.round : u \in model'}
  BY <1>1 DEF TrainerInv, CheckpointsAreOfTheModel
<1>4. /\ ModelIsFromQuorums' /\ CheckpointsAreOfTheModel'
      /\ ModelAfter(model', round.id, TRUE)
      /\ model' \subseteq [round : 1 .. max_round_num, of : SUBSET Reply]
      /\ \A i \in Nat : i < round.id =>
           ((\E u \in model' : u.round = i) <=> (\E u \in model : u.round = i))
  BY <1>1, <1>2, <1>3, ModelGrows
<1>5. CASE NumberOver(TRUE, force)
  <2>1. force \in BOOLEAN /\ TRUE \in BOOLEAN
    BY <1>2 DEF OwnTypes
  <2> QED BY <1>2, <1>4, <1>5, <2>1, NumberOverInv
<1>6. CASE Begins(round.id, "evaluate") /\ UNCHANGED <<force, state, stats>>
  <2>1. /\ "evaluate" \in Kind /\ round.id \in Nat /\ round.id >= round.id
        /\ ControlInv /\ ContentInv /\ "evaluate" # "train"
    BY RoundsKnown DEF Kind
  <2>2. /\ ControlInv' /\ ContentInv' /\ SumsInv'
        /\ round'.id = round.id /\ round'.kind = "evaluate" /\ Running'
    BY <1>6, <2>1, BeginsContent
  <2>3. OwnTypes'
    BY <1>2, <1>4, <1>6, <2>2 DEF OwnTypes
  <2>4. /\ \A u \in model' : u.round <= round'.id
        /\ \E u \in model' : u.round = round'.id
    BY <1>4, <2>2 DEF ModelAfter
  <2>5. stats'.success > 0 <=> \E u \in model' : u.round < round'.id
    <3>1. stats.success > 0 <=> \E u \in model : u.round < round.id
      BY DEF TrainerInv, Running
    <3>2. \A u \in model \cup model' : u.round \in Nat
      BY <1>4, RoundsKnown
    <3>3. (\E u \in model' : u.round < round.id) <=> (\E u \in model : u.round < round.id)
      BY <1>4, <3>2
    <3> QED BY <1>6, <2>2, <3>1, <3>3
  <2>6. ~Training'
    BY <2>2 DEF Training
  <2> QED BY <1>4, <2>2, <2>3, <2>4, <2>5, <2>6, TypeParts DEF TrainerInv, ControlInv
<1> QED BY <1>1, <1>5, <1>6

LEMMA EvaluationOverInv ==
  ASSUME TrainerInv, UNCHANGED <<tasks, net, faults>>, ctl.phase = "release",
         ~Training, EvaluationOver
  PROVE  TrainerInv'
<1>1. /\ UNCHANGED model
      /\ \/ Begins(round.id, "reevaluate") /\ UNCHANGED <<force, state, stats, checkpoints>>
         \/ checkpoints' \in {checkpoints, checkpoints \cup {round.id}} /\ NumberOver(TRUE, force)
  BY DEF EvaluationOver, Saved
<1>2. OwnTypes /\ round.id \in 1 .. max_round_num /\ ControlInv /\ ContentInv
  BY RoundsKnown
<1>3. \E u \in model : u.round = round.id
  BY DEF TrainerInv
<1>4. ModelIsFromQuorums'
  BY <1>1 DEF TrainerInv, ModelIsFromQuorums
<1>5. CASE checkpoints' \in {checkpoints, checkpoints \cup {round.id}} /\ NumberOver(TRUE, force)
  <2>1. force \in BOOLEAN /\ TRUE \in BOOLEAN
    BY <1>2 DEF OwnTypes
  <2>2. /\ checkpoints' \subseteq 1 .. max_round_num
        /\ model' \subseteq [round : 1 .. max_round_num, of : SUBSET Reply]
    BY <1>1, <1>2, <1>5 DEF OwnTypes
  <2>3. CheckpointsAreOfTheModel'
    BY <1>1, <1>3, <1>5 DEF TrainerInv, CheckpointsAreOfTheModel
  <2>4. ModelAfter(model', round.id, TRUE)
    BY <1>1, <1>3 DEF TrainerInv, ModelAfter
  <2> QED BY <1>1, <1>2, <1>4, <1>5, <2>1, <2>2, <2>3, <2>4, NumberOverInv
<1>6. CASE Begins(round.id, "reevaluate") /\ UNCHANGED <<force, state, stats, checkpoints>>
  <2>1. /\ "reevaluate" \in Kind /\ round.id \in Nat /\ round.id >= round.id
        /\ "reevaluate" # "train"
    BY RoundsKnown DEF Kind
  <2>2. /\ ControlInv' /\ ContentInv' /\ SumsInv'
        /\ round'.id = round.id /\ round'.kind = "reevaluate" /\ Running'
    BY <1>2, <1>6, <2>1, BeginsContent
  <2>3. OwnTypes' /\ CheckpointsAreOfTheModel'
    BY <1>1, <1>2, <1>6, <2>2 DEF OwnTypes, TrainerInv, CheckpointsAreOfTheModel
  <2>4. /\ \A u \in model' : u.round <= round'.id
        /\ \E u \in model' : u.round = round'.id
        /\ stats'.success > 0 <=> \E u \in model' : u.round < round'.id
    BY <1>1, <1>3, <1>6, <2>2 DEF TrainerInv, Running
  <2>5. ~Training'
    BY <2>2 DEF Training
  <2> QED BY <1>4, <2>2, <2>3, <2>4, <2>5, TypeParts DEF TrainerInv, ControlInv
<1> QED BY <1>1, <1>5, <1>6

LEMMA TrainerStep == ASSUME TrainerInv, [Next]_vars PROVE TrainerInv'
<1>1. OwnTypes
  BY RoundsKnown
<1>2. CASE RoundStep /\ UNCHANGED trainerVars
  <2>1. round' = round
    BY <1>2, RoundKept DEF RoundNext
  <2> QED BY <1>1, <1>2, <2>1, RoundStepInv DEF trainerVars, OwnTypes
<1>3. CASE StopCommand
  <2>1. round' = round
    BY <1>3 DEF StopCommand, Stop
  <2>2. OwnTypes'
    BY <1>1, <1>3, <2>1 DEF StopCommand, OwnTypes
  <2> QED BY <1>3, <2>2, RoundStepInv DEF StopCommand
<1>4. CASE RoundOver
  BY <1>4, TrainingFailedInv, TrainingSucceededInv, EvaluationOverInv DEF RoundOver
<1>5. CASE UNCHANGED vars
  BY <1>1, <1>5, RoundStepInv DEF vars, trainerVars, roundVars, OwnTypes
<1> QED BY <1>2, <1>3, <1>4, <1>5 DEF Next

LEMMA TrainerAlways == Spec => []TrainerInv
BY TrainerInit, TrainerStep, PTL DEF Spec

\* Every value the variables of a job take is of their types.
THEOREM TrainerTypes == Spec => []TrainerTypeOK
<1>1. TrainerInv => TrainerTypeOK
  BY DEF TrainerInv
<1> QED BY <1>1, TrainerAlways, PTL

\* The model of a job holds nothing but averages over the updates of quorums, one
\* for a round at most, however late the replies of other rounds come.
THEOREM ModelFromQuorums == Spec => []ModelIsFromQuorums
<1>1. TrainerInv => ModelIsFromQuorums
  BY DEF TrainerInv
<1> QED BY <1>1, TrainerAlways, PTL

\* No checkpoint is of a round the model learnt nothing from.
THEOREM CheckpointsOfTheModel == Spec => []CheckpointsAreOfTheModel
<1>1. TrainerInv => CheckpointsAreOfTheModel
  BY DEF TrainerInv
<1> QED BY <1>1, TrainerAlways, PTL

\* What holds of one round alone holds of every round of a job, although the tasks
\* and the replies of the rounds before it are still about.
THEOREM EveryRound == Spec => [](SuccessIsQuorum /\ NoLostWakeup /\ MeanIsOfTheCounted)
<1>1. TrainerInv => SuccessIsQuorum
  BY SuccessFollows DEF TrainerInv
<1>2. TrainerInv => NoLostWakeup /\ MeanIsOfTheCounted
  BY DEF TrainerInv, ControlInv, ControllerOK, NoLostWakeup, SumsInv, MeanIsOfTheCounted
<1> QED BY <1>1, <1>2, TrainerAlways, PTL

-----------------------------------------------------------------------------
(* The promise of Training. *)

Improved == {u.round : u \in model}
Outcome ==
  IF ctl.phase = "crashed" THEN "CRASHED" ELSE IF Running THEN "RUNNING" ELSE state

PromiseKept == [Promise!TrainingNext]_Promise!vars

\* What is seen of a job stays as it is.
LEMMA PromiseStutters ==
  ASSUME UNCHANGED <<round, force, model, Outcome>>
  PROVE  PromiseKept
BY DEF PromiseKept, Promise!vars, Outcome

LEMMA PromiseCrashes ==
  ASSUME UNCHANGED <<round, force, model>>, Outcome = "RUNNING", Outcome' = "CRASHED"
  PROVE  PromiseKept
BY DEF PromiseKept, Promise!TrainingNext, Promise!Crashes, Outcome

LEMMA RoundStepPromise ==
  ASSUME TrainerInv, RoundStep, UNCHANGED trainerVars
  PROVE  PromiseKept
<1>1. round' = round /\ UNCHANGED <<force, model, state>>
  BY RoundKept DEF RoundNext, trainerVars
<1>2. /\ ctl'.phase = "done" <=> ctl.phase = "done"
      /\ ctl.phase = "crashed" => ctl'.phase = "crashed"
  BY PhaseStep DEF TrainerInv
<1>3. CASE ctl'.phase = "crashed" /\ ctl.phase # "crashed"
  BY <1>1, <1>2, <1>3, PromiseCrashes DEF Outcome, Running
<1>4. CASE ~(ctl'.phase = "crashed" /\ ctl.phase # "crashed")
  BY <1>1, <1>2, <1>4, PromiseStutters DEF Outcome, Running
<1> QED BY <1>3, <1>4

LEMMA StopPromise == ASSUME TrainerInv, StopCommand PROVE PromiseKept
<1>1. /\ Running /\ force' = TRUE /\ UNCHANGED <<round, model>>
      /\ ctl' = [ctl EXCEPT !.stopped = TRUE, !.code = "ForceStop", !.event = TRUE]
  BY DEF StopCommand, Stop, StoppedFor
<1>2. ctl'.phase = ctl.phase
  BY <1>1, ControlInvParts DEF TrainerInv, ControllerOK, Controller
<1>3. Outcome = "RUNNING" /\ Outcome' = "RUNNING"
  BY <1>1, <1>2 DEF Outcome, Running
<1> QED BY <1>1, <1>3 DEF PromiseKept, Promise!TrainingNext, Promise!Stops, Outcome

\* Another round object for the number that runs, or the next number, or the end:
\* improved is what the model has learnt by then.
LEMMA BeginsPromise ==
  ASSUME ctl.phase = "release", NEW kind, Begins(round.id, kind), UNCHANGED force,
         Improved' \in {Improved, Improved \cup {round.id}}
  PROVE  PromiseKept
<1>1. ctl'.phase = "select" /\ round'.id = round.id
  BY DEF Begins, NewController
<1>2. Outcome = "RUNNING" /\ Outcome' = "RUNNING"
  BY <1>1 DEF Outcome, Running
<1> QED BY <1>1, <1>2
        DEF PromiseKept, Promise!TrainingNext, Promise!Evaluates, Promise!Learns, Outcome, Improved

LEMMA NumberOverPromise ==
  ASSUME TrainerInv, ctl.phase = "release", NEW ok \in BOOLEAN,
         NEW f \in {force, TRUE}, NumberOver(ok, f),
         model' \subseteq [round : 1 .. max_round_num, of : SUBSET Reply],
         ModelAfter(model', round.id, ok),
         \A i \in Nat : i < round.id =>
           ((\E u \in model' : u.round = i) <=> (\E u \in model : u.round = i)),
         Improved' \in {Improved, Improved \cup {round.id}}
  PROVE  PromiseKept
<1> DEFINE s == IF ok THEN [stats EXCEPT !.success = @ + 1]
                      ELSE [stats EXCEPT !.failed = @ + 1]
<1>1. /\ force' = f
      /\ \/ /\ round.id < max_round_num /\ ~f
            /\ Begins(round.id + 1, "train")
         \/ /\ ~(round.id < max_round_num /\ ~f)
            /\ state' = Verdict(s, f) /\ ctl' = [ctl EXCEPT !.phase = "done"]
            /\ round' = round
  BY DEF NumberOver, GoesOn
<1>2. /\ OwnTypes /\ round.id \in 1 .. max_round_num /\ ctl \in Controller
      /\ \A u \in model \cup model' : u.round \in Nat
  BY RoundsKnown DEF OwnTypes, ControlInv, RoundTypeOK
<1>3. /\ s.success \in Nat /\ stats.success \in Nat
      /\ s.success = IF ok THEN stats.success + 1 ELSE stats.success
  BY <1>2 DEF OwnTypes
<1> HIDE DEF s
<1>4. Outcome = "RUNNING"
  BY DEF Outcome, Running
<1>5. CASE round.id < max_round_num /\ ~f /\ Begins(round.id + 1, "train")
  <2>1. ctl'.phase = "select" /\ round'.id = round.id + 1
    BY <1>5 DEF Begins, NewController
  <2>2. ~force /\ force' = force /\ Outcome' = "RUNNING"
    BY <1>1, <1>2, <1>5, <2>1 DEF Outcome, Running, OwnTypes
  <2> QED BY <1>4, <1>5, <2>1, <2>2
          DEF PromiseKept, Promise!TrainingNext, Promise!GoesOn, Promise!Learns, Outcome, Improved
<1>6. CASE /\ ~(round.id < max_round_num /\ ~f)
           /\ state' = Verdict(s, f) /\ ctl' = [ctl EXCEPT !.phase = "done"]
           /\ round' = round
  <2>1. s.success = 0 <=> Improved' = {}
    <3>1. stats.success > 0 <=> \E u \in model : u.round < round.id
      BY DEF TrainerInv, Running
    <3>2. (\E u \in model' : u.round < round.id) <=> (\E u \in model : u.round < round.id)
      BY <1>2
    <3>3. CASE ok
      BY <1>3, <3>3 DEF ModelAfter, Improved
    <3>4. CASE ~ok
      <4>1. \A u \in model' : u.round < round.id
        BY <1>2, <3>4 DEF ModelAfter
      <4>2. (\E u \in model' : TRUE) <=> stats.success > 0
        BY <3>1, <3>2, <4>1
      <4>3. (\E u \in model' : TRUE) <=> Improved' # {}
        BY DEF Improved
      <4> QED BY <1>3, <3>4, <4>2, <4>3
    <3> QED BY <3>3, <3>4
  <2>2. state' = Promise!Verdict
    BY <1>1, <1>6, <2>1 DEF Verdict, Promise!Verdict, Improved
  <2>3. Outcome' = state'
    BY <1>2, <1>6 DEF Outcome, Running, Controller
  <2>4. f \/ round.id = max_round_num
    BY <1>2, <1>6, TrainerAssumption
  <2> QED BY <1>1, <1>4, <1>6, <2>2, <2>3, <2>4
          DEF PromiseKept, Promise!TrainingNext, Promise!Ends, Promise!Learns, Outcome, Improved
<1> QED BY <1>1, <1>5, <1>6

LEMMA RoundOverPromise == ASSUME TrainerInv, RoundOver PROVE PromiseKept
<1>1. /\ OwnTypes /\ ctl.phase = "release" /\ UNCHANGED <<tasks, net, faults>>
      /\ \A u \in model : u.round <= round.id
      /\ Training => \A u \in model : u.round # round.id
      /\ ~Training => \E u \in model : u.round = round.id
      /\ TRUE \in BOOLEAN /\ FALSE \in BOOLEAN
  BY RoundsKnown DEF RoundOver, TrainerInv, Running
<1>2. ModelAfter(model, round.id, ~Training)
  BY <1>1 DEF ModelAfter
<1>3. model \subseteq [round : 1 .. max_round_num, of : SUBSET Reply]
  BY <1>1 DEF OwnTypes
<1>4. CASE Training /\ TrainingFailed
  <2>1. PICK f \in {force, TRUE} : NumberOver(FALSE, f)
    BY <1>1, <1>4 DEF TrainingFailed, OwnTypes
  <2>2. model' = model /\ Improved' \in {Improved, Improved \cup {round.id}}
    BY <1>4 DEF TrainingFailed, Improved
  <2>3. ModelAfter(model', round.id, FALSE)
    BY <1>2, <1>4, <2>2 DEF ModelAfter
  <2> QED BY <1>1, <1>3, <2>1, <2>2, <2>3, NumberOverPromise
<1>5. CASE Training /\ TrainingSucceeded
  <2> DEFINE new == [round |-> round.id, of |-> agg.total]
  <2>1. /\ ctl.status = "ok" /\ model' = model \cup {new} /\ UNCHANGED checkpoints
        /\ new.round = round.id
        /\ \/ Begins(round.id, "evaluate") /\ UNCHANGED <<force, state, stats>>
           \/ NumberOver(TRUE, force)
    BY <1>5 DEF TrainingSucceeded
  <2>2. /\ ModelAfter(model', round.id, TRUE)
        /\ model' \subseteq [round : 1 .. max_round_num, of : SUBSET Reply]
        /\ \A i \in Nat : i < round.id =>
             ((\E u \in model' : u.round = i) <=> (\E u \in model : u.round = i))
    <3>1. checkpoints' \subseteq {u.round : u \in model'} /\ checkpoints' \subseteq 1 .. max_round_num
      BY <1>1, <2>1 DEF TrainerInv, CheckpointsAreOfTheModel, OwnTypes
    <3> QED BY <1>1, <1>5, <2>1, <3>1, ModelGrows
  <2> HIDE DEF new
  <2>3. Improved' = Improved \cup {round.id}
    BY <2>1 DEF Improved
  <2> QED BY <1>1, <2>1, <2>2, <2>3, BeginsPromise, NumberOverPromise
<1>6. CASE ~Training /\ EvaluationOver
  <2>1. /\ model' = model
        /\ \/ Begins(round.id, "reevaluate") /\ UNCHANGED force
           \/ NumberOver(TRUE, force)
    BY <1>6 DEF EvaluationOver
  <2>2. Improved' = Improved /\ ModelAfter(model', round.id, TRUE)
    BY <1>2, <1>6, <2>1 DEF Improved, ModelAfter
  <2> QED BY <1>1, <1>3, <2>1, <2>2, BeginsPromise, NumberOverPromise
<1> QED BY <1>4, <1>5, <1>6 DEF RoundOver

\* Every step of the coordinator is one its promise allows: it begins no round once it
\* was told to stop, and reports the verdict its rounds deserve. That it comes to its
\* end needs the fairness of FairSpec.
THEOREM KeepsPromises == Spec => Promise!TrainingSpec
<1>1. Init => Promise!TrainingInit
  BY DEF Init, RoundInit, NewController, Running, Promise!TrainingInit
<1>2. TrainerInv /\ [Next]_vars => PromiseKept
  <2> SUFFICES ASSUME TrainerInv, [Next]_vars PROVE PromiseKept
    OBVIOUS
  <2>1. CASE UNCHANGED vars
    BY <2>1, PromiseStutters DEF vars, roundVars, trainerVars, Outcome, Running
  <2> QED BY <2>1, RoundStepPromise, StopPromise, RoundOverPromise DEF Next
<1> QED BY <1>1, <1>2, TrainerAlways, PTL DEF Spec, Promise!TrainingSpec, PromiseKept

==============================================================================
