---------------------------- MODULE RoundController ----------------------------
(***************************************************************************)
(* One round of a federated job: class RoundController of                  *)
(* coordinator/round_controller.py, the TrainRound or EvaluateRound it     *)
(* runs, the WeightAggregator of the round, and the tasks the clients run  *)
(* for it.                                                                 *)
(*                                                                         *)
(* run() is one coroutine; ctl.phase names the await it is suspended at.   *)
(* The replies of the clients, the stop command and the timer come in      *)
(* between: process_msg, stop and __timeout_handler never suspend. A round *)
(* begins by asking the selector for clients and ends with the answer to   *)
(* its release of them.                                                    *)
(***************************************************************************)
EXTENDS Naturals, FiniteSets

CONSTANTS
  Client,          \* the addresses of the clients
  client_num,      \* clients asked for; also the replies after which a round is over
  threshold,       \* threshold_client_num: successful replies that make a round
  MaxSelected,     \* ceil(redundancy * client_num): the selector returns up to so many
  MAX_RETRY_TIMES, \* attempts to stop a client
  Secure,          \* BOOLEAN: are the updates masked (SSA)?
  Extended,        \* BOOLEAN: does the job have extenders, which may fail?
  Unfit,           \* BOOLEAN: may an upload be impossible to aggregate?
  MaxFaults        \* bound on calls that fail

ASSUME RoundAssumption ==
  /\ IsFiniteSet(Client)
  /\ client_num \in Nat \ {0} /\ threshold \in Nat \ {0} /\ MaxSelected \in Nat
  /\ client_num <= MaxSelected /\ client_num <= Cardinality(Client)
  /\ MAX_RETRY_TIMES \in Nat \ {0} /\ MaxFaults \in Nat
  /\ Secure \in BOOLEAN /\ Extended \in BOOLEAN /\ Unfit \in BOOLEAN

VARIABLES
  round,  \* the round that runs: its number and its kind
  ctl,    \* the fields of its RoundController
  agg,    \* the fields of its WeightAggregator, as the replies that went into each
  tasks,  \* the tasks at the clients
  net,    \* the replies on their way to the coordinator
  faults  \* how many calls have failed

roundVars == <<round, ctl, agg, tasks, net, faults>>

\* A round is evaluated a second time when nothing came of the first; on the
\* wire the two look alike.
Kind == {"train", "evaluate", "reevaluate"}
Wire(kind) == IF kind = "train" THEN "train" ELSE "evaluate"

\* A failed reply carries no update. A broken one cannot be unpacked, an unfit
\* one is found not to fit when part of it is added already.
Status == {"success", "failed", "broken", "unfit"}

Task == [client : Client, round : Nat, kind : Kind, sent : BOOLEAN]
Reply == [client : Client, round : Nat, kind : Kind, status : Status]
ReplyOf(t, s) == [client |-> t.client, round |-> t.round, kind |-> t.kind, status |-> s]

Phase == {"select", "broadcast", "wait", "unmask", "stop", "release", "done", "crashed"}
Call == {"none", "sent", "ok", "failed"}

Controller ==
  [phase : Phase, clients : SUBSET Client, call : [Client -> Call],
   timer : {"none", "armed", "fired", "cancelled"}, event : BOOLEAN,
   stopped : BOOLEAN, accept : BOOLEAN, success : Nat, failed : Nat,
   received : Nat, tries : 0 .. MAX_RETRY_TIMES, code : {"none", "ForceStop", "ExtendFailed"},
   status : {"none", "ok", "failed"}]

\* RoundController.__init__ and run up to the call of the selector.
NewController ==
  [phase |-> "select", clients |-> {}, call |-> [c \in Client |-> "none"],
   timer |-> "none", event |-> FALSE, stopped |-> FALSE, accept |-> TRUE,
   success |-> 0, failed |-> 0, received |-> 0, tries |-> 0, code |-> "none",
   status |-> "none"]

\* WeightAggregator: the replies in the sum of the metrics, in the sum of the
\* weights, and in the total weight both sums are divided by.
NewAggregator == [metrics |-> {}, weights |-> {}, total |-> {}]

RoundTypeOK ==
  /\ round \in [id : Nat, kind : Kind]
  /\ ctl \in Controller
  /\ agg \in [metrics : SUBSET Reply, weights : SUBSET Reply, total : SUBSET Reply]
  /\ tasks \subseteq Task /\ net \subseteq Reply
  /\ faults \in Nat

Running == ctl.phase \notin {"done", "crashed"}
Training == round.kind = "train"

SpendFault == faults < MaxFaults /\ faults' = faults + 1

-----------------------------------------------------------------------------
(* The end of run().                                                       *)

\* The exceptions run() does not catch end the coordinator.
Crashed(c) == [c EXCEPT !.phase = "crashed"]
\* The result is settled, and release() is called.
Closing(c, status) == [c EXCEPT !.phase = "release", !.status = status]

\* What follows aggregate() in __finish: the extender of a train round may fail.
Averages(c) ==
  \/ ctl' = Closing(c, "ok")
  \/ Unfit /\ ctl' = Closing(c, "failed")                   \* all weights are zero
  \/ Extended /\ Training /\ ctl' = Crashed(c)              \* ExtendExecutionFailed

CallEach(S) == [c \in Client |-> IF c \in S THEN "sent" ELSE "none"]

\* Faulty variant: every reply counts for the threshold, whatever it says.
FinishesUncounted(c) ==
  \/ /\ c.stopped
     /\ ctl' = [c EXCEPT !.phase = "stop", !.tries = 1, !.call = CallEach(c.clients)]
  \/ /\ ~c.stopped /\ (c.timer = "fired" \/ c.received < threshold)
     /\ ctl' = Closing(c, "failed")
  \/ /\ ~c.stopped /\ c.timer # "fired" /\ c.received >= threshold
     /\ IF Secure /\ Training THEN ctl' = [c EXCEPT !.phase = "unmask"] ELSE Averages(c)
\* __finish up to its next await.
Finishes(c) ==
  \/ /\ c.stopped
     /\ ctl' = [c EXCEPT !.phase = "stop", !.tries = 1, !.call = CallEach(c.clients)]
  \/ /\ ~c.stopped /\ (c.timer = "fired" \/ c.success < threshold)
     /\ ctl' = Closing(c, "failed")
  \/ /\ ~c.stopped /\ c.timer # "fired" /\ c.success >= threshold
     /\ IF Secure /\ Training THEN ctl' = [c EXCEPT !.phase = "unmask"] ELSE Averages(c)

\* The condition of the loop of __wait_updates.
Waits(c) ==
  /\ c.success < threshold /\ c.received < client_num
  /\ c.timer = "armed" /\ ~c.stopped

\* Faulty variant: updates are still accepted after the wait.
TurnOpen(c) ==
  \/ Waits(c) /\ ctl' = [c EXCEPT !.phase = "wait", !.event = FALSE]
  \/ /\ ~Waits(c)
     /\ Finishes([c EXCEPT !.timer = IF @ = "armed" THEN "cancelled" ELSE @])
\* A turn of that loop: it clears the event and waits for it again, or goes on
\* to __finish.
Turn(c) ==
  \/ Waits(c) /\ ctl' = [c EXCEPT !.phase = "wait", !.event = FALSE]
  \/ /\ ~Waits(c)
     /\ Finishes([c EXCEPT !.accept = FALSE,
                           !.timer = IF @ = "armed" THEN "cancelled" ELSE @])

-----------------------------------------------------------------------------
(* run(): select and broadcast.                                            *)

\* The selector returns clients, and on_prepare builds the task for them.
Selected ==
  /\ ctl.phase = "select"
  /\ \E S \in SUBSET Client :
       /\ Cardinality(S) \in client_num .. MaxSelected
       /\ LET c == [ctl EXCEPT !.clients = S] IN
          \/ ctl' = [c EXCEPT !.phase = "broadcast", !.call = CallEach(S)]
          \/ Extended /\ ctl' = Crashed(c)                  \* ExtendExecutionFailed
  /\ UNCHANGED <<round, agg, tasks, net, faults>>

\* DeviceNotEnoughError: the selector has too few clients.
NotSelected ==
  /\ ctl.phase = "select"
  /\ ctl' = Closing(ctl, "failed")
  /\ UNCHANGED <<round, agg, tasks, net, faults>>

\* TaskManager.__assert_task_not_exist at the client.
Busy(c) == \E t \in tasks : t.client = c /\ t.round = round.id
                            /\ Wire(t.kind) = Wire(round.kind)

Answer(c, a) == ctl' = [ctl EXCEPT !.call[c] = a]

\* on_broadcast: the client creates the task; the answer may be lost.
TaskArrives(c) ==
  /\ ctl.phase = "broadcast" /\ ctl.call[c] = "sent" /\ ~Busy(c)
  /\ tasks' = tasks \cup {[client |-> c, round |-> round.id, kind |-> round.kind,
                           sent |-> FALSE]}
  /\ \/ Answer(c, "ok") /\ UNCHANGED faults
     \/ Answer(c, "failed") /\ SpendFault
  /\ UNCHANGED <<round, agg, net>>

\* on_broadcast: the client refuses the task or cannot be reached.
TaskRefused(c) ==
  /\ ctl.phase = "broadcast" /\ ctl.call[c] = "sent"
  /\ Answer(c, "failed")
  /\ IF Busy(c) THEN UNCHANGED faults ELSE SpendFault
  /\ UNCHANGED <<round, agg, tasks, net>>

Answered == \A c \in Client : ctl.call[c] # "sent"
Reached == {c \in Client : ctl.call[c] = "ok"}

\* The end of __broadcast_task_to_client, when every call is answered.
Broadcast ==
  /\ ctl.phase = "broadcast" /\ Answered
  /\ IF Cardinality(Reached) < threshold
       THEN ctl' = Closing(ctl, "failed")
       ELSE Turn([ctl EXCEPT !.timer = "armed"])
  /\ UNCHANGED <<round, agg, tasks, net, faults>>

-----------------------------------------------------------------------------
(* run(): the wait and what follows it.                                    *)

\* Faulty variant: the timer does not wake the waiter.
TimerFiresUnseen ==
  /\ ctl.timer = "armed"
  /\ ctl' = [ctl EXCEPT !.timer = "fired"]
  /\ UNCHANGED <<round, agg, tasks, net, faults>>
\* __timeout_handler.
TimerFires ==
  /\ ctl.timer = "armed"
  /\ ctl' = [ctl EXCEPT !.timer = "fired", !.event = TRUE]
  /\ UNCHANGED <<round, agg, tasks, net, faults>>

\* The waiter of __wait_updates resumes.
Wakes ==
  /\ ctl.phase = "wait" /\ ctl.event
  /\ Turn(ctl)
  /\ UNCHANGED <<round, agg, tasks, net, faults>>

\* decrypt() of the secure aggregation ends, or raises a RuntimeError because
\* too few clients sent their shares.
Unmasked ==
  /\ ctl.phase = "unmask"
  /\ Averages(ctl) \/ ctl' = Crashed(ctl)
  /\ UNCHANGED <<round, agg, tasks, net, faults>>

\* on_stop: the client cancels the task, unless it is still being prepared
\* and there is nothing to cancel yet.
StopArrives(c) ==
  /\ ctl.phase = "stop" /\ ctl.call[c] = "sent"
  /\ tasks' \in {tasks, {t \in tasks : ~(t.client = c /\ t.round = round.id
                                         /\ Wire(t.kind) = Wire(round.kind))}}
  /\ Answer(c, "ok")
  /\ UNCHANGED <<round, agg, net, faults>>

StopFails(c) ==
  /\ ctl.phase = "stop" /\ ctl.call[c] = "sent" /\ SpendFault
  /\ Answer(c, "failed")
  /\ UNCHANGED <<round, agg, tasks, net>>

\* A turn of __stop_clients: those that could not be told are told again.
StopsAnswered ==
  /\ ctl.phase = "stop" /\ Answered
  /\ LET missed == {c \in Client : ctl.call[c] = "failed"} IN
     ctl' = IF missed # {} /\ ctl.tries < MAX_RETRY_TIMES
              THEN [ctl EXCEPT !.tries = @ + 1, !.call = CallEach(missed)]
              ELSE Closing(ctl, "failed")
  /\ UNCHANGED <<round, agg, tasks, net, faults>>

\* The selector has answered the release: run() returns.
Released ==
  /\ ctl.phase = "release"
  /\ ctl' = [ctl EXCEPT !.phase = "done"]
  /\ UNCHANGED <<round, agg, tasks, net, faults>>

\* A call of the selector that fails raises an exception run() does not catch.
SelectorFails ==
  /\ ctl.phase \in {"select", "release"} /\ SpendFault
  /\ ctl' = Crashed(ctl)
  /\ UNCHANGED <<round, agg, tasks, net>>

-----------------------------------------------------------------------------
(* process_msg and stop.                                                   *)

\* RoundController.__stop.
StoppedFor(c, code) == [c EXCEPT !.stopped = TRUE, !.code = code, !.event = TRUE]

\* RoundController.stop.
Stop ==
  /\ Running
  /\ ctl' = StoppedFor(ctl, "ForceStop")
  /\ UNCHANGED <<round, agg, tasks, net, faults>>

\* Only the metrics of a reply count in an evaluate round.
Usable(m) == IF Training THEN m.kind = "train" /\ m.status = "success" ELSE TRUE

\* Faulty variant: the total weight is forgotten.
AccumulatedUnweighed(m) ==
  [agg EXCEPT !.metrics = @ \cup {m}, !.weights = IF Training THEN @ \cup {m} ELSE @]
\* WeightAggregator.accumulate.
Accumulated(m) ==
  [metrics |-> agg.metrics \cup {m},
   weights |-> IF Training THEN agg.weights \cup {m} ELSE agg.weights,
   total |-> agg.total \cup {m}]

Counted(c) == [c EXCEPT !.received = @ + 1, !.event = TRUE]

\* __try_to_aggregate. The update is in the sums already when the extender fails;
\* of an unfit one the metrics are, and perhaps some of the weights.
TriesToAggregate(m) ==
  \/ /\ Usable(m) /\ agg' = Accumulated(m)
     /\ \/ ctl' = Counted([ctl EXCEPT !.success = @ + 1])
        \/ Extended /\ Training /\ ctl' = Counted(StoppedFor(ctl, "ExtendFailed"))
  \/ /\ ~Usable(m)
     /\ \/ UNCHANGED agg
        \/ /\ m.status = "unfit"
           /\ agg' \in {[agg EXCEPT !.metrics = @ \cup {m}],
                        [agg EXCEPT !.metrics = @ \cup {m}, !.weights = @ \cup {m}]}
     /\ ctl' = Counted([ctl EXCEPT !.failed = @ + 1])

\* process_msg, for a reply of this round.
Processes(m) ==
  IF m.status # "failed" /\ ctl.accept
    THEN TriesToAggregate(m)
    ELSE ctl' = Counted([ctl EXCEPT !.failed = @ + 1]) /\ UNCHANGED agg

\* Faulty variant: the number of the round is not looked at.
BelongsAlways(m) == TRUE
\* Trainer.__assert_msg_belongings.
Belongs(m) == m.round = round.id

\* A reply arrives at TrainReplyService or EvaluateReplyService; both take it to
\* the round that runs, or refuse it.
ReplyArrives(m) ==
  /\ Running /\ m \in net
  /\ net' = net \ {m}
  /\ IF Belongs(m) THEN Processes(m) ELSE UNCHANGED <<ctl, agg>>
  /\ UNCHANGED <<round, tasks, faults>>

-----------------------------------------------------------------------------
(* The tasks at the clients (client/task.py, sdk/report.py).               *)

\* The training script commits its result.
Submits(t) ==
  /\ t \in tasks /\ ~t.sent
  /\ tasks' = (tasks \ {t}) \cup {[t EXCEPT !.sent = TRUE]}
  /\ \E s \in {"success"} \cup (IF Unfit /\ t.kind = "train" THEN {"broken", "unfit"} ELSE {}) :
       net' = net \cup {ReplyOf(t, s)}
  /\ UNCHANGED <<round, ctl, agg, faults>>

\* A worker fails, before or after the commit, and the task reports that.
TaskFails(t) ==
  /\ t \in tasks
  /\ tasks' = tasks \ {t}
  /\ net' = net \cup {ReplyOf(t, "failed")}
  /\ UNCHANGED <<round, ctl, agg, faults>>

TaskEnds(t) ==
  /\ t \in tasks /\ t.sent
  /\ tasks' = tasks \ {t}
  /\ UNCHANGED <<round, ctl, agg, net, faults>>

-----------------------------------------------------------------------------

RoundInit ==
  /\ round = [id |-> 1, kind |-> "train"]
  /\ ctl = NewController /\ agg = NewAggregator
  /\ tasks = {} /\ net = {} /\ faults = 0

\* run(), when what it waits for happens, up to the release.
Runs ==
  \/ Selected \/ NotSelected \/ Broadcast \/ Wakes \/ Unmasked \/ StopsAnswered
Calls(c) == TaskArrives(c) \/ TaskRefused(c) \/ StopArrives(c) \/ StopFails(c)
Works == \E t \in tasks : Submits(t) \/ TaskFails(t) \/ TaskEnds(t)
Disturbs == TimerFires \/ SelectorFails \/ \E m \in net : ReplyArrives(m)

RoundStep == Runs \/ (\E c \in Client : Calls(c)) \/ Works \/ Disturbs

RoundNext == RoundStep \/ Stop \/ Released

RoundSpec == RoundInit /\ [][RoundNext]_roundVars

-----------------------------------------------------------------------------
(* Properties.                                                             *)

Contributors(S) == {m.client : m \in S}

\* A train round succeeds only with the updates of enough clients of this very
\* round, each counted once: run() returns True after the counters, not the
\* updates, reached the threshold.
SuccessIsQuorum ==
  Training /\ ctl.status = "ok" =>
    /\ Cardinality(Contributors(agg.total)) >= threshold
    /\ Cardinality(agg.total) = ctl.success
    /\ \A m \in agg.total : m.round = round.id /\ m.kind = "train"

\* The waiter of __wait_updates never sleeps through what it waits for: when the
\* condition of its loop is false, its event is set.
NoLostWakeup == ctl.phase = "wait" /\ ~Waits(ctl) => ctl.event

\* When a round succeeds, its average is over the counted updates: each of them is in
\* both sums and in the weight they are divided by. Only what is left of an update
\* that turned out not to fit is in a sum and not in the weight.
MeanIsOfTheCounted ==
  Training /\ ctl.status = "ok" =>
    /\ agg.total \subseteq agg.metrics \cap agg.weights
    /\ \A m \in (agg.metrics \cup agg.weights) \ agg.total : m.status = "unfit"

\* What is aggregated is fixed before it is unmasked or returned: a reply that
\* comes after the wait changes nothing of it.
AggregateIsFixed ==
  [][ctl.phase = "unmask" \/ ctl.status = "ok" => agg' = agg]_roundVars

==============================================================================
