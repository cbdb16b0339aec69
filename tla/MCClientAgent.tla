----------------------------- MODULE MCClientAgent -----------------------------
(* Model-checking instances of ClientAgent, and of the tasks of the cloud that *)
(* its workers are.                                                            *)
EXTENDS ClientAgent

Pods == INSTANCE CloudTask

\* What a launch and a removal are worth to the job scheduler and to a client: one
\* that reports success left all or nothing, whatever failed before.
ASSUME TasksAreWholeOrGone ==
  Pods!LaunchIsWhole /\ Pods!RemovalIsComplete /\ Pods!LaunchHeals /\ Pods!PodGoesLast

\* Where that ends: the service of a failed launch, and a launch that a delete met.
ASSUME TasksLeak == Pods!ServiceLeaks /\ Pods!PodIsCutOff

==============================================================================
