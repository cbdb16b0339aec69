---------------------------- MODULE MCModelManager ----------------------------
(* Model-checking instances of ModelManager, and of what its interface and     *)
(* that of the job scheduler answer.                                           *)
EXTENDS ModelManager

Http == INSTANCE Answers

\* What a client may conclude from an answer, with every exception to it.
ASSUME AnswersAreMeant == Http!RefusalChangesNothing /\ Http!FaultIsRefused /\ Http!AbsenceIsTold

==============================================================================
