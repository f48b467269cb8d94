------------------------ MODULE SchedulerOvertaking ------------------------
(***************************************************************************)
(* How fair the rounds of the scheduler are to a task: Scheduler with the  *)
(* number of steps that one task makes while another one is runnable and   *)
(* waits for its own.  The pair is a constant: Tasks are interchangeable.  *)
(***************************************************************************)
EXTENDS Scheduler

CONSTANTS Patient, Hasty   \* two tasks
ASSUME PairAssumption == {Patient, Hasty} \subseteq Task /\ Patient # Hasty

VARIABLE overtaken   \* steps of Hasty since Patient became runnable or stepped

ovars == <<vars, overtaken>>

(* The bound of the counter: one more than what is claimed. *)
MaxOvertaken == 3

(* zm_go runs one step of t. *)
Steps(t) == (StepBegin \/ StepEnd) /\ heap'.sstate = t

Observe ==
    overtaken' =
        IF Patient \notin Runnable \cap Runnable' \/ Steps(Patient)
        THEN 0
        ELSE IF Steps(Hasty) /\ overtaken < MaxOvertaken
        THEN overtaken + 1
        ELSE overtaken

(* A host that collects an uncaught exception as soon as zm_go returns. *)
PromptHost == uncaught /\ go.pc = "host" => ~uncaught'

OInit == Init /\ overtaken = 0
ONext == Next /\ Observe /\ PromptHost
OSpec == OInit /\ [][ONext]_ovars

(* In unfiltered calls of zm_go, a runnable task is overtaken at most      *)
(* twice by any other one: the other one may be ahead of it in this round, *)
(* and be resumed into the list of an idle worker, whose turn comes first. *)
OvertakenAtMostTwice == overtaken <= 2
=============================================================================
