-------------------------- MODULE MCScheduleProcessor --------------------------
(* ScheduleProcessor with one workflow and cron expressions that are due in   *)
(* every interval ("every") and in every second one ("second").               *)
EXTENDS ScheduleProcessor

MCNextRun == [c \in Crons |-> [t \in 0..MaxTime |->
                 IF c = "every" THEN t + 1 ELSE 2 * (t \div 2) + 2]]

=============================================================================
