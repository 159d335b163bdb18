---------------------------- MODULE MCScheduling ----------------------------
(* Model values for Scheduling: a job that is always due, one every second *)
(* instant, and one-time jobs.                                             *)
EXTENDS Scheduling, TLC

CONSTANTS j1, j2

Cron1 == CronSchedule(1)
Cron2 == CronSchedule(2)
OnceAt1 == OneTimeSchedule(1)
OnceAt2 == OneTimeSchedule(2)

Schedules == {Cron1, Cron2, OnceAt1, OnceAt2}
CronAndOnce == {Cron2, OnceAt1}

SamePriority == [j \in Job |-> "HIGH"]
LowAndMedium == (j1 :> "LOW") @@ (j2 :> "MEDIUM")

=============================================================================
