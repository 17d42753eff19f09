---------------------------- MODULE MCScheduler ----------------------------
(* Small instances of Scheduler. *)
EXTENDS Scheduler

CONSTANTS q1    \* a run-now request

Recurring(concurrency, misfire, notify) ==
    [kind |-> "interval", concurrency |-> concurrency, misfire |-> misfire,
     resume |-> concurrency = "QUEUE", notify |-> notify]

OneShot == [Recurring("REPLACE", "RUN_ONCE", TRUE) EXCEPT !.kind = "one_shot"]

(* What POST /schedules makes of a heartbeat with the request's defaults. *)
Heartbeat == [Recurring("QUEUE", "RUN_ONCE", FALSE) EXCEPT !.kind = "heartbeat"]

(* An updated heartbeat. *)
SkippingHeartbeat == [Heartbeat EXCEPT !.concurrency = "SKIP", !.misfire = "SKIP"]

Policies ==
    {Recurring("SKIP", "CATCH_UP", TRUE), Recurring("QUEUE", "RUN_ONCE", TRUE),
     Recurring("REPLACE", "CATCH_UP", TRUE), SkippingHeartbeat}

Lively == Policies \cup {OneShot}
=============================================================================
