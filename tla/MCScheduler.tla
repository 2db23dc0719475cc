---------------------------- MODULE MCScheduler ----------------------------
(* Instance of Scheduler for TLC: one rule of each family that fires by *)
(* itself or on a signal, and, apart, one that waits before it first fires. *)
EXTENDS Scheduler, TLC

CONSTANTS hourly, deploy, nightly

MCRules == {hourly, deploy, nightly}
MCTriggers == hourly :> "interval" @@ deploy :> "event" @@ nightly :> "daily"

MCEdits == {<<hourly, TRUE>>, <<deploy, TRUE>>, <<deploy, FALSE>>}
MCRequested == {nightly}

MCDeferredRules == {hourly}
MCDeferredEdits == {hourly} \X {TRUE}
MCDeferredTriggers == hourly :> "deferred"
=============================================================================
