------------------------ MODULE MCSubprocessSupervision ------------------------
(***************************************************************************)
(* Both kinds of stage, and three cancellations for each: one to start a       *)
(* cleanup, before or after an expired budget, one to fall into it, and one     *)
(* more that finds the coroutine ended or the wait still absorbing.            *)
(***************************************************************************)
EXTENDS SubprocessSupervision

=============================================================================
