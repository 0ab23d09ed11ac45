------------------------------ MODULE MCReplayRun ------------------------------
(***************************************************************************)
(* Two drives, two decisions, two attempts at admission in each drive, and    *)
(* a clock that lets each of two gates be open for its whole timeout: enough   *)
(* for a decision, or an attempt the server gave up on, to outlive the drive   *)
(* it was meant for.  The grace for future-dated decisions is one tick, and a  *)
(* client's clock may be that far ahead.                                      *)
(***************************************************************************)
EXTENDS ReplayRun

=============================================================================
