-------------------------- MODULE MCOperationLedger --------------------------
(***************************************************************************)
(* Two keys, three owner tokens (one of them the backfill's) and two        *)
(* contents: enough for a takeover, a stale owner and a differing output to  *)
(* meet on one key while another key runs beside it.  Every history an old   *)
(* ledger may hold is an initial state.                                     *)
(***************************************************************************)
EXTENDS OperationLedger

=============================================================================
