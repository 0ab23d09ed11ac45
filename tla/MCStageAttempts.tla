---------------------------- MODULE MCStageAttempts ----------------------------
(***************************************************************************)
(* The build and the verification, which demands it, two tries at each, and   *)
(* three attempts in all: a zombie, the attempt that replaced it and a third  *)
(* that meets what both left behind, on one operation or on two.              *)
(***************************************************************************)
EXTENDS StageAttempts, TLC

CONSTANTS build, verify, a1, a2, a3, legacy

MCStageOrder == <<build, verify>>
MCRequires == (build :> {}) @@ (verify :> {build})

\* _STAGE_RETRY.non_retryable_error_types
MCNonRetryable == {"ValueError", "TypeError", "RuntimeError", "OSError",
                   "FileExistsError", "AssertionError"}

=============================================================================
