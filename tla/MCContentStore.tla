---------------------------- MODULE MCContentStore ----------------------------
(***************************************************************************)
(* Three writers of one blob, so that one can publish, be killed and be      *)
(* adopted from by two others at once, and a reader beside them.             *)
(***************************************************************************)
EXTENDS ContentStore

=============================================================================
