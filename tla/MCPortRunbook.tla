------------------------------ MODULE MCPortRunbook ------------------------------
(* The smallest port: one walk of one session, of which the log holds nothing, *)
(* and one endpoint that becomes a candidate.                                *)
EXTENDS PortRunbook

=============================================================================
