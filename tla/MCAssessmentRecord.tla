--------------------------- MODULE MCAssessmentRecord ---------------------------
(***************************************************************************)
(* Three calls over two derivations, two owner tokens and two surfaces, so   *)
(* that calls may agree or differ in each.  Keys, tokens and surfaces are     *)
(* interchangeable, so nothing is lost by fixing what the first call asks.    *)
(***************************************************************************)
EXTENDS AssessmentRecord

CONSTANTS c1, k1, o1, s1

MCAssessmentInit ==
    /\ AssessmentInit
    /\ mine[c1] = [key |-> k1, actor |-> "human", owner |-> o1, surface |-> s1]

MCAssessmentSpec ==
    MCAssessmentInit /\ [][AssessmentNext]_vars /\ \A c \in Calls : WF_vars(Step(c))

=============================================================================
