------------------------------ MODULE OneOutcome ------------------------------
(***************************************************************************)
(* What the ledger promises about an operation, whoever calls it in         *)
(* whatever order: it has at most one outcome.  It is open until one output *)
(* is offered; an offered output can only be settled as it stands or given  *)
(* up; a settled output and a given-up operation stay as they are.          *)
(***************************************************************************)
CONSTANTS Keys, Outputs, NoOutput

VARIABLE outcome  \* for each key, its phase and the output it is about

Phase == {"open", "offered", "settled", "given_up"}

Init ==
    /\ outcome \in [Keys -> [phase : Phase, output : Outputs \cup {NoOutput}]]
    /\ \A k \in Keys :
         /\ outcome[k].phase = "open" => outcome[k].output = NoOutput
         /\ outcome[k].phase \in {"offered", "settled"} => outcome[k].output \in Outputs

Offer(k, out) ==
    /\ outcome[k].phase = "open"
    /\ outcome' = [outcome EXCEPT ![k] = [phase |-> "offered", output |-> out]]

Settle(k) ==
    /\ outcome[k].phase = "offered"
    /\ outcome' = [outcome EXCEPT ![k] = [phase |-> "settled", output |-> @.output]]

GiveUp(k) ==
    /\ outcome[k].phase \in {"open", "offered"}
    /\ outcome' = [outcome EXCEPT ![k] = [phase |-> "given_up", output |-> @.output]]

Next ==
    \E k \in Keys :
       \/ \E out \in Outputs : Offer(k, out)
       \/ Settle(k)
       \/ GiveUp(k)

Spec == Init /\ [][Next]_outcome

=============================================================================
